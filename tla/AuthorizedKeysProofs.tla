------------------------- MODULE AuthorizedKeysProofs --------------------------
(***************************************************************************)
(* Proofs about AuthorizedKeys for any set of calls, keys and first files. *)
(* The types hold whatever overlaps; the rest when calls and executions of *)
(* one command do not.                                                     *)
(*                                                                         *)
(* What Keep computes is proved by induction over the sequence, in a form  *)
(* without an operator parameter: a set that has <<>> and, with s, every   *)
(* Append(s, x), has every sequence (SeqInductionSet).                     *)
(***************************************************************************)
EXTENDS AuthorizedKeys, SequenceTheorems, WellFoundedInduction, TLAPS

-------------------------------------------------------------------------------
(* Induction, and what Keep computes                                       *)

\* The order of the naturals, as a relation.
NatLess == OpToRel(<, Nat)

\* Its pairs.
LEMMA NatLessIs == NatLess = {ss \in Nat \X Nat : ss[1] < ss[2]}
  BY Zenon DEF NatLess, OpToRel

\* Every set of naturals that is not empty has a least member.
LEMMA NatLessFounded == IsWellFoundedOn(NatLess, Nat)
  BY Zenon, NatLessThanWellFounded DEF NatLess

\* Induction over the naturals, with a set for the predicate.
LEMMA NatInductionSet ==
  ASSUME NEW S, 0 \in S, \A n \in Nat : n \in S => n + 1 \in S
  PROVE  Nat \subseteq S
<1> SUFFICES ASSUME NEW m \in Nat, m \notin S PROVE FALSE
  OBVIOUS
<1> DEFINE T == {n \in Nat : n \notin S}
<1>1. PICK x \in T : \A y \in T : ~ (<<y, x>> \in NatLess)
  BY NatLessFounded, WFMin
<1>2. \A y \in T : ~ (y < x)
  BY <1>1, NatLessIs
<1>3. x # 0 /\ x - 1 \in Nat /\ x - 1 \notin T
  BY <1>2
<1> QED
  BY <1>3

\* Induction over sequences.
LEMMA SeqInductionSet ==
  ASSUME NEW L, NEW T, <<>> \in T,
         \A s \in Seq(L), x \in L : s \in T => Append(s, x) \in T
  PROVE  Seq(L) \subseteq T
<1> DEFINE S == {n \in Nat : \A s \in Seq(L) : Len(s) = n => s \in T}
<1>1. 0 \in S
  BY EmptySeq
<1>2. ASSUME NEW n \in Nat, n \in S PROVE n + 1 \in S
  <2> SUFFICES ASSUME NEW s \in Seq(L), Len(s) = n + 1 PROVE s \in T
    OBVIOUS
  <2> DEFINE f == SubSeq(s, 1, n)
  <2>1. f \in Seq(L) /\ Len(f) = n /\ s[n + 1] \in L
    OBVIOUS
  <2>2. s = Append(f, s[n + 1])
    OBVIOUS
  <2> QED
    BY <1>2, <2>1, <2>2
<1> HIDE DEF S
<1>3. Nat \subseteq S
  BY <1>1, <1>2, NatInductionSet
<1> QED
  BY <1>3 DEF S

\* What `Keep` is computed with.
Kept(s, K, m, f) ==
    f = [n \in 0..m |-> IF n = 0 THEN <<>>
                        ELSE IF s[n] \in K THEN Append(f[n - 1], s[n]) ELSE f[n - 1]]

\* There is such a function for every length, so CHOOSE finds one.
LEMMA KeptExists == ASSUME NEW s, NEW K PROVE \A m \in Nat : \E f : Kept(s, K, m, f)
<1> DEFINE S == {m \in Nat : \E f : Kept(s, K, m, f)}
<1>1. 0 \in S
  <2> DEFINE f == [n \in 0..0 |-> <<>>]
  <2>1. Kept(s, K, 0, f)
    BY DEF Kept
  <2> QED
    BY <2>1
<1>2. ASSUME NEW m \in Nat, m \in S PROVE m + 1 \in S
  <2>1. PICK f : Kept(s, K, m, f)
    BY <1>2
  <2> DEFINE last == IF s[m + 1] \in K THEN Append(f[m], s[m + 1]) ELSE f[m]
             g == [n \in 0..m + 1 |-> IF n = m + 1 THEN last ELSE f[n]]
  <2>2. \A n \in 0..m : f[n] = IF n = 0 THEN <<>>
                          ELSE IF s[n] \in K THEN Append(f[n - 1], s[n]) ELSE f[n - 1]
    BY <2>1 DEF Kept
  <2>3. \A n \in 0..m + 1 : g[n] = IF n = 0 THEN <<>>
                          ELSE IF s[n] \in K THEN Append(g[n - 1], s[n]) ELSE g[n - 1]
    BY <2>2
  <2>4. Kept(s, K, m + 1, g)
    BY <2>3 DEF Kept
  <2> QED
    BY <2>4
<1> HIDE DEF S
<1>3. Nat \subseteq S
  BY <1>1, <1>2, NatInductionSet
<1> QED
  BY <1>3 DEF S

\* Keep is the last value of such a function.
LEMMA KeepIs ==
  ASSUME NEW L, NEW s \in Seq(L), NEW K
  PROVE  \E f : Kept(s, K, Len(s), f) /\ Keep(s, K) = f[Len(s)]
<1> DEFINE g == CHOOSE f : Kept(s, K, Len(s), f)
<1>1. Kept(s, K, Len(s), g)
  <2>1. Len(s) \in Nat
    OBVIOUS
  <2> QED
  BY <2>1, KeptExists
<1>2. Keep(s, K) = g[Len(s)]
  BY DEF Keep, Kept
<1> QED
  BY <1>1, <1>2

\* An empty file stays empty.
LEMMA KeepEmpty == ASSUME NEW K PROVE Keep(<<>>, K) = <<>>
<1>1. PICK f : Kept(<<>>, K, Len(<<>>), f) /\ Keep(<<>>, K) = f[Len(<<>>)]
  BY KeepIs, EmptySeq
<1> QED
  BY <1>1 DEF Kept

\* One line more is kept, or it is not.
LEMMA KeepAppend ==
  ASSUME NEW L, NEW s \in Seq(L), NEW x \in L, NEW K
  PROVE  Keep(Append(s, x), K) = IF x \in K THEN Append(Keep(s, K), x) ELSE Keep(s, K)
<1> DEFINE t == Append(s, x)
<1>0. t \in Seq(L) /\ Len(t) = Len(s) + 1 /\ Len(s) \in Nat /\ t[Len(s) + 1] = x
      /\ \A n \in 1..Len(s) : t[n] = s[n]
  OBVIOUS
<1>1. PICK f : Kept(s, K, Len(s), f) /\ Keep(s, K) = f[Len(s)]
  BY KeepIs
<1>2. PICK g : Kept(t, K, Len(t), g) /\ Keep(t, K) = g[Len(t)]
  BY <1>0, KeepIs
<1> HIDE DEF t
<1>3. \A n \in 0..Len(s) : f[n] = IF n = 0 THEN <<>>
                          ELSE IF s[n] \in K THEN Append(f[n - 1], s[n]) ELSE f[n - 1]
  BY <1>1 DEF Kept
<1>4. \A n \in 0..Len(s) + 1 : g[n] = IF n = 0 THEN <<>>
                          ELSE IF t[n] \in K THEN Append(g[n - 1], t[n]) ELSE g[n - 1]
  BY <1>0, <1>2 DEF Kept
<1> DEFINE S == {n \in Nat : n <= Len(s) => g[n] = f[n]}
<1>5. 0 \in S
  BY <1>0, <1>3, <1>4
<1>6. ASSUME NEW n \in Nat, n \in S PROVE n + 1 \in S
  <2> SUFFICES ASSUME n + 1 <= Len(s) PROVE g[n + 1] = f[n + 1]
    OBVIOUS
  <2>1. n + 1 \in 1..Len(s) /\ n + 1 # 0 /\ (n + 1) - 1 = n /\ g[n] = f[n] /\ n + 1 \in 0..Len(s)
        /\ n + 1 \in 0..Len(s) + 1
    BY <1>0, <1>6
  <2> QED
    BY <1>0, <1>3, <1>4, <2>1
<1> HIDE DEF S
<1>7. Nat \subseteq S
  BY <1>5, <1>6, NatInductionSet
<1>8. g[Len(s)] = f[Len(s)]
  BY <1>0, <1>7 DEF S
<1>9. g[Len(s) + 1] = IF x \in K THEN Append(g[Len(s)], x) ELSE g[Len(s)]
  BY <1>0, <1>4
<1> QED
  BY <1>0, <1>1, <1>2, <1>8, <1>9 DEF t

\* The lines of a longer file.
LEMMA RangeAppend ==
  ASSUME NEW L, NEW s \in Seq(L), NEW x \in L
  PROVE  Range(Append(s, x)) = Range(s) \cup {x}
<1> DEFINE t == Append(s, x)
<1>1. /\ Len(s) \in Nat /\ DOMAIN s = 1..Len(s) /\ DOMAIN t = 1..Len(s) + 1
      /\ t[Len(s) + 1] = x
      /\ \A i \in 1..Len(s) : t[i] = s[i]
  OBVIOUS
<1> HIDE DEF t
<1>2. \A y : y \in Range(t) <=> \E i \in 1..Len(s) + 1 : y = t[i]
  BY <1>1 DEF Range
<1>3. \A y : y \in Range(s) <=> \E i \in 1..Len(s) : y = s[i]
  BY <1>1 DEF Range
<1>4. \A i \in 1..Len(s) + 1 : i = Len(s) + 1 \/ i \in 1..Len(s)
  BY <1>1
<1>5. Len(s) + 1 \in 1..Len(s) + 1 /\ 1..Len(s) \subseteq 1..Len(s) + 1
  BY <1>1
<1>6. \A y : y \in Range(t) <=> y \in Range(s) \cup {x}
  BY <1>1, <1>2, <1>3, <1>4, <1>5
<1> QED
  BY <1>6 DEF t

\* An empty file has no lines.
LEMMA RangeEmpty == Range(<<>>) = {}
  BY DEF Range

\* It keeps those lines that are in K.
LEMMA KeepLines ==
  ASSUME NEW L, NEW s \in Seq(L), NEW K
  PROVE  Keep(s, K) \in Seq(L) /\ Range(Keep(s, K)) = Range(s) \cap K
<1> DEFINE T == {u \in Seq(L) : Keep(u, K) \in Seq(L) /\ Range(Keep(u, K)) = Range(u) \cap K}
<1>1. <<>> \in T
  BY KeepEmpty, EmptySeq, RangeEmpty
<1>2. ASSUME NEW u \in Seq(L), NEW x \in L, u \in T
      PROVE  Append(u, x) \in T
  <2>1. Range(Append(u, x)) = Range(u) \cup {x}
    BY RangeAppend
  <2>2. Keep(u, K) \in Seq(L) /\ Range(Keep(u, K)) = Range(u) \cap K
    BY <1>2
  <2>3. Range(Append(Keep(u, K), x)) = Range(Keep(u, K)) \cup {x}
    BY <2>2, RangeAppend
  <2>4. Append(u, x) \in Seq(L) /\ Append(Keep(u, K), x) \in Seq(L)
    BY <2>2
  <2>5. CASE x \in K
    <3>1. Keep(Append(u, x), K) = Append(Keep(u, K), x)
      BY <2>5, KeepAppend
    <3> QED
      BY <2>1, <2>2, <2>3, <2>4, <2>5, <3>1
  <2>6. CASE x \notin K
    <3>1. Keep(Append(u, x), K) = Keep(u, K)
      BY <2>6, KeepAppend
    <3> QED
      BY <2>1, <2>2, <2>4, <2>6, <3>1
  <2> QED
    BY <2>5, <2>6
<1> HIDE DEF T
<1>3. Seq(L) \subseteq T
  BY <1>1, <1>2, SeqInductionSet
<1> QED
  BY <1>3 DEF T

\* What it keeps depends on which lines of s are in K, and on nothing else.
LEMMA KeepAgree ==
  ASSUME NEW L, NEW s \in Seq(L), NEW J, NEW K, Range(s) \cap J = Range(s) \cap K
  PROVE  Keep(s, J) = Keep(s, K)
<1> DEFINE T == {u \in Seq(L) : Range(u) \cap J = Range(u) \cap K => Keep(u, J) = Keep(u, K)}
<1>1. <<>> \in T
  BY KeepEmpty, EmptySeq
<1>2. ASSUME NEW u \in Seq(L), NEW x \in L, u \in T
      PROVE  Append(u, x) \in T
  <2>1. Range(Append(u, x)) = Range(u) \cup {x}
    BY RangeAppend
  <2>2. SUFFICES ASSUME Range(Append(u, x)) \cap J = Range(Append(u, x)) \cap K
                 PROVE  Keep(Append(u, x), J) = Keep(Append(u, x), K)
    OBVIOUS
  <2>3. Range(u) \cap J = Range(u) \cap K /\ (x \in J <=> x \in K)
    BY <2>1, <2>2
  <2>4. Keep(u, J) = Keep(u, K)
    BY <1>2, <2>3
  <2>5. /\ Keep(Append(u, x), J) = IF x \in J THEN Append(Keep(u, J), x) ELSE Keep(u, J)
        /\ Keep(Append(u, x), K) = IF x \in K THEN Append(Keep(u, K), x) ELSE Keep(u, K)
    BY KeepAppend
  <2> QED
    BY <2>3, <2>4, <2>5
<1> HIDE DEF T
<1>3. Seq(L) \subseteq T
  BY <1>1, <1>2, SeqInductionSet
<1> QED
  BY <1>3 DEF T

\* It is s, if all of them are.
LEMMA KeepAll ==
  ASSUME NEW L, NEW s \in Seq(L), NEW K, Range(s) \subseteq K
  PROVE  Keep(s, K) = s
<1> DEFINE T == {u \in Seq(L) : Range(u) \subseteq K => Keep(u, K) = u}
<1>1. <<>> \in T
  BY KeepEmpty, EmptySeq
<1>2. ASSUME NEW u \in Seq(L), NEW x \in L, u \in T
      PROVE  Append(u, x) \in T
  <2>1. Range(Append(u, x)) = Range(u) \cup {x}
    BY RangeAppend
  <2> QED
    BY <1>2, <2>1, KeepAppend
<1> HIDE DEF T
<1>3. Seq(L) \subseteq T
  BY <1>1, <1>2, SeqInductionSet
<1> QED
  BY <1>3 DEF T

-------------------------------------------------------------------------------
(* No torn writes                                                          *)

\* A step of a tool that starts no execution and touches no name or contents.
Quiet(t) ==
    \/ Begin(t) \/ Refuse(t) \/ EnsureSshDir(t) \/ CommandFails(t)
    \/ WriteAnswered(t) \/ WriteRefused(t) \/ WriteUnanswered(t)

\* The types the argument needs.
Typed ==
    /\ DOMAIN data = Inodes /\ DOMAIN payload = Tasks
    /\ ak  \in Inodes
    /\ tmp \in Inodes \cup {None}
    /\ pc   \in [Tasks -> {"new", "ensure", "read", "write", "rm", "done"}]
    /\ step \in [Execs -> {"none", "sent", "opened", "filled", "ok", "failed"}]
    /\ fd   \in [Execs -> Inodes \cup {None}]

Active(t) == pc[t] \notin {"new", "done"}

\* One call at a time, and one execution, which is that call's, or one that a
\* call that has returned left behind.
OneAtATime ==
    /\ \A t, u \in Tasks : Active(t) /\ Active(u) => t = u
    /\ \A p, q \in Execs : p \in Running /\ q \in Running => p = q
    /\ \A p \in Execs, t \in Tasks : p \in Running /\ Active(t) => p[1] = t

\* Executions start with the write, the retry after the first.
Ordered ==
    \A t \in Tasks :
        /\ pc[t] \in {"new", "ensure", "read"} =>
             step[<<t, 1>>] = "none" /\ step[<<t, 2>>] = "none"
        /\ pc[t] = "write" => step[<<t, 1>>] # "none"
        /\ step[<<t, 2>>] # "none" => step[<<t, 1>>] # "none"

\* authorized_keys is never the inode that is written: not the one called tmp,
\* not one that is still to be made, not one that is open.
Apart ==
    /\ tmp # ak
    /\ \A p \in Execs :
         /\ step[p] \in {"none", "sent"} => ak # p /\ tmp # p
         /\ step[p] \in {"opened", "filled"} =>
              fd[p] \in Inodes \ {ak} /\ tmp \in {None, fd[p]}

\* An inode that has been opened is empty, and then has all of the payload.
Whole ==
    \A p \in Execs :
        /\ step[p] = "opened" => data[fd[p]] = <<>>
        /\ step[p] = "filled" => data[fd[p]] = payload[p[1]]

\* The inductive invariant.
IInv == Typed /\ OneAtATime /\ Ordered /\ Apart /\ Whole /\ NoTornWrites

\* An execution is a task's first or second.
LEMMA ExecsAre ==
  ASSUME NEW p \in Execs
  PROVE  p[1] \in Tasks /\ (p = <<p[1], 1>> \/ p = <<p[1], 2>>)
  BY DEF Execs

\* The two executions of each task.
LEMMA ExecsOf ==
  /\ \A t \in Tasks : <<t, 1>> \in Execs /\ <<t, 2>> \in Execs
  /\ Execs \subseteq Inodes /\ Original \in Inodes /\ Original \notin Execs
  /\ None \notin Inodes
  BY NoneAssumption DEF Execs, Inodes, Original

\* The start: no call, no execution, one file.
LEMMA InitIInv == Init => IInv
<1> SUFFICES ASSUME Init PROVE IInv
  OBVIOUS
<1> USE ExecsOf
<1>1. Typed
  BY DEF Init, Typed
<1>2. OneAtATime /\ Ordered
  BY DEF Init, OneAtATime, Ordered, Active, Running
<1>3. Apart /\ Whole
  BY DEF Init, Apart, Whole
<1>4. NoTornWrites
  BY DEF Init, NoTornWrites, File
<1> QED
  BY <1>1, <1>2, <1>3, <1>4 DEF IInv

\* Steps of a tool between its commands leave the file system alone.
LEMMA QuietStep ==
  ASSUME ~Overlap, IInv, NEW t \in Tasks, Quiet(t)
  PROVE  IInv'
<1> USE ExecsOf
<1>1. /\ UNCHANGED <<data, ak, tmp, payload, step, fd, initial>>
      /\ pc' \in [Tasks -> {"new", "ensure", "read", "write", "rm", "done"}]
      /\ \A u \in Tasks \ {t} : pc'[u] = pc[u]
      /\ pc[t] # "done" /\ pc'[t] \in {"ensure", "read", "rm", "done"}
      /\ pc'[t] \in {"ensure", "read"} => pc[t] \in {"new", "ensure", "read"}
      /\ pc[t] = "new" /\ pc'[t] # "done" => Alone(t)
  BY DEF IInv, Typed, Quiet, Begin, Refuse, EnsureSshDir, CommandFails, WriteAnswered,
         WriteRefused, WriteUnanswered, Goto, Return, nas, execs
<1>2. Running' = Running /\ File' = File
  BY <1>1 DEF Running, File
<1>3. Typed'
  BY <1>1 DEF IInv, Typed
<1>4. OneAtATime'
  <2>1. CASE pc'[t] = "done" \/ pc[t] # "new"
    <3>1. \A u \in Tasks : Active(u)' => Active(u)
      BY <1>1, <2>1 DEF Active
    <3> QED
      BY <1>2, <3>1 DEF IInv, OneAtATime
  <2>2. CASE pc'[t] # "done" /\ pc[t] = "new"
    <3>1. Running' = {} /\ \A u \in Tasks : Active(u)' => u = t
      BY <1>1, <1>2, <2>2 DEF Active, Alone
    <3> QED
      BY <3>1 DEF OneAtATime
  <2> QED
    BY <2>1, <2>2
<1>5. Ordered'
  BY <1>1 DEF IInv, Ordered
<1>6. Apart' /\ Whole' /\ NoTornWrites'
  BY <1>1, <1>2 DEF IInv, Apart, Whole, NoTornWrites
<1> QED
  BY <1>3, <1>4, <1>5, <1>6 DEF IInv

\* The removal of tmp: what is open stays open, without a name.
LEMMA CleanupStep ==
  ASSUME IInv, NEW t \in Tasks, Cleanup(t)
  PROVE  IInv'
<1> USE ExecsOf
<1>1. /\ UNCHANGED <<data, ak, payload, step, fd, initial>>
      /\ tmp' \in {None, tmp}
      /\ pc' = [pc EXCEPT ![t] = "done"]
  BY DEF Cleanup, Return, Goto, execs
<1>2. Running' = Running /\ File' = File
  BY <1>1 DEF Running, File
<1>3. Typed' /\ OneAtATime' /\ Ordered'
  BY <1>1, <1>2 DEF IInv, Typed, OneAtATime, Active, Ordered
<1>4. Apart'
  <2>1. \A p \in Execs : step[p] \in {"none", "sent"} => tmp' # p
    BY <1>1 DEF IInv, Apart
  <2>2. tmp' # ak
    BY <1>1 DEF IInv, Typed, Apart
  <2> QED
    BY <1>1, <2>1, <2>2 DEF IInv, Apart
<1>5. Whole' /\ NoTornWrites'
  BY <1>1, <1>2 DEF IInv, Whole, NoTornWrites
<1> QED
  BY <1>3, <1>4, <1>5 DEF IInv

\* A call decides; the payload it may set is one no execution has been sent with.
LEMMA ReadStep ==
  ASSUME IInv, NEW t \in Tasks, ReadAnswered(t)
  PROVE  IInv'
<1> USE ExecsOf
<1>1. /\ UNCHANGED <<data, ak, tmp, fd, initial>>
      /\ pc[t] = "read"
      /\ \/ pc' = [pc EXCEPT ![t] = "done"] /\ UNCHANGED <<payload, step>>
         \/ /\ pc' = [pc EXCEPT ![t] = "write"]
            /\ step' = [step EXCEPT ![<<t, 1>>] = "sent"]
            /\ DOMAIN payload' = Tasks
            /\ \A u \in Tasks \ {t} : payload'[u] = payload[u]
  BY DEF ReadAnswered, Return, Goto, nas, IInv, Typed
<1>2. step[<<t, 1>>] = "none" /\ step[<<t, 2>>] = "none" /\ Active(t)
  BY <1>1 DEF IInv, Ordered, Active
<1>3. \A p \in Execs : p \notin Running
  BY <1>2, ExecsAre DEF IInv, OneAtATime, Running
<1>4. \A p \in Execs : p \in Running' => p = <<t, 1>>
  BY <1>1, <1>3 DEF Running, IInv, Typed
<1>5. Typed'
  BY <1>1 DEF IInv, Typed
<1>6. OneAtATime'
  BY <1>1, <1>2, <1>4 DEF IInv, Typed, OneAtATime, Active
<1>7. Ordered'
  <2>1. \A u \in Tasks \ {t} : step'[<<u, 1>>] = step[<<u, 1>>] /\ pc'[u] = pc[u]
    BY <1>1 DEF IInv, Typed
  <2>2. \A u \in Tasks : step'[<<u, 2>>] = step[<<u, 2>>]
    <3>1. \A u \in Tasks : <<u, 2>> # <<t, 1>>
      OBVIOUS
    <3> QED
      BY <1>1, <3>1 DEF IInv, Typed
  <2>3. pc'[t] = "done" \/ (pc'[t] = "write" /\ step'[<<t, 1>>] = "sent")
    BY <1>1 DEF IInv, Typed
  <2> QED
    BY <1>2, <2>1, <2>2, <2>3 DEF IInv, Ordered
<1>8. Apart'
  BY <1>1, <1>2 DEF IInv, Typed, Apart
<1>9. Whole'
  <2>1. \A p \in Execs : step'[p] \notin {"opened", "filled"}
    BY <1>1, <1>3 DEF Running, IInv, Typed
  <2> QED
    BY <2>1 DEF Whole
<1>10. NoTornWrites'
  BY <1>1, <1>2 DEF IInv, Typed, NoTornWrites, File
<1> QED
  BY <1>5, <1>6, <1>7, <1>8, <1>9, <1>10 DEF IInv

\* The retry starts when the first execution is over.
LEMMA RetryStep ==
  ASSUME ~Overlap, IInv, NEW t \in Tasks, Retry(t)
  PROVE  IInv'
<1> USE ExecsOf
<1>1. /\ UNCHANGED <<data, ak, tmp, fd, initial, pc, payload>>
      /\ pc[t] = "write" /\ Active(t)
      /\ step[<<t, 2>>] = "none" /\ <<t, 1>> \notin Running
      /\ step' = [step EXCEPT ![<<t, 2>>] = "sent"]
  BY DEF Retry, nas, Active
<1>2. \A p \in Execs : p \notin Running
  BY <1>1, ExecsAre DEF IInv, OneAtATime, Running
<1>3. \A p \in Execs : p \in Running' => p = <<t, 2>>
  BY <1>1, <1>2 DEF Running, IInv, Typed
<1>4. Typed'
  BY <1>1 DEF IInv, Typed
<1>5. OneAtATime'
  BY <1>1, <1>3 DEF IInv, OneAtATime, Active
<1>6. Ordered'
  BY <1>1 DEF IInv, Typed, Ordered
<1>7. Apart'
  BY <1>1 DEF IInv, Typed, Apart
<1>8. Whole'
  <2>1. \A p \in Execs : step'[p] \notin {"opened", "filled"}
    BY <1>1, <1>2 DEF Running, IInv, Typed
  <2> QED
    BY <2>1 DEF Whole
<1>9. NoTornWrites'
  BY <1>1 DEF IInv, Typed, NoTornWrites, File
<1> QED
  BY <1>4, <1>5, <1>6, <1>7, <1>8, <1>9 DEF IInv

\* What an execution does, does not make another one run, nor a call.
LEMMA ExecStep ==
  ASSUME IInv, NEW p \in Execs, p \in Running, UNCHANGED pc,
         NEW next \in {"opened", "filled", "ok", "failed"},
         step' = [step EXCEPT ![p] = next]
  PROVE  OneAtATime' /\ Ordered' /\ \A q \in Execs \ {p} : q \notin Running /\ q \notin Running'
<1> USE ExecsOf
<1>1. \A q \in Execs \ {p} : q \notin Running /\ q \notin Running'
  BY DEF IInv, Typed, OneAtATime, Running
<1>2. OneAtATime'
  BY <1>1 DEF IInv, OneAtATime, Active
<1>3. step[p] # "none"
  BY DEF Running
<1>4. Ordered'
  BY <1>3 DEF IInv, Typed, Ordered
<1> QED
  BY <1>1, <1>2, <1>4

\* The redirection makes or empties a file that is not authorized_keys.
LEMMA OpenStep ==
  ASSUME IInv, NEW p \in Execs, OpenTmp(p)
  PROVE  IInv'
<1> USE ExecsOf
<1> DEFINE i == IF tmp = None THEN p ELSE tmp
<1>1. /\ step[p] = "sent" /\ p \in Running
      /\ step' = [step EXCEPT ![p] = "opened"]
      /\ fd'   = [fd EXCEPT ![p] = i]
      /\ tmp'  = i
      /\ data' = [data EXCEPT ![i] = <<>>]
      /\ UNCHANGED <<ak, pc, payload, initial>>
  BY DEF OpenTmp, Running
<1>2. i \in Inodes /\ i # ak
  BY <1>1 DEF IInv, Typed, Apart
<1>3. OneAtATime' /\ Ordered' /\ \A q \in Execs \ {p} : q \notin Running /\ q \notin Running'
  BY <1>1, ExecStep
<1> HIDE DEF i
<1>4. Typed'
  BY <1>1, <1>2 DEF IInv, Typed
<1>5. \A q \in Execs \ {p} : step'[q] = step[q] /\ step[q] \notin {"sent", "opened", "filled"}
  BY <1>1, <1>3 DEF IInv, Typed, Running
<1>6. step'[p] = "opened" /\ fd'[p] = i
  BY <1>1 DEF IInv, Typed
<1>7. Apart'
  <2>1. \A q \in Execs \ {p} : step[q] = "none" => i # q
    BY DEF i, IInv, Apart
  <2> QED
    BY <1>1, <1>2, <1>5, <1>6, <2>1 DEF IInv, Apart
<1>8. Whole'
  BY <1>1, <1>2, <1>5, <1>6 DEF IInv, Typed, Whole
<1>9. NoTornWrites'
  <2>1. File' = File
    BY <1>1, <1>2 DEF File, IInv, Typed
  <2>2. \A t \in Tasks : step[<<t, 1>>] # "none" => step'[<<t, 1>>] # "none"
    BY <1>1 DEF IInv, Typed
  <2> QED
    BY <1>1, <2>1, <2>2 DEF IInv, NoTornWrites
<1> QED
  BY <1>3, <1>4, <1>7, <1>8, <1>9 DEF IInv

\* The payload goes into a file that was empty.
LEMMA FillStep ==
  ASSUME IInv, NEW p \in Execs, FillTmp(p)
  PROVE  IInv'
<1> USE ExecsOf
<1>1. /\ step[p] = "opened" /\ p \in Running
      /\ step' = [step EXCEPT ![p] = "filled"]
      /\ data' = [data EXCEPT ![fd[p]] = payload[p[1]]]
      /\ UNCHANGED <<ak, tmp, fd, pc, payload, initial>>
  BY DEF FillTmp, Running, Overlay, IInv, Whole
<1>2. fd[p] \in Inodes \ {ak}
  BY <1>1 DEF IInv, Apart
<1>3. OneAtATime' /\ Ordered' /\ \A q \in Execs \ {p} : q \notin Running /\ q \notin Running'
  BY <1>1, ExecStep
<1>4. Typed'
  BY <1>1 DEF IInv, Typed
<1>5. \A q \in Execs \ {p} : step'[q] = step[q] /\ step[q] \notin {"sent", "opened", "filled"}
  BY <1>1, <1>3 DEF IInv, Typed, Running
<1>6. step'[p] = "filled"
  BY <1>1 DEF IInv, Typed
<1>7. Apart'
  BY <1>1, <1>5, <1>6 DEF IInv, Apart
<1>8. Whole'
  BY <1>1, <1>2, <1>5, <1>6 DEF IInv, Typed, Whole
<1>9. NoTornWrites'
  <2>1. File' = File
    BY <1>1, <1>2 DEF File, IInv, Typed
  <2>2. \A t \in Tasks : step[<<t, 1>>] # "none" => step'[<<t, 1>>] # "none"
    BY <1>1 DEF IInv, Typed
  <2> QED
    BY <1>1, <2>1, <2>2 DEF IInv, NoTornWrites
<1> QED
  BY <1>3, <1>4, <1>7, <1>8, <1>9 DEF IInv

\* The rename: tmp is the file this execution has filled.
LEMMA MoveStep ==
  ASSUME IInv, NEW p \in Execs, MoveTmp(p)
  PROVE  IInv'
<1> USE ExecsOf
<1>1. /\ step[p] = "filled" /\ p \in Running /\ tmp # None
      /\ step' = [step EXCEPT ![p] = "ok"]
      /\ ak' = tmp /\ tmp' = None
      /\ UNCHANGED <<data, fd, pc, payload, initial>>
  BY DEF MoveTmp, Running
<1>2. tmp = fd[p] /\ tmp \in Inodes /\ data[tmp] = payload[p[1]]
  BY <1>1 DEF IInv, Apart, Whole
<1>3. OneAtATime' /\ Ordered' /\ \A q \in Execs \ {p} : q \notin Running /\ q \notin Running'
  BY <1>1, ExecStep
<1>4. Typed'
  BY <1>1, <1>2 DEF IInv, Typed
<1>5. \A q \in Execs \ {p} : step'[q] = step[q] /\ step[q] \notin {"sent", "opened", "filled"}
  BY <1>1, <1>3 DEF IInv, Typed, Running
<1>6. step'[p] = "ok"
  BY <1>1 DEF IInv, Typed
<1>7. Apart'
  BY <1>1, <1>2, <1>5, <1>6 DEF IInv, Apart
<1>8. Whole'
  BY <1>1, <1>5, <1>6 DEF Whole
<1>9. NoTornWrites'
  <2>1. p[1] \in Tasks /\ step'[<<p[1], 1>>] # "none"
    BY <1>1, ExecsAre DEF IInv, Typed, Ordered
  <2>2. File' = payload'[p[1]]
    BY <1>1, <1>2 DEF File
  <2> QED
    BY <2>1, <2>2 DEF NoTornWrites
<1> QED
  BY <1>3, <1>4, <1>7, <1>8, <1>9 DEF IInv

\* A command that stops leaves what it has made.
LEMMA StopStep ==
  ASSUME IInv, NEW p \in Execs, CommandStops(p)
  PROVE  IInv'
<1> USE ExecsOf
<1>1. /\ step[p] \in {"sent", "opened", "filled"} /\ p \in Running
      /\ step' = [step EXCEPT ![p] = "failed"]
      /\ UNCHANGED <<data, ak, tmp, fd, pc, payload, initial>>
  BY DEF CommandStops, Running, nas
<1>2. OneAtATime' /\ Ordered'
  BY <1>1, ExecStep
<1>3. /\ step'[p] = "failed"
      /\ \A q \in Execs \ {p} : step'[q] = step[q]
  BY <1>1 DEF IInv, Typed
<1>4. Typed'
  BY <1>1 DEF IInv, Typed
<1>5. Apart' /\ Whole'
  BY <1>1, <1>3 DEF IInv, Apart, Whole
<1>6. NoTornWrites'
  BY <1>1, <1>3 DEF IInv, NoTornWrites, File
<1> QED
  BY <1>2, <1>4, <1>5, <1>6 DEF IInv

\* IInv is inductive.
LEMMA NextIInv ==
  ASSUME ~Overlap, IInv, [Next]_vars
  PROVE  IInv'
<1>1. CASE UNCHANGED vars
  BY <1>1 DEF vars, nas, execs, IInv, Typed, OneAtATime, Active, Running, Ordered, Apart,
              Whole, NoTornWrites, File
<1>2. ASSUME NEW t \in Tasks, Quiet(t)
      PROVE  IInv'
  BY <1>2, QuietStep
<1>3. ASSUME NEW t \in Tasks, ReadAnswered(t) \/ Retry(t) \/ Cleanup(t)
      PROVE  IInv'
  BY <1>3, ReadStep, RetryStep, CleanupStep
<1>4. ASSUME NEW p \in Execs, OpenTmp(p) \/ FillTmp(p) \/ MoveTmp(p) \/ CommandStops(p)
      PROVE  IInv'
  BY <1>4, OpenStep, FillStep, MoveStep, StopStep
<1> QED
  BY <1>1, <1>2, <1>3, <1>4 DEF Next, Quiet

\* "Single rename, no torn writes": as long as neither calls nor executions of a
\* command overlap, the file holds what it started with or the whole of what some
\* call sent, through lost answers, commands that stop anywhere, repeated
\* executions, and executions that go on when the tool has given up.
THEOREM NeverTorn == ASSUME ~Overlap PROVE Spec => []NoTornWrites
<1>1. Init => IInv
  BY InitIInv
<1>2. IInv /\ [Next]_vars => IInv'
  BY NextIInv
<1>3. IInv => NoTornWrites
  BY DEF IInv
<1> QED
  BY <1>1, <1>2, <1>3, PTL DEF Spec

-------------------------------------------------------------------------------
(* Types                                                                   *)

\* The lines of a key file that the tools keep.
Entries == Keys \cup Garbage

\* _split_authorized_keys drops the comments, and only them.
LEMMA SplitTyped ==
  ASSUME NEW s \in Seq(Lines)
  PROVE  Split(s) \in Seq(Lines) /\ Range(Split(s)) = Range(s) \cap Entries
  BY KeepLines DEF Split, Entries

\* What a tool writes is made of lines.
LEMMA NewEntriesTyped ==
  ASSUME TypeOK, NEW t \in Tasks, NEW s \in Seq(Lines)
  PROVE  NewEntries(t, s) \in Seq(Lines)
<1>1. op[t].key \in Lines
  BY DEF TypeOK, Lines
<1>2. Keep(s, Lines \ {op[t].key}) \in Seq(Lines)
  BY KeepLines
<1> QED
  BY <1>1, <1>2 DEF NewEntries

\* The steps of a tool keep the types.
LEMMA ToolTyped ==
  ASSUME TypeOK, NEW t \in Tasks, Quiet(t) \/ ReadAnswered(t) \/ Retry(t) \/ Cleanup(t)
  PROVE  TypeOK'
<1> USE ExecsOf
<1>1. CASE Quiet(t)
  BY <1>1 DEF Quiet, Begin, Refuse, EnsureSshDir, CommandFails, WriteAnswered, WriteRefused,
              WriteUnanswered, Goto, Return, nas, execs, TypeOK
<1>2. CASE ReadAnswered(t)
  <2> DEFINE entries == IF readable THEN Split(File) ELSE <<>>
  <2>1. entries \in Seq(Lines)
    <3>1. File \in Seq(Lines)
      BY DEF File, TypeOK
    <3> QED
      BY <3>1, SplitTyped, EmptySeq
  <2>2. NewEntries(t, entries) \in Seq(Lines)
    BY <2>1, NewEntriesTyped
  <2> HIDE DEF entries
  <2>3. /\ UNCHANGED <<nas, op, fd, initial>>
        /\ \/ Return(t, "unchanged") /\ UNCHANGED <<payload, step>>
           \/ /\ payload' = [payload EXCEPT ![t] = NewEntries(t, entries)]
              /\ step'    = [step EXCEPT ![<<t, 1>>] = "sent"]
              /\ Goto(t, "write")
              /\ UNCHANGED result
    BY <1>2 DEF ReadAnswered, entries
  <2>4. /\ payload' \in [Tasks -> Seq(Lines)]
        /\ step' \in [Execs -> {"none", "sent", "opened", "filled", "ok", "failed"}]
    BY <2>2, <2>3 DEF TypeOK
  <2>5. /\ pc' \in [Tasks -> {"new", "ensure", "read", "write", "rm", "done"}]
        /\ result' \in [Tasks -> {"none", "ok", "unchanged", "refused", "error"}]
    BY <2>3 DEF Goto, Return, TypeOK
  <2> QED
    BY <2>3, <2>4, <2>5 DEF nas, TypeOK
<1>3. CASE Retry(t)
  BY <1>3 DEF Retry, nas, TypeOK
<1>4. CASE Cleanup(t)
  BY <1>4 DEF Cleanup, Return, Goto, execs, TypeOK
<1> QED
  BY <1>1, <1>2, <1>3, <1>4

\* So do the writes on the NAS.
LEMMA OverlayTyped ==
  ASSUME NEW s \in Seq(Lines), NEW old \in Seq(Lines)
  PROVE  Overlay(s, old) \in Seq(Lines)
<1>1. SubSeq(old, Len(s) + 1, Len(old)) \in Seq(Lines)
  OBVIOUS
<1> QED
  BY <1>1 DEF Overlay

\* The steps of an execution keep the types.
LEMMA ExecTyped ==
  ASSUME TypeOK, NEW p \in Execs, OpenTmp(p) \/ FillTmp(p) \/ MoveTmp(p) \/ CommandStops(p)
  PROVE  TypeOK'
<1> USE ExecsOf
<1>1. CASE OpenTmp(p)
  <2> DEFINE i == IF tmp = None THEN p ELSE tmp
  <2>1. i \in Inodes
    BY DEF TypeOK
  <2>2. /\ step' = [step EXCEPT ![p] = "opened"]
        /\ fd'   = [fd EXCEPT ![p] = i]
        /\ tmp'  = i
        /\ data' = [data EXCEPT ![i] = <<>>]
        /\ UNCHANGED <<ak, readable, pc, op, payload, result, initial>>
    BY <1>1 DEF OpenTmp
  <2> HIDE DEF i
  <2>3. data' \in [Inodes -> Seq(Lines)]
    BY <2>2, EmptySeq DEF TypeOK
  <2> QED
    BY <2>1, <2>2, <2>3 DEF TypeOK
<1>2. CASE FillTmp(p)
  <2>1. \A i \in Inodes : Overlay(payload[p[1]], data[i]) \in Seq(Lines)
    BY ExecsAre, OverlayTyped DEF TypeOK
  <2>2. data' \in [Inodes -> Seq(Lines)]
    BY <1>2, <2>1 DEF FillTmp, TypeOK
  <2> QED
    BY <1>2, <2>2 DEF FillTmp, TypeOK
<1>3. CASE MoveTmp(p)
  <2>1. tmp \in Inodes /\ None \in Inodes \cup {None}
    BY <1>3 DEF MoveTmp, TypeOK
  <2> QED
    BY <1>3, <2>1 DEF MoveTmp, TypeOK
<1>4. CASE CommandStops(p)
  BY <1>4 DEF CommandStops, nas, TypeOK
<1> QED
  BY <1>1, <1>2, <1>3, <1>4

\* The types hold at the start.
LEMMA InitTyped == Init => TypeOK
<1> SUFFICES ASSUME Init PROVE TypeOK
  OBVIOUS
<1>1. initial \in Seq(Lines)
  BY LinesAssumption DEF Init, Lines
<1> QED
  BY <1>1, ExecsOf, EmptySeq DEF Init, TypeOK

\* Every step keeps the types.
LEMMA NextTyped ==
  ASSUME TypeOK, [Next]_vars
  PROVE  TypeOK'
<1>1. CASE UNCHANGED vars
  BY <1>1 DEF vars, nas, execs, TypeOK
<1>2. CASE Next
  BY <1>2, ToolTyped, ExecTyped DEF Next, Quiet
<1> QED
  BY <1>1, <1>2

\* Types, whether or not anything overlaps.
THEOREM TypeCorrect == Spec => []TypeOK
<1>1. Init => TypeOK
  BY InitTyped
<1>2. TypeOK /\ [Next]_vars => TypeOK'
  BY NextTyped
<1> QED
  BY <1>1, <1>2, PTL DEF Spec

-------------------------------------------------------------------------------
(* What the lines of the file become                                       *)

\* What t writes is what t makes of the file.
Makes(t) ==
    /\ payload[t] = NewEntries(t, Split(File))
    /\ ~ NothingToDo(t, Split(File))

\* What t has sent may still get into the file.
Pending(t) == pc[t] \in {"write", "rm"} \/ \E k \in {1, 2} : <<t, k>> \in Running

Sent(t) == step[<<t, 1>>] # "none"

\* An add decides on a file it can read; a payload has the key if it is an add's;
\* the file from which it was made is there until it is written; and an execution
\* that has ended well has written it.
Based ==
    /\ \A t \in Tasks : pc[t] = "read" /\ op[t].tool = "add" => readable
    /\ \A t \in Tasks : pc[t] # "done" => result[t] = "none"
    /\ \A t \in Tasks : Sent(t) => (op[t].key \in Range(payload[t]) <=> op[t].tool = "add")
    /\ \A t \in Tasks : Pending(t) => File = payload[t] \/ Makes(t)
    /\ \A t \in Tasks, k \in {1, 2} : Active(t) /\ step[<<t, k>>] = "ok" => File = payload[t]

DInv == IInv /\ TypeOK /\ Based

\* What NewEntries makes of the lines of a file, if it is called.
LEMMA NewEntriesLines ==
  ASSUME TypeOK, NEW t \in Tasks, NEW s \in Seq(Lines), ~ NothingToDo(t, Split(s))
  PROVE  LET new == NewEntries(t, Split(s)) IN
         /\ new \in Seq(Lines)
         /\ \/ /\ op[t].tool = "add" /\ op[t].key \notin Range(s)
               /\ new = Append(Split(s), op[t].key)
               /\ Range(new) = (Range(s) \cap Entries) \cup {op[t].key}
            \/ /\ op[t].tool = "remove" /\ op[t].key \in Range(s)
               /\ new = Keep(Split(s), Lines \ {op[t].key})
               /\ Range(new) = (Range(s) \cap Entries) \ {op[t].key}
<1> DEFINE k == op[t].key
           u == Split(s)
<1>1. k \in Keys /\ k \in Lines /\ k \in Entries /\ op[t].tool \in {"add", "remove"}
  BY DEF TypeOK, Lines, Entries
<1>2. u \in Seq(Lines) /\ Range(u) = Range(s) \cap Entries
  BY SplitTyped
<1> HIDE DEF k, u
<1>3. CASE op[t].tool = "add"
  <2>1. NewEntries(t, u) = Append(u, k)
    BY <1>3 DEF NewEntries, k
  <2>2. k \notin Range(u)
    BY <1>3 DEF NothingToDo, In, k, u
  <2>3. Append(u, k) \in Seq(Lines) /\ Range(Append(u, k)) = Range(u) \cup {k}
    BY <1>1, <1>2, RangeAppend
  <2> QED
    BY <1>1, <1>2, <1>3, <2>1, <2>2, <2>3 DEF k, u
<1>4. CASE op[t].tool = "remove"
  <2>1. NewEntries(t, u) = Keep(u, Lines \ {k})
    BY <1>4 DEF NewEntries, k
  <2>2. k \in Range(u)
    BY <1>4 DEF NothingToDo, In, k, u
  <2>3. Keep(u, Lines \ {k}) \in Seq(Lines) /\ Range(Keep(u, Lines \ {k})) = Range(u) \cap (Lines \ {k})
    BY <1>2, KeepLines
  <2>4. Range(u) \cap (Lines \ {k}) = (Range(s) \cap Entries) \ {k}
    BY <1>2 DEF Lines, Entries
  <2> QED
    BY <1>1, <1>2, <1>4, <2>1, <2>2, <2>3, <2>4 DEF k, u
<1> QED
  BY <1>1, <1>3, <1>4

\* The step that replaces the file is the rename, and its payload is what the call
\* has made of the file, or made of it before.
LEMMA FileSteps ==
  ASSUME ~Overlap, DInv, [Next]_vars
  PROVE  \/ File' = File
         \/ \E t \in Tasks : Sent(t) /\ File' = payload[t] /\ Makes(t)
<1> USE ExecsOf
<1>1. CASE \E p \in Execs : MoveTmp(p)
  <2>1. PICK p \in Execs : MoveTmp(p)
    BY <1>1
  <2>2. /\ p \in Running /\ tmp = fd[p] /\ data[tmp] = payload[p[1]]
        /\ File' = data[tmp]
    BY <2>1 DEF MoveTmp, Running, DInv, IInv, Apart, Whole, File
  <2>3. p[1] \in Tasks /\ Sent(p[1]) /\ Pending(p[1])
    <3>1. step[p] # "none"
      BY <2>2 DEF Running
    <3> QED
      BY <2>2, <3>1, ExecsAre DEF DInv, IInv, Ordered, Sent, Pending
  <2> QED
    BY <2>2, <2>3 DEF DInv, Based
<1>2. CASE \E p \in Execs : OpenTmp(p)
  BY <1>2 DEF OpenTmp, DInv, IInv, Typed, Apart, File
<1>3. CASE \E p \in Execs : FillTmp(p)
  BY <1>3 DEF FillTmp, DInv, IInv, Typed, Apart, File
<1>4. CASE \E p \in Execs : CommandStops(p)
  BY <1>4 DEF CommandStops, nas, File
<1>5. CASE \E t \in Tasks : Quiet(t) \/ ReadAnswered(t) \/ Retry(t) \/ Cleanup(t)
  BY <1>5 DEF Quiet, Begin, Refuse, EnsureSshDir, CommandFails, WriteAnswered, WriteRefused,
              WriteUnanswered, ReadAnswered, Retry, Cleanup, nas, File
<1>6. CASE UNCHANGED vars
  BY <1>6 DEF vars, nas, File
<1> QED
  BY <1>1, <1>2, <1>3, <1>4, <1>5, <1>6 DEF Next, Quiet

\* Steps of a tool that write nothing leave what is pending as it is.
LEMMA QuietBased ==
  ASSUME ~Overlap, DInv, NEW t \in Tasks, Quiet(t) \/ Cleanup(t)
  PROVE  Based'
<1> USE ExecsOf
<1>1. IInv'
  BY QuietStep, CleanupStep DEF DInv
<1>2. /\ UNCHANGED <<data, ak, readable, payload, step, op>>
      /\ \A u \in Tasks \ {t} : pc'[u] = pc[u] /\ result'[u] = result[u]
      /\ pc[t] # "done"
      /\ pc'[t] = "done" \/ result'[t] = result[t]
      /\ pc'[t] \in {"write", "rm"} => pc[t] \in {"write", "rm"}
      /\ pc'[t] = "read" /\ op[t].tool = "add" => readable
  BY DEF DInv, TypeOK, Quiet, Begin, Refuse, EnsureSshDir, CommandFails, WriteAnswered,
         WriteRefused, WriteUnanswered, Cleanup, Goto, Return, nas, execs
<1>3. Running' = Running /\ File' = File /\ \A u \in Tasks : Makes(u)' <=> Makes(u)
  BY <1>2 DEF Running, File, Makes, NewEntries, NothingToDo
<1>4. \A u \in Tasks : Pending(u)' => Pending(u)
  BY <1>2, <1>3 DEF Pending
<1>5. \A u \in Tasks, k \in {1, 2} : Active(u)' /\ step'[<<u, k>>] = "ok" => Active(u)
  <2> SUFFICES ASSUME NEW k \in {1, 2}, Active(t)', step'[<<t, k>>] = "ok" PROVE Active(t)
    BY <1>2 DEF Active
  <2>1. pc'[t] \notin {"new", "ensure", "read", "done"}
    BY <1>1 DEF IInv, Ordered, Active
  <2>2. pc'[t] \in {"write", "rm"}
    BY <1>1, <2>1 DEF IInv, Typed
  <2> QED
    BY <1>2, <2>2 DEF Active
<1> QED
  BY <1>2, <1>3, <1>4, <1>5 DEF DInv, Based, Sent

\* What a call decides to write is made of the file: a file it cannot read is that
\* of a remove, which then finds nothing to do.
LEMMA ReadMakes ==
  ASSUME DInv, NEW t \in Tasks, ReadAnswered(t), pc'[t] = "write"
  PROVE  readable /\ payload'[t] = NewEntries(t, Split(File)) /\ ~ NothingToDo(t, Split(File))
<1> DEFINE entries == IF readable THEN Split(File) ELSE <<>>
<1>1. /\ pc[t] = "read"
      /\ ~ NothingToDo(t, entries)
      /\ payload' = [payload EXCEPT ![t] = NewEntries(t, entries)]
  BY DEF ReadAnswered, Return, Goto, DInv, TypeOK
<1>2. readable
  <2> SUFFICES ASSUME ~ readable PROVE FALSE
    OBVIOUS
  <2>1. op[t].tool = "add"
    BY <1>1, RangeEmpty DEF NothingToDo, In, DInv, TypeOK
  <2> QED
    BY <1>1, <2>1 DEF DInv, Based
<1> QED
  BY <1>1, <1>2 DEF DInv, TypeOK

\* A call decides on the file it has read, alone.
LEMMA ReadBased ==
  ASSUME DInv, NEW t \in Tasks, ReadAnswered(t)
  PROVE  Based'
<1> USE ExecsOf
<1> DEFINE entries == IF readable THEN Split(File) ELSE <<>>
<1>1. /\ UNCHANGED <<data, ak, readable, op>> /\ pc[t] = "read"
      /\ \/ Return(t, "unchanged") /\ UNCHANGED <<payload, step>>
         \/ /\ ~ NothingToDo(t, entries)
            /\ payload' = [payload EXCEPT ![t] = NewEntries(t, entries)]
            /\ step'    = [step EXCEPT ![<<t, 1>>] = "sent"]
            /\ Goto(t, "write")
            /\ UNCHANGED result
  BY DEF ReadAnswered, nas
<1>2. File' = File /\ Active(t)
  BY <1>1 DEF File, Active
<1>3. Running = {} /\ \A u \in Tasks : Active(u) => u = t
  <2>1. \A q \in Execs : q \notin Running
    BY <1>1, <1>2, ExecsAre DEF DInv, IInv, OneAtATime, Ordered, Running
  <2>2. \A u \in Tasks : Active(u) => u = t
    BY <1>2 DEF DInv, IInv, OneAtATime
  <2> QED
    BY <2>1, <2>2 DEF Running
<1>4. CASE Return(t, "unchanged") /\ UNCHANGED <<payload, step>>
  <2>1. /\ pc' = [pc EXCEPT ![t] = "done"]
        /\ result' = [result EXCEPT ![t] = "unchanged"]
    BY <1>4 DEF Return, Goto
  <2>2. Running' = {} /\ \A u \in Tasks : ~ Active(u)'
    BY <1>3, <1>4, <2>1 DEF Running, Active, DInv, TypeOK
  <2>3. \A u \in Tasks : ~ Pending(u)' /\ (pc'[u] = "read" => pc[u] = "read")
    BY <2>1, <2>2 DEF Pending, Active, DInv, TypeOK
  <2>4. \A u \in Tasks : pc'[u] # "done" => result'[u] = "none"
    BY <2>1 DEF DInv, Based, TypeOK
  <2> QED
    BY <1>1, <1>4, <2>2, <2>3, <2>4 DEF DInv, Based, Sent
<1>5. CASE /\ ~ NothingToDo(t, entries)
           /\ payload' = [payload EXCEPT ![t] = NewEntries(t, entries)]
           /\ step'    = [step EXCEPT ![<<t, 1>>] = "sent"]
           /\ Goto(t, "write")
           /\ UNCHANGED result
  <2>1. pc'[t] = "write"
    BY <1>5 DEF Goto, DInv, TypeOK
  <2>2. ~ NothingToDo(t, Split(File)) /\ payload'[t] = NewEntries(t, Split(File))
    BY <2>1, ReadMakes
  <2>3. /\ \A u \in Tasks \ {t} : /\ payload'[u] = payload[u] /\ pc'[u] = pc[u]
                                  /\ step'[<<u, 1>>] = step[<<u, 1>>]
        /\ \A u \in Tasks : step'[<<u, 2>>] = step[<<u, 2>>]
        /\ step'[<<t, 1>>] = "sent" /\ pc'[t] = "write" /\ result' = result
    <3>1. \A u \in Tasks : <<u, 2>> # <<t, 1>> /\ (u # t => <<u, 1>> # <<t, 1>>)
      OBVIOUS
    <3> QED
      BY <1>5, <3>1 DEF Goto, DInv, TypeOK
  <2>4. Makes(t)'
    BY <1>1, <1>2, <2>2 DEF Makes, NewEntries, NothingToDo
  <2>5. op[t].key \in Range(payload'[t]) <=> op[t].tool = "add"
    <3>1. File \in Seq(Lines)
      BY DEF File, DInv, TypeOK
    <3>2. op[t].key \in Entries /\ op[t].tool \in {"add", "remove"}
      BY DEF DInv, TypeOK, Entries
    <3>3. LET new == NewEntries(t, Split(File)) IN
          \/ /\ op[t].tool = "add"
             /\ Range(new) = (Range(File) \cap Entries) \cup {op[t].key}
          \/ /\ op[t].tool = "remove"
             /\ Range(new) = (Range(File) \cap Entries) \ {op[t].key}
      BY <2>2, <3>1, NewEntriesLines DEF DInv
    <3> QED
      BY <2>2, <3>2, <3>3
  <2>6. \A u \in Tasks \ {t} : ~ Active(u)' /\ ~ Pending(u)'
    <3>1. \A u \in Tasks \ {t}, k \in {1, 2} : <<u, k>> \notin Running'
      BY <1>3, <2>3 DEF Running
    <3> QED
      BY <1>3, <2>3, <3>1 DEF Active, Pending
  <2>7. step[<<t, 2>>] = "none"
    BY <1>1 DEF DInv, IInv, Ordered
  <2>8. \A u \in Tasks : Sent(u)' => (op'[u].key \in Range(payload'[u]) <=> op'[u].tool = "add")
    BY <1>1, <2>3, <2>5 DEF DInv, Based, Sent
  <2>9. \A u \in Tasks : Pending(u)' => Makes(u)'
    BY <2>4, <2>6
  <2>10. \A u \in Tasks, k \in {1, 2} : ~ (Active(u)' /\ step'[<<u, k>>] = "ok")
    BY <2>3, <2>6, <2>7
  <2>11. /\ \A u \in Tasks : pc'[u] = "read" => pc[u] = "read"
         /\ \A u \in Tasks : pc'[u] # "done" => result'[u] = "none"
    BY <1>1, <2>3 DEF DInv, Based
  <2> QED
    BY <1>1, <2>8, <2>9, <2>10, <2>11 DEF DInv, Based
<1> QED
  BY <1>1, <1>4, <1>5

\* The retry sends the payload of the first execution.
LEMMA RetryBased ==
  ASSUME DInv, NEW t \in Tasks, Retry(t)
  PROVE  Based'
<1> USE ExecsOf
<1>1. /\ UNCHANGED <<data, ak, readable, op, pc, payload, result>>
      /\ pc[t] = "write"
      /\ step' = [step EXCEPT ![<<t, 2>>] = "sent"]
  BY DEF Retry, nas
<1>2. File' = File /\ \A u \in Tasks : Makes(u)' <=> Makes(u)
  BY <1>1 DEF File, Makes, NewEntries, NothingToDo
<1>3. /\ \A u \in Tasks : step'[<<u, 1>>] = step[<<u, 1>>]
      /\ \A u \in Tasks \ {t} : step'[<<u, 2>>] = step[<<u, 2>>]
      /\ step'[<<t, 2>>] = "sent"
  <2>1. \A u \in Tasks : <<u, 1>> # <<t, 2>> /\ (u # t => <<u, 2>> # <<t, 2>>)
    OBVIOUS
  <2> QED
    BY <1>1, <2>1 DEF DInv, TypeOK
<1>4. \A u \in Tasks : Pending(u)' => Pending(u)
  BY <1>1, <1>3 DEF Pending, Running
<1> QED
  BY <1>1, <1>2, <1>3, <1>4 DEF DInv, Based, Sent, Active

\* An execution that is not at its end changes nothing that counts.
LEMMA ExecBased ==
  ASSUME DInv, NEW p \in Execs, OpenTmp(p) \/ FillTmp(p) \/ CommandStops(p)
  PROVE  Based'
<1> USE ExecsOf
<1>1. /\ UNCHANGED <<readable, op, pc, payload, result>>
      /\ step[p] \in {"sent", "opened", "filled"}
      /\ step'[p] \in {"opened", "filled", "failed"}
      /\ \A q \in Execs \ {p} : step'[q] = step[q]
  BY DEF OpenTmp, FillTmp, CommandStops, nas, DInv, TypeOK
<1>2. File' = File
  BY DEF OpenTmp, FillTmp, CommandStops, nas, File, DInv, IInv, Typed, Apart
<1>3. \A u \in Tasks : Makes(u)' <=> Makes(u)
  BY <1>1, <1>2 DEF Makes, NewEntries, NothingToDo
<1>4. \A q \in Execs : /\ q \in Running' => q \in Running
                       /\ step'[q] = "ok" => step[q] = "ok"
                       /\ step'[q] # "none" => step[q] # "none"
  BY <1>1 DEF Running
<1>5. \A u \in Tasks : Pending(u)' => Pending(u)
  BY <1>1, <1>4 DEF Pending
<1> QED
  BY <1>1, <1>2, <1>3, <1>4, <1>5 DEF DInv, Based, Sent, Active

\* After the rename the file is the payload of the only call there is.
LEMMA MoveBased ==
  ASSUME DInv, NEW p \in Execs, MoveTmp(p)
  PROVE  Based'
<1> USE ExecsOf
<1>1. /\ UNCHANGED <<op, pc, payload, result>> /\ readable' = TRUE
      /\ p \in Running /\ step'[p] = "ok"
      /\ \A q \in Execs \ {p} : step'[q] = step[q]
  BY DEF MoveTmp, Running, DInv, TypeOK
<1>2. File' = payload[p[1]]
  BY DEF MoveTmp, Running, DInv, IInv, Apart, Whole, File
<1>3. Running' = {}
  <2>1. \A q \in Execs : q \in Running => q = p
    BY <1>1 DEF DInv, IInv, OneAtATime
  <2> QED
    BY <1>1, <2>1 DEF Running
<1>4. \A u \in Tasks : Active(u) => u = p[1]
  BY <1>1 DEF DInv, IInv, OneAtATime
<1>5. \A u \in Tasks : Pending(u)' => Active(u)
  BY <1>1, <1>3 DEF Pending, Active
<1>6. \A u \in Tasks : Sent(u)' => Sent(u)
  BY <1>1 DEF Sent, Running
<1> QED
  BY <1>1, <1>2, <1>4, <1>5, <1>6 DEF DInv, Based, Active

\* DInv holds at the start.
LEMMA InitDInv == Init => DInv
<1> SUFFICES ASSUME Init PROVE DInv
  OBVIOUS
<1>1. TypeOK
  BY InitTyped
<1>2. Based
  BY ExecsOf DEF Init, Based, Pending, Sent, Active, Running
<1> QED
  BY <1>1, <1>2, InitIInv DEF DInv

\* Every step keeps DInv, by the lemmas above.
LEMMA NextDInv ==
  ASSUME ~Overlap, DInv, [Next]_vars
  PROVE  DInv'
<1>1. IInv'
  BY NextIInv DEF DInv
<1>2. TypeOK'
  BY NextTyped DEF DInv
<1>3. Based'
  <2>1. CASE UNCHANGED vars
    BY <2>1 DEF vars, nas, execs, DInv, Based, Makes, Pending, Sent, Active, Running, File,
                NewEntries, NothingToDo
  <2>2. ASSUME NEW t \in Tasks, Quiet(t) \/ ReadAnswered(t) \/ Retry(t) \/ Cleanup(t)
        PROVE  Based'
    BY <2>2, QuietBased, ReadBased, RetryBased
  <2>3. ASSUME NEW p \in Execs, OpenTmp(p) \/ FillTmp(p) \/ MoveTmp(p) \/ CommandStops(p)
        PROVE  Based'
    BY <2>3, ExecBased, MoveBased
  <2> QED
    BY <2>1, <2>2, <2>3 DEF Next, Quiet
<1> QED
  BY <1>1, <1>2, <1>3 DEF DInv

\* So DInv always holds, when nothing overlaps.
LEMMA AlwaysDInv == ASSUME ~Overlap PROVE Spec => []DInv
<1>1. Init => DInv
  BY InitDInv
<1>2. DInv /\ [Next]_vars => DInv'
  BY NextDInv
<1> QED
  BY <1>1, <1>2, PTL DEF Spec

-------------------------------------------------------------------------------
(* What a call does to the file                                            *)

\* The calls that overlap with no other lose no line but those a remove names, and
\* comments: through unreadable files, lost answers and repeated writes.
THEOREM NothingLost == ASSUME ~Overlap PROVE Spec => LinesKept
<1>1. ASSUME DInv, [Next]_vars, NEW l \in Lines \ Comments, In(l, File), ~ In(l, File')
      PROVE  \E t \in Tasks : pc[t] # "new" /\ op[t] = [tool |-> "remove", key |-> l]
  <2>1. PICK t \in Tasks : Sent(t) /\ File' = payload[t] /\ Makes(t)
    BY <1>1, FileSteps
  <2>2. File \in Seq(Lines) /\ l \in Range(File) \cap Entries /\ l \notin Range(File')
    BY <1>1 DEF File, In, Lines, Entries, DInv, TypeOK
  <2>3. File' = NewEntries(t, Split(File)) /\ ~ NothingToDo(t, Split(File))
    BY <2>1 DEF Makes
  <2>4. op[t].tool = "remove" /\ l = op[t].key
    BY <1>1, <2>2, <2>3, NewEntriesLines DEF DInv
  <2>5. op[t] = [tool |-> "remove", key |-> l]
    BY <1>1, <2>4 DEF DInv, TypeOK
  <2>6. pc[t] # "new"
    BY <1>1, <2>1 DEF Sent, DInv, IInv, Ordered
  <2> QED
    BY <2>5, <2>6
<1>2. DInv /\ [Next]_vars =>
        [\A l \in Lines \ Comments : In(l, File) /\ ~In(l, File') =>
           \E t \in Tasks : pc[t] # "new" /\ op[t] = [tool |-> "remove", key |-> l]]_vars
  BY <1>1
<1> QED
  BY <1>2, AlwaysDInv, PTL DEF Spec, LinesKept

\* What an add makes of the file keeps the lines, in their order, and adds one.
LEMMA AddKeepsOrder ==
  ASSUME NEW s \in Seq(Lines), NEW k \in Keys, k \notin Range(s)
  PROVE  LET new == Append(Split(s), k) IN
         Keep(Split(new), Range(s)) = Keep(Split(s), Range(new))
<1> DEFINE u == Split(s)
           new == Append(u, k)
<1>1. k \in Lines /\ k \in Entries
  BY DEF Lines, Entries
<1>2. u \in Seq(Lines) /\ Range(u) = Range(s) \cap Entries
  BY SplitTyped
<1> HIDE DEF u
<1>3. new \in Seq(Lines) /\ Range(new) = Range(u) \cup {k}
  BY <1>1, <1>2, RangeAppend
<1>4. Split(new) = new
  <2>1. Range(new) \subseteq Entries
    BY <1>1, <1>2, <1>3
  <2> QED
    BY <1>3, <2>1, KeepAll DEF Split, Entries
<1>5. Keep(new, Range(s)) = Keep(u, Range(s))
  BY <1>1, <1>2, KeepAppend
<1>6. Keep(u, Range(s)) = u
  BY <1>2, KeepAll
<1>7. Keep(u, Range(new)) = u
  BY <1>2, <1>3, KeepAll
<1> QED
  BY <1>4, <1>5, <1>6, <1>7 DEF u

\* What a remove makes of the file keeps the other lines, in their order.
LEMMA RemoveKeepsOrder ==
  ASSUME NEW s \in Seq(Lines), NEW k \in Keys
  PROVE  LET new == Keep(Split(s), Lines \ {k}) IN
         Keep(Split(new), Range(s)) = Keep(Split(s), Range(new))
<1> DEFINE u == Split(s)
           new == Keep(u, Lines \ {k})
<1>1. u \in Seq(Lines) /\ Range(u) = Range(s) \cap Entries
  BY SplitTyped
<1> HIDE DEF u
<1>2. new \in Seq(Lines) /\ Range(new) = Range(u) \cap (Lines \ {k})
  BY <1>1, KeepLines
<1>3. Split(new) = new
  <2>1. Range(new) \subseteq Entries
    BY <1>1, <1>2
  <2> QED
    BY <1>2, <2>1, KeepAll DEF Split, Entries
<1>4. Keep(new, Range(s)) = new
  <2>1. Range(new) \subseteq Range(s)
    BY <1>1, <1>2
  <2> QED
    BY <1>2, <2>1, KeepAll
<1>5. Keep(u, Range(new)) = new
  <2>1. Range(u) \cap Range(new) = Range(u) \cap (Lines \ {k})
    BY <1>2
  <2> QED
    BY <1>1, <2>1, KeepAgree
<1> QED
  BY <1>3, <1>4, <1>5 DEF u

\* The lines that stay are in the order, and in the number of copies, they were in.
THEOREM SameOrder == ASSUME ~Overlap PROVE Spec => OrderKept
<1>1. ASSUME DInv, [Next]_vars
      PROVE  Keep(Split(File'), Range(File)) = Keep(Split(File), Range(File'))
  <2>1. CASE File' = File
    BY <2>1
  <2>2. CASE \E t \in Tasks : Sent(t) /\ File' = payload[t] /\ Makes(t)
    <3>1. PICK t \in Tasks : File' = NewEntries(t, Split(File)) /\ ~ NothingToDo(t, Split(File))
      BY <2>2 DEF Makes
    <3>2. File \in Seq(Lines) /\ op[t].key \in Keys
      BY <1>1 DEF File, DInv, TypeOK
    <3>3. \/ op[t].key \notin Range(File) /\ File' = Append(Split(File), op[t].key)
          \/ File' = Keep(Split(File), Lines \ {op[t].key})
      BY <1>1, <3>1, <3>2, NewEntriesLines DEF DInv
    <3> QED
      BY <3>2, <3>3, AddKeepsOrder, RemoveKeepsOrder
  <2> QED
    BY <1>1, <2>1, <2>2, FileSteps
<1>2. DInv /\ [Next]_vars =>
        [Keep(Split(File'), Range(File)) = Keep(Split(File), Range(File'))]_vars
  BY <1>1 DEF Split, Keep
<1> QED
  BY <1>2, AlwaysDInv, PTL DEF Spec, OrderKept

\* A tool that reports success is right about the file it leaves.
THEOREM SuccessTrue == ASSUME ~Overlap PROVE Spec => SuccessIsTrue
<1>1. ASSUME DInv, [Next]_vars, NEW t \in Tasks, pc[t] \in {"read", "write"},
             result'[t] \in {"ok", "unchanged"}, readable
      PROVE  In(op[t].key, File') <=> op[t].tool = "add"
  <2>1. result[t] = "none" /\ File \in Seq(Lines) /\ op[t].key \in Entries
    BY <1>1 DEF DInv, Based, TypeOK, File, Entries
  <2>2. CASE ReadAnswered(t)
    <3>1. File' = File /\ NothingToDo(t, Split(File))
      BY <1>1, <2>1, <2>2 DEF ReadAnswered, nas, File
    <3> QED
      BY <2>1, <3>1, SplitTyped DEF NothingToDo, In
  <2>3. CASE WriteAnswered(t)
    <3>1. File' = File /\ step[Awaited(t)] = "ok" /\ Active(t) /\ pc[t] = "write"
      BY <2>3 DEF WriteAnswered, nas, File, Active
    <3>2. File = payload[t] /\ Sent(t)
      BY <1>1, <3>1 DEF DInv, Based, Awaited, IInv, Ordered, Sent
    <3> QED
      BY <1>1, <3>1, <3>2 DEF DInv, Based, In
  <2>4. result'[t] = result[t] \/ ReadAnswered(t) \/ WriteAnswered(t) \/ result'[t] \in {"refused", "error"}
    <3>1. CASE UNCHANGED vars
      BY <3>1 DEF vars
    <3>2. ASSUME NEW u \in Tasks, u # t, Quiet(u) \/ ReadAnswered(u) \/ Retry(u) \/ Cleanup(u)
          PROVE  result'[t] = result[t]
      BY <1>1, <3>2 DEF Quiet, Begin, Refuse, EnsureSshDir, CommandFails, WriteAnswered,
           WriteRefused, WriteUnanswered, ReadAnswered, Retry, Cleanup, Return, DInv, TypeOK
    <3>3. CASE Quiet(t) \/ Retry(t) \/ Cleanup(t)
      BY <1>1, <3>3 DEF Quiet, Begin, Refuse, EnsureSshDir, CommandFails,
           WriteRefused, WriteUnanswered, Retry, Cleanup, Return, DInv, TypeOK
    <3>4. ASSUME NEW p \in Execs, OpenTmp(p) \/ FillTmp(p) \/ MoveTmp(p) \/ CommandStops(p)
          PROVE  result' = result
      BY <3>4 DEF OpenTmp, FillTmp, MoveTmp, CommandStops
    <3> QED
      BY <1>1, <3>1, <3>2, <3>3, <3>4 DEF Next, Quiet
  <2> QED
    BY <1>1, <2>1, <2>2, <2>3, <2>4
<1>2. DInv /\ [Next]_vars =>
        [\A t \in Tasks :
           pc[t] \in {"read", "write"} /\ result'[t] \in {"ok", "unchanged"} /\ readable =>
             (In(op[t].key, File') <=> op[t].tool = "add")]_vars
  BY <1>1
<1> QED
  BY <1>2, AlwaysDInv, PTL DEF Spec, SuccessIsTrue

-------------------------------------------------------------------------------
(* One change per call                                                     *)

\* A call whose command may still change the file has either done so already, and
\* the file is what it wrote, or the file is still what it decided on; a call says
\* "ok" after that, and one that says there is nothing to do has sent nothing.
Once ==
    /\ \A t \in Tasks : Applied(t) => readable
    /\ \A t \in Tasks : Pending(t) => IF Applied(t) THEN File = payload[t] ELSE Makes(t)
    /\ \A t \in Tasks : result[t] = "ok" => Applied(t)
    /\ \A t \in Tasks : result[t] \in {"unchanged", "refused"} => ~ Sent(t)

OInv == DInv /\ Once

\* A step that ends no execution well and decides nothing.
LEMMA StillOnce ==
  ASSUME OInv, UNCHANGED <<op, payload, readable>>, File' = File,
         \A q \in Execs : step'[q] = "ok" <=> step[q] = "ok",
         \A q \in Execs : step'[q] # "none" => step[q] # "none",
         \A q \in Execs : q \in Running' => q \in Running,
         \A u \in Tasks : pc'[u] \in {"write", "rm"} => pc[u] \in {"write", "rm"},
         \A u \in Tasks : \/ result'[u] = result[u]
                          \/ result'[u] = "error"
                          \/ result'[u] = "ok" /\ Applied(u)
                          \/ result'[u] \in {"unchanged", "refused"} /\ ~ Sent(u)
  PROVE  Once'
<1> USE ExecsOf
<1>1. \A u \in Tasks : Applied(u)' <=> Applied(u)
  BY DEF Applied
<1>2. \A u \in Tasks : Pending(u)' => Pending(u)
  BY DEF Pending
<1>3. \A u \in Tasks : Makes(u)' <=> Makes(u)
  BY DEF Makes, NewEntries, NothingToDo
<1>4. \A u \in Tasks : Sent(u)' => Sent(u)
  BY DEF Sent
<1> QED
  BY <1>1, <1>2, <1>3, <1>4 DEF OInv, Once

\* The steps of a tool that send nothing.
LEMMA QuietOnce ==
  ASSUME OInv, NEW t \in Tasks, Quiet(t) \/ Cleanup(t)
  PROVE  Once'
<1>1. /\ UNCHANGED <<op, payload, readable, step, data, ak>>
      /\ \A u \in Tasks \ {t} : pc'[u] = pc[u] /\ result'[u] = result[u]
      /\ pc'[t] \in {"write", "rm"} => pc[t] \in {"write", "rm"}
  BY DEF OInv, DInv, TypeOK, Quiet, Begin, Refuse, EnsureSshDir, CommandFails, WriteAnswered,
         WriteRefused, WriteUnanswered, Cleanup, Goto, Return, nas, execs
<1>2. \/ result'[t] = result[t]
      \/ result'[t] = "error"
      \/ result'[t] = "ok" /\ Applied(t)
      \/ result'[t] = "refused" /\ ~ Sent(t)
  <2>1. CASE WriteAnswered(t)
    <3>1. result'[t] = "ok" /\ step[Awaited(t)] = "ok"
      BY <2>1 DEF WriteAnswered, Return, OInv, DInv, TypeOK
    <3> QED
      BY <3>1 DEF Awaited, Applied
  <2>2. CASE Refuse(t)
    <3>1. result'[t] \in {"refused", "error"} /\ pc[t] = "new"
      BY <2>2 DEF Refuse, Return, OInv, DInv, TypeOK
    <3> QED
      BY <3>1 DEF Sent, OInv, DInv, IInv, Ordered
  <2>3. CASE ~ WriteAnswered(t) /\ ~ Refuse(t)
    BY <2>3 DEF OInv, DInv, TypeOK, Quiet, Begin, EnsureSshDir, CommandFails,
                WriteRefused, WriteUnanswered, Cleanup, Goto, Return
  <2> QED
    BY <2>1, <2>2, <2>3
<1>3. Running' = Running /\ File' = File
  BY <1>1 DEF Running, File
<1> QED
  BY <1>1, <1>2, <1>3, StillOnce

\* The decision: nothing of the call has been sent.
LEMMA ReadOnce ==
  ASSUME OInv, DInv', NEW t \in Tasks, ReadAnswered(t)
  PROVE  Once'
<1> USE ExecsOf
<1>1. /\ UNCHANGED <<data, ak, readable, op>> /\ pc[t] = "read"
      /\ \/ /\ pc' = [pc EXCEPT ![t] = "done"] /\ result' = [result EXCEPT ![t] = "unchanged"]
            /\ UNCHANGED <<payload, step>>
         \/ /\ pc' = [pc EXCEPT ![t] = "write"] /\ result' = result
            /\ step' = [step EXCEPT ![<<t, 1>>] = "sent"]
  BY DEF ReadAnswered, Return, Goto, nas
<1>2. step[<<t, 1>>] = "none" /\ step[<<t, 2>>] = "none"
  BY <1>1 DEF OInv, DInv, IInv, Ordered
<1>3. File' = File
  BY <1>1 DEF File
<1>4. CASE /\ pc' = [pc EXCEPT ![t] = "done"] /\ result' = [result EXCEPT ![t] = "unchanged"]
           /\ UNCHANGED <<payload, step>>
  <2>1. ~ Sent(t)
    BY <1>2 DEF Sent
  <2>2. \A u \in Tasks : /\ pc'[u] \in {"write", "rm"} => pc[u] \in {"write", "rm"}
                         /\ result'[u] = result[u] \/ (u = t /\ result'[u] = "unchanged")
    BY <1>4 DEF OInv, DInv, TypeOK
  <2>3. Running' = Running
    BY <1>4 DEF Running
  <2> QED
    BY <1>1, <1>3, <1>4, <2>1, <2>2, <2>3, StillOnce
<1>5. CASE /\ pc' = [pc EXCEPT ![t] = "write"] /\ result' = result
           /\ step' = [step EXCEPT ![<<t, 1>>] = "sent"]
  <2>1. \A u \in Tasks : Applied(u)' <=> Applied(u)
    <3>1. \A q \in Execs : step'[q] = "ok" <=> step[q] = "ok"
      BY <1>2, <1>5 DEF OInv, DInv, TypeOK
    <3> QED
      BY <3>1 DEF Applied
  <2>2. ~ Applied(t)'
    BY <1>2, <2>1 DEF Applied
  <2>3. pc'[t] = "write" /\ Active(t)'
    BY <1>5 DEF Active, OInv, DInv, TypeOK
  <2>4. \A u \in Tasks \ {t} : ~ Pending(u)'
    <3>1. <<t, 1>> \in Running'
      BY <1>5 DEF Running, OInv, DInv, TypeOK
    <3>2. \A q \in Execs : q \in Running' => q = <<t, 1>>
      BY <3>1 DEF DInv, IInv, OneAtATime
    <3>3. \A u \in Tasks \ {t} : ~ Active(u)'
      BY <2>3 DEF DInv, IInv, OneAtATime
    <3> QED
      BY <3>2, <3>3 DEF Pending, Active
  <2>5. Makes(t)'
    <3>1. readable /\ payload'[t] = NewEntries(t, Split(File)) /\ ~ NothingToDo(t, Split(File))
      BY <2>3, ReadMakes DEF OInv
    <3> QED
      BY <1>1, <1>3, <3>1 DEF Makes, NewEntries, NothingToDo
  <2>6. result[t] = "none"
    BY <1>1 DEF OInv, DInv, Based
  <2>7. \A u \in Tasks \ {t} : Sent(u)' => Sent(u)
    BY <1>5 DEF Sent, OInv, DInv, TypeOK
  <2> QED
    BY <1>1, <1>5, <2>1, <2>2, <2>4, <2>5, <2>6, <2>7 DEF OInv, Once
<1> QED
  BY <1>1, <1>4, <1>5

\* The retry sends what the first execution was sent with.
LEMMA RetryOnce ==
  ASSUME OInv, NEW t \in Tasks, Retry(t)
  PROVE  Once'
<1> USE ExecsOf
<1>1. /\ UNCHANGED <<data, ak, readable, op, pc, payload, result>>
      /\ pc[t] = "write" /\ step[<<t, 2>>] = "none"
      /\ step' = [step EXCEPT ![<<t, 2>>] = "sent"]
  BY DEF Retry, nas
<1>2. File' = File /\ \A u \in Tasks : Makes(u)' <=> Makes(u)
  BY <1>1 DEF File, Makes, NewEntries, NothingToDo
<1>3. \A u \in Tasks : Applied(u)' <=> Applied(u)
  BY <1>1 DEF Applied, OInv, DInv, TypeOK
<1>4. \A u \in Tasks : (Pending(u)' => Pending(u)) /\ (Sent(u)' => Sent(u))
  <2>1. \A u \in Tasks : <<u, 1>> # <<t, 2>> /\ (u # t => <<u, 2>> # <<t, 2>>)
    OBVIOUS
  <2> QED
    BY <1>1, <2>1 DEF Pending, Running, Sent, OInv, DInv, TypeOK
<1> QED
  BY <1>1, <1>2, <1>3, <1>4 DEF OInv, Once

\* The steps of an execution up to the rename.
LEMMA ExecOnce ==
  ASSUME OInv, NEW p \in Execs, OpenTmp(p) \/ FillTmp(p) \/ CommandStops(p)
  PROVE  Once'
<1>1. /\ UNCHANGED <<readable, op, pc, payload, result>>
      /\ step[p] \in {"sent", "opened", "filled"}
      /\ step'[p] \in {"opened", "filled", "failed"}
      /\ \A q \in Execs \ {p} : step'[q] = step[q]
  BY DEF OpenTmp, FillTmp, CommandStops, nas, OInv, DInv, TypeOK
<1>2. File' = File
  BY ExecsOf DEF OpenTmp, FillTmp, CommandStops, nas, File, OInv, DInv, IInv, Typed, Apart
<1>3. \A q \in Execs : q \in Running' => q \in Running
  BY <1>1 DEF Running
<1> QED
  BY <1>1, <1>2, <1>3, StillOnce

\* The rename: nothing else is pending then.
LEMMA MoveOnce ==
  ASSUME OInv, NEW p \in Execs, MoveTmp(p)
  PROVE  Once'
<1> USE ExecsOf
<1>1. /\ UNCHANGED <<op, pc, payload, result>> /\ readable' = TRUE
      /\ p \in Running /\ step'[p] = "ok"
      /\ \A q \in Execs \ {p} : step'[q] = step[q]
  BY DEF MoveTmp, Running, OInv, DInv, TypeOK
<1>2. File' = payload[p[1]]
  BY DEF MoveTmp, Running, OInv, DInv, IInv, Apart, Whole, File
<1>3. Running' = {}
  <2>1. \A q \in Execs : q \in Running => q = p
    BY <1>1 DEF OInv, DInv, IInv, OneAtATime
  <2> QED
    BY <1>1, <2>1 DEF Running
<1>4. \A u \in Tasks : Pending(u)' => u = p[1]
  <2>1. \A u \in Tasks : Active(u) => u = p[1]
    BY <1>1 DEF OInv, DInv, IInv, OneAtATime
  <2> QED
    BY <1>1, <1>3, <2>1 DEF Pending, Active
<1>5. p[1] \in Tasks /\ Applied(p[1])'
  BY <1>1, ExecsAre DEF Applied
<1>6. \A u \in Tasks : (Applied(u) => Applied(u)') /\ (Sent(u)' => Sent(u))
  BY <1>1 DEF Applied, Sent, Running
<1> QED
  BY <1>1, <1>2, <1>4, <1>5, <1>6 DEF OInv, Once

\* OInv is inductive, when nothing overlaps.
LEMMA AlwaysOInv == ASSUME ~Overlap PROVE Spec => []OInv
<1>1. Init => OInv
  <2> SUFFICES ASSUME Init PROVE OInv
    OBVIOUS
  <2>1. Once
    BY ExecsOf DEF Init, Once, Applied, Pending, Running
  <2> QED
    BY <2>1, InitDInv DEF OInv
<1>2. OInv /\ [Next]_vars => OInv'
  <2> SUFFICES ASSUME OInv, [Next]_vars PROVE OInv'
    OBVIOUS
  <2>1. DInv'
    BY NextDInv DEF OInv
  <2>2. CASE UNCHANGED vars
    BY <2>1, <2>2 DEF vars, nas, execs, OInv, Once, Applied, Makes, Pending, Sent, Running,
                      File, NewEntries, NothingToDo
  <2>3. ASSUME NEW t \in Tasks, Quiet(t) \/ ReadAnswered(t) \/ Retry(t) \/ Cleanup(t)
        PROVE  Once'
    BY <2>1, <2>3, QuietOnce, ReadOnce, RetryOnce
  <2>4. ASSUME NEW p \in Execs, OpenTmp(p) \/ FillTmp(p) \/ MoveTmp(p) \/ CommandStops(p)
        PROVE  Once'
    BY <2>4, ExecOnce, MoveOnce
  <2> QED
    BY <2>1, <2>2, <2>3, <2>4 DEF Next, Quiet, OInv
<1> QED
  BY <1>1, <1>2, PTL DEF Spec

-------------------------------------------------------------------------------
(* The abstract specification                                              *)

\* Both modules mean the same by Keep.
LEMMA SameKeep ==
  /\ \A s, K : Abstract!Keep(s, K) = Keep(s, K)
  /\ \A l, s : Abstract!In(l, s) <=> In(l, s)
  /\ Abstract!Entries = Entries
<1>1. \A s, K : Abstract!Keep(s, K) = Keep(s, K)
  BY DEF Abstract!Keep, Keep
<1>2. \A l, s : Abstract!In(l, s) <=> In(l, s)
  BY DEF Abstract!In, In, Abstract!Range, Range
<1> QED
  BY <1>1, <1>2 DEF Abstract!Entries, Entries

\* To drop some lines and then others is to drop both.
LEMMA KeepTwice ==
  ASSUME NEW L, NEW s \in Seq(L), NEW J, NEW K
  PROVE  Keep(Keep(s, J), K) = Keep(s, J \cap K)
<1> DEFINE T == {u \in Seq(L) : Keep(Keep(u, J), K) = Keep(u, J \cap K)}
<1>1. <<>> \in T
  BY KeepEmpty, EmptySeq
<1>2. ASSUME NEW u \in Seq(L), NEW x \in L, u \in T
      PROVE  Append(u, x) \in T
  <2>1. Keep(u, J) \in Seq(L)
    BY KeepLines
  <2>2. Keep(Append(u, x), J) = IF x \in J THEN Append(Keep(u, J), x) ELSE Keep(u, J)
    BY KeepAppend
  <2>3. Keep(Append(u, x), J \cap K) =
          IF x \in J \cap K THEN Append(Keep(u, J \cap K), x) ELSE Keep(u, J \cap K)
    BY KeepAppend
  <2>4. Keep(Append(Keep(u, J), x), K) =
          IF x \in K THEN Append(Keep(Keep(u, J), K), x) ELSE Keep(Keep(u, J), K)
    BY <2>1, KeepAppend
  <2>5. Keep(Keep(u, J), K) = Keep(u, J \cap K)
    BY <1>2
  <2>6. Keep(Keep(Append(u, x), J), K) = Keep(Append(u, x), J \cap K)
    <3>1. CASE x \in J
      <4>1. Keep(Append(u, x), J) = Append(Keep(u, J), x)
        BY <2>2, <3>1
      <4>2. x \in J \cap K <=> x \in K
        BY <3>1
      <4> QED
        BY <2>3, <2>4, <2>5, <4>1, <4>2, Zenon
    <3>2. CASE x \notin J
      BY <2>2, <2>3, <2>5, <3>2
    <3> QED
      BY <3>1, <3>2
  <2> QED
    BY <2>6
<1> HIDE DEF T
<1>3. Seq(L) \subseteq T
  BY <1>1, <1>2, SeqInductionSet
<1> QED
  BY <1>3 DEF T

\* Dropping comments leaves AsAsked as it is.
LEMMA AskedIs ==
  ASSUME TypeOK, NEW t \in Tasks
  PROVE  Abstract!AsAsked(t) <=> NothingToDo(t, Split(File))
<1>1. File \in Seq(Lines) /\ op[t].key \in Entries
  BY DEF TypeOK, File, Entries
<1>2. op[t].key \in Range(Split(File)) <=> op[t].key \in Range(File)
  BY <1>1, SplitTyped
<1> QED
  BY <1>2, SameKeep DEF Abstract!AsAsked, NothingToDo, In

\* The step of a tool that returns is an Answer.
LEMMA ReturnAnswers ==
  ASSUME TypeOK, NEW t \in Tasks, NEW how \in {"ok", "unchanged", "refused", "error"},
         result[t] = "none", result' = [result EXCEPT ![t] = how],
         UNCHANGED <<data, ak, readable, op, step>>,
         how = "ok" => Applied(t) /\ NothingToDo(t, Split(File)),
         how \in {"unchanged", "refused"} => ~ Applied(t),
         how = "unchanged" /\ readable => NothingToDo(t, Split(File))
  PROVE  Abstract!Next
<1>1. File' = File /\ {u \in Tasks : Applied(u)}' = {u \in Tasks : Applied(u)}
  BY DEF File, Applied
<1>2. Abstract!Answer(t, how)
  BY <1>1, AskedIs DEF Abstract!Answer
<1> QED
  BY <1>2 DEF Abstract!Next

\* A task has sent nothing before it has decided, and nothing of it has ended well.
LEMMA UnsentUnapplied ==
  ASSUME OInv, NEW t \in Tasks, ~ Sent(t)
  PROVE  ~ Applied(t)
  BY DEF Sent, Applied, OInv, DInv, IInv, Ordered

\* Every step of a tool that does not return is none of KeyFile; those that return
\* are answers.
LEMMA ToolImplements ==
  ASSUME OInv, NEW t \in Tasks, Quiet(t) \/ ReadAnswered(t) \/ Retry(t) \/ Cleanup(t)
  PROVE  [Abstract!Next]_(Abstract!vars)
<1> USE ExecsOf
<1>1. pc[t] # "done" /\ result[t] = "none"
  BY DEF Quiet, Begin, Refuse, EnsureSshDir, CommandFails, WriteAnswered, WriteRefused,
         WriteUnanswered, ReadAnswered, Retry, Cleanup, OInv, DInv, Based
<1>2. CASE Begin(t) \/ EnsureSshDir(t) \/ WriteRefused(t)
  <2>1. UNCHANGED <<data, ak, readable, op, step, result>>
    BY <1>2 DEF Begin, EnsureSshDir, WriteRefused, nas, execs
  <2> QED
    BY <2>1 DEF Abstract!vars, File, Applied
<1>3. CASE Refuse(t)
  <2>1. PICK how \in {"refused", "error"} : Return(t, how)
    BY <1>3 DEF Refuse
  <2>2. pc[t] = "new" /\ UNCHANGED <<data, ak, readable, op, step>>
    BY <1>3 DEF Refuse, nas, execs
  <2>3. ~ Applied(t)
    BY <2>2, UnsentUnapplied DEF Sent, OInv, DInv, IInv, Ordered
  <2>4. Abstract!Next
    BY <1>1, <2>1, <2>2, <2>3, ReturnAnswers DEF Return, OInv, DInv
  <2> QED
    BY <2>4
<1>4. CASE CommandFails(t) \/ WriteUnanswered(t) \/ Cleanup(t)
  <2>1. Return(t, "error") /\ UNCHANGED <<data, ak, readable, op, step>>
    BY <1>4 DEF CommandFails, WriteUnanswered, Cleanup, nas, execs
  <2>2. Abstract!Next
    BY <1>1, <2>1, ReturnAnswers DEF Return, OInv, DInv
  <2> QED
    BY <2>2
<1>5. CASE WriteAnswered(t)
  <2>1. /\ Return(t, "ok") /\ UNCHANGED <<data, ak, readable, op, step>>
        /\ pc[t] = "write" /\ step[Awaited(t)] = "ok"
    BY <1>5 DEF WriteAnswered, nas, execs
  <2>2. Applied(t) /\ Sent(t) /\ Pending(t)
    BY <2>1 DEF Awaited, Applied, Sent, Pending, OInv, DInv, IInv, Ordered
  <2>3. File = payload[t] /\ (op[t].key \in Range(payload[t]) <=> op[t].tool = "add")
    BY <2>2 DEF OInv, Once, DInv, Based
  <2>4. Abstract!AsAsked(t)
    BY <2>3, SameKeep DEF Abstract!AsAsked, In
  <2>5. Abstract!Next
    BY <1>1, <2>1, <2>2, <2>4, AskedIs, ReturnAnswers DEF Return, OInv, DInv
  <2> QED
    BY <2>5
<1>6. CASE ReadAnswered(t) /\ Return(t, "unchanged") /\ UNCHANGED step
  <2>1. pc[t] = "read" /\ UNCHANGED <<data, ak, readable, op, step>>
    BY <1>6 DEF ReadAnswered, nas
  <2>2. ~ Applied(t)
    BY <2>1, UnsentUnapplied DEF Sent, OInv, DInv, IInv, Ordered
  <2>3. readable => NothingToDo(t, Split(File))
    BY <1>6 DEF ReadAnswered, Goto, Return, OInv, DInv, TypeOK
  <2>4. Abstract!Next
    BY <1>1, <1>6, <2>1, <2>2, <2>3, ReturnAnswers DEF Return, OInv, DInv
  <2> QED
    BY <2>4
<1>7. ASSUME NEW k \in {1, 2}, UNCHANGED <<data, ak, readable, op, result>>,
             step' = [step EXCEPT ![<<t, k>>] = "sent"], step[<<t, k>>] = "none"
      PROVE  UNCHANGED Abstract!vars
  <2>1. <<t, k>> \in Execs
    BY DEF Execs
  <2>2. \A q \in Execs : step'[q] = "ok" <=> step[q] = "ok"
    BY <1>7, <2>1 DEF OInv, DInv, TypeOK
  <2>3. \A u \in Tasks : Applied(u)' <=> Applied(u)
    BY <2>2 DEF Applied
  <2> QED
    BY <1>7, <2>3 DEF Abstract!vars, File
<1>8. CASE ReadAnswered(t) /\ step' = [step EXCEPT ![<<t, 1>>] = "sent"] /\ UNCHANGED result
  <2>1. step[<<t, 1>>] = "none" /\ UNCHANGED <<data, ak, readable, op>>
    BY <1>8 DEF ReadAnswered, nas, OInv, DInv, IInv, Ordered
  <2> QED
    BY <1>7, <1>8, <2>1
<1>9. CASE Retry(t)
  BY <1>7, <1>9 DEF Retry, nas
<1> QED
  BY <1>2, <1>3, <1>4, <1>5, <1>6, <1>8, <1>9 DEF Quiet, ReadAnswered

\* The rename is the one step that changes the file, and not again when the command
\* is executed a second time.
LEMMA MoveImplements ==
  ASSUME OInv, NEW p \in Execs, MoveTmp(p)
  PROVE  [Abstract!Next]_(Abstract!vars)
<1> USE ExecsOf
<1> DEFINE t == p[1]
<1>1. /\ UNCHANGED <<op, payload, result>> /\ readable' = TRUE
      /\ p \in Running /\ step'[p] = "ok"
      /\ \A q \in Execs \ {p} : step'[q] = step[q]
  BY DEF MoveTmp, Running, OInv, DInv, TypeOK
<1>2. File' = payload[t]
  BY DEF MoveTmp, Running, OInv, DInv, IInv, Apart, Whole, File
<1>3. t \in Tasks /\ (p = <<t, 1>> \/ p = <<t, 2>>)
  BY ExecsAre
<1>4. Pending(t) /\ Sent(t)
  <2>1. step[p] # "none"
    BY <1>1 DEF Running
  <2> QED
    BY <1>1, <1>3, <2>1 DEF Pending, Sent, OInv, DInv, IInv, Ordered
<1> HIDE DEF t
<1>5. \A u \in Tasks : Applied(u)' <=> Applied(u) \/ u = t
  <2>1. \A u \in Tasks, k \in {1, 2} : u # t => <<u, k>> # p
    BY <1>3
  <2>2. \A u \in Tasks \ {t}, k \in {1, 2} : step'[<<u, k>>] = step[<<u, k>>]
    BY <1>1, <2>1 DEF Execs
  <2>3. Applied(t)'
    BY <1>1, <1>3 DEF Applied
  <2> QED
    BY <2>2, <2>3 DEF Applied
<1>6. CASE Applied(t)
  <2>1. File' = File /\ readable' = readable
    BY <1>1, <1>2, <1>3, <1>4, <1>6 DEF OInv, Once, DInv, TypeOK
  <2>2. \A u \in Tasks : Applied(u)' <=> Applied(u)
    BY <1>5, <1>6
  <2> QED
    BY <1>1, <2>1, <2>2 DEF Abstract!vars
<1>7. CASE ~ Applied(t)
  <2>1. Makes(t) /\ File' = NewEntries(t, Split(File))
    BY <1>2, <1>3, <1>4, <1>7 DEF OInv, Once, Makes
  <2>2. result[t] \in {"none", "error"}
    BY <1>3, <1>4, <1>7 DEF OInv, Once, DInv, TypeOK
  <2>3. {u \in Tasks : Applied(u)}' = {u \in Tasks : Applied(u)} \cup {t}
    BY <1>3, <1>5
  <2>4. ~ Abstract!AsAsked(t)
    BY <1>3, <2>1, AskedIs DEF Makes, OInv, DInv
  <2>5. File \in Seq(Lines) /\ op[t].tool \in {"add", "remove"}
    BY <1>3 DEF OInv, DInv, TypeOK, File
  <2>6. op[t].tool = "add" => File' = Append(Keep(File, Entries), op[t].key)
    BY <2>1 DEF NewEntries, Split, Entries
  <2>7. op[t].tool = "remove" => File' = Keep(File, Entries \ {op[t].key})
    <3>1. Entries \cap (Lines \ {op[t].key}) = Entries \ {op[t].key}
      BY DEF Entries, Lines
    <3>2. Keep(Keep(File, Entries), Lines \ {op[t].key}) = Keep(File, Entries \ {op[t].key})
      BY <2>5, <3>1, KeepTwice
    <3> QED
      BY <2>1, <3>2 DEF NewEntries, Split, Entries
  <2>8. Abstract!Apply(t)
    BY <1>1, <1>3, <1>7, <2>2, <2>3, <2>4, <2>5, <2>6, <2>7, SameKeep DEF Abstract!Apply
  <2> QED
    BY <1>3, <2>8 DEF Abstract!Next
<1> QED
  BY <1>6, <1>7

\* When nothing overlaps, a tool call changes the file at one moment and at most once,
\* as it was asked to, through lost answers and repeated executions, and says "ok" or
\* "unchanged" of a file that is as asked: AuthorizedKeys implements KeyFile.
THEOREM KeysImplementKeyFile == ASSUME ~Overlap PROVE Spec => ImplementsKeyFile
<1>1. Init => Abstract!Init
  <2> SUFFICES ASSUME Init PROVE Abstract!Init
    OBVIOUS
  <2>1. File = initial /\ {t \in Tasks : Applied(t)} = {}
    BY ExecsOf DEF Init, File, Applied
  <2> QED
    BY <2>1 DEF Init, Abstract!Init
<1>2. OInv /\ [Next]_vars => [Abstract!Next]_(Abstract!vars)
  <2> SUFFICES ASSUME OInv, [Next]_vars PROVE [Abstract!Next]_(Abstract!vars)
    OBVIOUS
  <2>1. CASE UNCHANGED vars
    BY <2>1 DEF vars, nas, execs, Abstract!vars, File, Applied
  <2>2. ASSUME NEW t \in Tasks, Quiet(t) \/ ReadAnswered(t) \/ Retry(t) \/ Cleanup(t)
        PROVE  [Abstract!Next]_(Abstract!vars)
    BY <2>2, ToolImplements
  <2>3. ASSUME NEW p \in Execs, MoveTmp(p)
        PROVE  [Abstract!Next]_(Abstract!vars)
    BY <2>3, MoveImplements
  <2>4. ASSUME NEW p \in Execs, OpenTmp(p) \/ FillTmp(p) \/ CommandStops(p)
        PROVE  UNCHANGED Abstract!vars
    <3>1. /\ UNCHANGED <<readable, op, result>>
          /\ step[p] # "ok" /\ step'[p] # "ok"
          /\ \A q \in Execs \ {p} : step'[q] = step[q]
      BY <2>4 DEF OpenTmp, FillTmp, CommandStops, nas, OInv, DInv, TypeOK
    <3>2. File' = File
      BY <2>4, ExecsOf DEF OpenTmp, FillTmp, CommandStops, nas, File, OInv, DInv, IInv, Typed, Apart
    <3>3. \A q \in Execs : step'[q] = "ok" <=> step[q] = "ok"
      BY <3>1
    <3>4. \A u \in Tasks : Applied(u)' <=> Applied(u)
      BY <3>3, ExecsOf DEF Applied
    <3> QED
      BY <3>1, <3>2, <3>4 DEF Abstract!vars
  <2> QED
    BY <2>1, <2>2, <2>3, <2>4 DEF Next, Quiet
<1> QED
  BY <1>1, <1>2, AlwaysOInv, PTL DEF Spec, ImplementsKeyFile, Abstract!Spec
===============================================================================
