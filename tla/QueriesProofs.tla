---------------------------- MODULE QueriesProofs -----------------------------
(***************************************************************************)
(* Proofs about the tools that only read.                                  *)
(*                                                                         *)
(*   - packages_list and packages_status (PackagesList), for any number of *)
(*     calls and packages, any width of the fan-out, and any limit of sshd *)
(*     that leaves room for it;                                            *)
(*   - the tools of snapshot_replication.py (SnapshotReplication), for any *)
(*     plans, shares, replicas, limits and changes of these;               *)
(*   - those of network.py and raid_hardware_info (Network), for any       *)
(*     interfaces, speeds and changes of links;                            *)
(*   - raid_state (Mdstat), for listings of any length.                    *)
(*                                                                         *)
(* Each theorem is about one of the four.                                  *)
(***************************************************************************)
EXTENDS PackagesList, SnapshotReplication, Network, Mdstat,
        FiniteSetTheorems, SequenceTheorems, WellFoundedInduction, TLAPS

-------------------------------------------------------------------------------
(* packages_list and packages_status                                       *)

\* The rows of c that hold a slot.
Slotted(c) == {p \in Packages : pc[<<c, p>>] \in InSlot}

\* Before the rows are known no coroutine exists, and nothing has been said; a
\* coroutine is one of a row of its call, and the details are a status call's.
Shape ==
    \A c \in Calls, p \in Packages :
        /\ call[c] \in {"new", "list"} => pc[<<c, p>>] = "none"
        /\ call[c] = "new" => said[<<c, p>>] = "unknown"
        /\ pc[<<c, p>>] # "none" => p \in op[c].rows
        /\ pc[<<c, p>>] \in {"path", "started"} => op[c].tool = "status"
        /\ pc[<<c, p>>] = "docker" => p = ContainerManager

\* The semaphore counts.
Counted == \A c \in Calls : free[c] + Cardinality(Slotted(c)) = Slots

Typed == TypeOK /\ Shape /\ Counted

\* Any set of packages can be counted.
LEMMA SlottedFinite ==
  ASSUME NEW c
  PROVE  IsFiniteSet(Slotted(c)) /\ Cardinality(Slotted(c)) \in Nat
<1>1. Slotted(c) \in SUBSET Packages
  BY DEF Slotted
<1> QED
  BY <1>1, PackagesAssumption, FS_Subset, FS_CardinalityType

\* The beginning.
LEMMA InitTyped == Init => Typed
<1> SUFFICES ASSUME Init PROVE Typed
  OBVIOUS
<1>1. TypeOK
  BY SlotsAssumption, MaxEventsAssumption
     DEF Init, TypeOK, Rows, Ended, InSlot, Probing
<1>2. Shape
  BY DEF Init, Shape, Rows
<1>3. Counted
  <2> SUFFICES ASSUME NEW c \in Calls PROVE free[c] + Cardinality(Slotted(c)) = Slots
    BY DEF Counted
  <2>1. Slotted(c) = {}
    BY DEF Init, Slotted, Rows, InSlot
  <2> QED
    BY <2>1, FS_EmptySet, SlotsAssumption DEF Init
<1> QED
  BY <1>1, <1>2, <1>3 DEF Typed

\* A row goes on to `next`, and no other does; channels that die are awaited.
LEMMA AwaitMoves ==
  ASSUME TypeOK, NEW c \in Calls, NEW p \in Packages, NEW next \in {"done"} \cup Probing,
         Await(<<c, p>>, next)
  PROVE  /\ pc' \in [Rows -> {"none", "waiting", "done"} \cup Probing]
         /\ pc'[<<c, p>>] = next
         /\ \A r \in Rows \ {<<c, p>>} : pc'[r] = pc[r]
         /\ dead' \in SUBSET Rows
         /\ \A r \in dead' : pc'[r] \in Probing
<1>1. <<c, p>> \in Rows
  BY DEF Rows
<1>2. pc' = [pc EXCEPT ![<<c, p>>] = next] /\ pc \in [Rows -> {"none", "waiting", "done"} \cup Probing]
  BY DEF Await, TypeOK
<1>3. dead' \in SUBSET (Rows \ {<<c, p>>}) /\ \A r \in dead' : pc[r] \in Probing
  BY DEF Await, Channels, TypeOK
<1> QED
  BY <1>1, <1>2, <1>3

\* What that does to the slots of the calls.
LEMMA SlotsMove ==
  ASSUME Typed, NEW c \in Calls, NEW p \in Packages, NEW next,
         pc'[<<c, p>>] = next,
         \A r \in Rows \ {<<c, p>>} : pc'[r] = pc[r],
         free' \in [Calls -> 0..Slots],
         \A d \in Calls \ {c} : free'[d] = free[d],
         free'[c] = free[c] + (IF pc[<<c, p>>] \in InSlot THEN 1 ELSE 0)
                            - (IF next \in InSlot THEN 1 ELSE 0)
  PROVE  Counted'
<1>1. ASSUME NEW d \in Calls \ {c}
      PROVE  free'[d] + Cardinality(Slotted(d)') = Slots
  <2>1. \A q \in Packages : <<d, q>> \in Rows \ {<<c, p>>}
    BY DEF Rows
  <2>2. Slotted(d)' = Slotted(d)
    BY <2>1 DEF Slotted
  <2> QED
    BY <2>2 DEF Typed, Counted
<1>2. \A q \in Packages \ {p} : <<c, q>> \in Rows \ {<<c, p>>}
  BY DEF Rows
<1>3. Slotted(c)' = IF next \in InSlot THEN Slotted(c) \cup {p} ELSE Slotted(c) \ {p}
  BY <1>2 DEF Slotted
<1>4. p \in Slotted(c) <=> pc[<<c, p>>] \in InSlot
  BY DEF Slotted
<1>5. /\ Cardinality(Slotted(c)) \in Nat /\ free[c] + Cardinality(Slotted(c)) = Slots
      /\ free[c] \in 0..Slots
  BY SlottedFinite DEF Typed, TypeOK, Counted
<1>6. Cardinality(Slotted(c)') =
        Cardinality(Slotted(c)) - (IF pc[<<c, p>>] \in InSlot THEN 1 ELSE 0)
                                + (IF next \in InSlot THEN 1 ELSE 0)
  <2>1. /\ Cardinality(Slotted(c) \cup {p}) =
             IF p \in Slotted(c) THEN Cardinality(Slotted(c)) ELSE Cardinality(Slotted(c)) + 1
        /\ Cardinality(Slotted(c) \ {p}) =
             IF p \in Slotted(c) THEN Cardinality(Slotted(c)) - 1 ELSE Cardinality(Slotted(c))
    <3>1. IsFiniteSet(Slotted(c))
      BY SlottedFinite
    <3> HIDE DEF Slotted
    <3> QED
      BY <3>1, FS_AddElement, FS_RemoveElement
  <2>2. CASE next \in InSlot
    <3>1. Slotted(c)' = Slotted(c) \cup {p}
      BY <1>3, <2>2
    <3> QED
      BY <1>4, <1>5, <2>1, <2>2, <3>1
  <2>3. CASE next \notin InSlot
    <3>1. Slotted(c)' = Slotted(c) \ {p}
      BY <1>3, <2>3
    <3> QED
      BY <1>4, <1>5, <2>1, <2>3, <3>1
  <2> QED
    BY <2>2, <2>3
<1>7. free'[c] + Cardinality(Slotted(c)') = Slots
  BY <1>5, <1>6, SlotsAssumption
<1> QED
  BY <1>1, <1>7 DEF Counted

\* A row that holds a slot can give it back.
LEMMA SlotOut ==
  ASSUME Typed, NEW c \in Calls, NEW p \in Packages, pc[<<c, p>>] \in InSlot
  PROVE  free[c] + 1 \in 0..Slots
<1>1. p \in Slotted(c)
  BY DEF Slotted
<1>2. Cardinality(Slotted(c)) # 0
  BY <1>1, SlottedFinite, FS_EmptySet
<1> QED
  BY <1>2, SlottedFinite, SlotsAssumption DEF Typed, TypeOK, Counted

\* What the types need of a row's step: where it goes, and from where.
LEMMA RowTyped ==
  ASSUME Typed, NEW c \in Calls, NEW p \in Packages, Row(<<c, p>>)
  PROVE  Typed'
<1> DEFINE r == <<c, p>>
<1>1. r \in Rows /\ r[1] = c /\ r[2] = p
  BY DEF Rows
<1> USE DEF Typed
<1>2. PICK next \in {"done"} \cup Probing :
        /\ Await(r, next)
        /\ pc[r] \in {"waiting"} \cup Probing
        /\ next \in {"path", "started"} => op[c].tool = "status"
        /\ next = "docker" => p = ContainerManager
        /\ free' \in [Calls -> 0..Slots]
        /\ \A d \in Calls \ {c} : free'[d] = free[d]
        /\ free'[c] = free[c] + (IF pc[r] \in InSlot THEN 1 ELSE 0)
                              - (IF next \in InSlot THEN 1 ELSE 0)
  <2> USE <1>1, SlotsAssumption DEF TypeOK, InSlot, Probing
  <2>1. CASE Acquire(r)
    BY <2>1 DEF Acquire
  <2>2. CASE StatusProbed(r)
    <3>1. free[c] = free[c] + 1 - 1
      OBVIOUS
    <3> QED
      BY <2>2, <3>1 DEF StatusProbed
  <2>3. CASE OnoffProbed(r)
    <3>1. free[c] + 1 \in 0..Slots
      BY <2>3, SlotOut DEF OnoffProbed
    <3>2. PICK next \in {"path", "docker", "done"} :
            /\ Await(r, next)
            /\ next = "path" => op[c].tool = "status"
            /\ next = "docker" => p = ContainerManager
      BY <2>3 DEF OnoffProbed, AfterOnoff
    <3>3. free' = [free EXCEPT ![c] = @ + 1] /\ pc[r] = "onoff"
      BY <2>3 DEF OnoffProbed, AfterOnoff
    <3> QED
      BY <3>1, <3>2, <3>3
  <2>4. CASE DetailProbed(r)
    <3>1. PICK next \in {"started", "docker", "done"} :
            /\ Await(r, next)
            /\ next = "started" => pc[r] = "path"
            /\ next = "docker" => p = ContainerManager
      BY <2>4 DEF DetailProbed
    <3>2. free' = free /\ pc[r] \in {"path", "started"}
      BY <2>4 DEF DetailProbed
    <3>3. pc[r] = "path" => op[c].tool = "status"
      BY DEF Shape
    <3> QED
      BY <3>1, <3>2, <3>3
  <2>6. CASE DockerProbed(r)
    BY <2>6 DEF DockerProbed
  <2>5. CASE Escapes(r)
    <3>1. Await(r, "done") /\ pc[r] \in Probing
      BY <2>5 DEF Escapes
    <3>2. CASE pc[r] \in InSlot
      <4>1. free[c] + 1 \in 0..Slots
        BY <3>2, SlotOut
      <4> QED
        BY <2>5, <3>1, <3>2, <4>1 DEF Escapes
    <3>3. CASE pc[r] \notin InSlot
      BY <2>5, <3>1, <3>3 DEF Escapes
    <3> QED
      BY <3>2, <3>3
  <2> QED
    BY <2>1, <2>2, <2>3, <2>4, <2>5, <2>6 DEF Row
<1>3. /\ pc' \in [Rows -> {"none", "waiting", "done"} \cup Probing]
      /\ pc'[r] \in {"done"} \cup Probing
      /\ \A q \in Rows \ {r} : pc'[q] = pc[q]
      /\ dead' \in SUBSET Rows
      /\ \A q \in dead' : pc'[q] \in Probing
  BY <1>2, AwaitMoves
<1>4. /\ UNCHANGED <<on, op, wasOn, wasOff>>
      /\ events' \in 0..MaxEvents /\ quiet' \in [Calls -> BOOLEAN]
      /\ said' \in [Rows -> {"unknown", "start", "stop"}]
      /\ \A q \in Rows \ {r} : said'[q] = said[q]
      /\ call' = call \/ (call[c] = "gather" /\ call' = [call EXCEPT ![c] = "error"])
  <2> USE <1>1 DEF TypeOK
  <2>1. CASE Acquire(r)
    BY <2>1 DEF Acquire
  <2>2. CASE StatusProbed(r)
    BY <2>2 DEF StatusProbed, Now
  <2>3. CASE OnoffProbed(r)
    <3>1. events' \in 0..MaxEvents
      BY <2>3, MaxEventsAssumption DEF OnoffProbed, Event
    <3>2. quiet' \in [Calls -> BOOLEAN]
      BY <2>3 DEF OnoffProbed
    <3>3. \E exit \in {"start", "stop", "unknown"} : Says(r, exit)
      BY <2>3 DEF OnoffProbed, Now
    <3> QED
      BY <2>3, <3>1, <3>2, <3>3 DEF OnoffProbed, Says
  <2>4. CASE DetailProbed(r)
    BY <2>4 DEF DetailProbed
  <2>6. CASE DockerProbed(r)
    BY <2>6 DEF DockerProbed
  <2>5. CASE Escapes(r)
    BY <2>5 DEF Escapes
  <2> QED
    BY <2>1, <2>2, <2>3, <2>4, <2>5, <2>6 DEF Row
<1>5. TypeOK'
  <2>1. call' \in [Calls -> {"new", "list", "gather"} \cup Ended]
    BY <1>4 DEF TypeOK, Ended
  <2>2. ASSUME NEW d \in Calls, call'[d] = "ok", NEW q \in op'[d].rows
        PROVE  pc'[<<d, q>>] = "done"
    <3>1. call[d] = "ok" /\ q \in op[d].rows /\ pc[<<d, q>>] = "done"
      BY <1>4, <2>2 DEF TypeOK
    <3>2. q \in Packages
      BY <3>1, PackagesAssumption DEF TypeOK, Ops
    <3>3. <<d, q>> \in Rows \ {r}
      BY <1>2, <3>1, <3>2 DEF Rows, Probing, InSlot
    <3> QED
      BY <1>3, <3>1, <3>3
  <2> QED
    BY <1>2, <1>3, <1>4, <2>1, <2>2 DEF TypeOK
<1>6. Shape'
  <2> SUFFICES ASSUME NEW d \in Calls, NEW q \in Packages
               PROVE  /\ call'[d] \in {"new", "list"} => pc'[<<d, q>>] = "none"
                      /\ call'[d] = "new" => said'[<<d, q>>] = "unknown"
                      /\ pc'[<<d, q>>] # "none" => q \in op'[d].rows
                      /\ pc'[<<d, q>>] \in {"path", "started"} => op'[d].tool = "status"
                      /\ pc'[<<d, q>>] = "docker" => q = ContainerManager
    BY DEF Shape
  <2>1. call'[d] \in {"new", "list"} => call'[d] = call[d]
    BY <1>4 DEF TypeOK
  <2>2. CASE <<d, q>> = r
    <3>1. d = c /\ q = p
      BY <2>2
    <3>2. pc[r] # "none"
      BY <1>2 DEF Probing, InSlot
    <3>3. call[c] \notin {"new", "list"} /\ p \in op[c].rows
      BY <3>2 DEF Shape
    <3>4. pc'[r] \in {"path", "started"} => op[c].tool = "status"
      BY <1>2, AwaitMoves
    <3>5. pc'[r] = "docker" => p = ContainerManager
      BY <1>2, AwaitMoves
    <3> QED
      BY <1>4, <2>1, <3>1, <3>3, <3>4, <3>5
  <2>3. CASE <<d, q>> # r
    <3>1. <<d, q>> \in Rows \ {r}
      BY <2>3 DEF Rows
    <3> QED
      BY <1>3, <1>4, <2>1, <3>1 DEF Shape
  <2> QED
    BY <2>2, <2>3
<1>7. Counted'
  BY <1>2, <1>3, AwaitMoves, SlotsMove
<1> QED
  BY <1>5, <1>6, <1>7

\* A step that leaves the slots of all rows alone keeps the count.
LEMMA SlotsStay ==
  ASSUME Typed, free' = free, \A c \in Calls : Slotted(c)' = Slotted(c)
  PROVE  Counted'
  BY DEF Typed, Counted

\* What the call itself does.
LEMMA CallTyped ==
  ASSUME Typed, NEW c \in Calls, Begin(c) \/ Tool(c)
  PROVE  Typed'
<1> USE DEF Typed, TypeOK, Ended
<1>1. CASE Begin(c)
  <2>1. TypeOK'
    BY <1>1 DEF Begin
  <2>2. Shape'
    <3>1. /\ \A d \in Calls : call'[d] \in {"new", "list"} => call[d] \in {"new", "list"}
          /\ \A d \in Calls : call'[d] = "new" => call[d] = "new"
          /\ UNCHANGED <<pc, said, op>>
      BY <1>1 DEF Begin
    <3> HIDE DEF TypeOK
    <3> QED
      BY <3>1 DEF Shape
  <2>3. Counted'
    BY <1>1, SlotsStay DEF Begin, Slotted
  <2> QED
    BY <2>1, <2>2, <2>3
<1>2. CASE ListAnswered(c)
  <2>1. /\ call[c] = "list" /\ call' = [call EXCEPT ![c] = "gather"]
        /\ UNCHANGED <<on, events, op, free, dead, said, wasOn, wasOff, quiet>>
        /\ pc' = [r \in Rows |-> IF r[1] = c /\ r[2] \in op[c].rows THEN "waiting" ELSE pc[r]]
    BY <1>2 DEF ListAnswered
  <2>2. \A r \in Rows : r[1] \in Calls /\ r[2] \in Packages /\ r = <<r[1], r[2]>>
    BY DEF Rows
  <2>3. \A r \in Rows : r[1] = c => pc[r] = "none"
    BY <2>1, <2>2 DEF Shape
  <2>4. \A r \in Rows : pc'[r] = pc[r] \/ (pc[r] = "none" /\ pc'[r] = "waiting")
    BY <2>1, <2>3
  <2>5. TypeOK'
    <3>1. \A r \in dead : pc'[r] \in Probing
      BY <2>4 DEF Probing, InSlot
    <3>2. ASSUME NEW d \in Calls, call'[d] = "ok", NEW p \in op'[d].rows
          PROVE  pc'[<<d, p>>] = "done"
      <4>1. d # c /\ call[d] = "ok" /\ p \in op[d].rows /\ pc[<<d, p>>] = "done"
        BY <2>1, <3>2
      <4>2. <<d, p>> \in Rows
        BY <4>1, PackagesAssumption DEF Rows, Ops
      <4> QED
        BY <2>4, <4>1, <4>2
    <3> QED
      BY <2>1, <3>1, <3>2
  <2>6. Shape'
    <3> SUFFICES ASSUME NEW d \in Calls, NEW p \in Packages
                 PROVE  /\ call'[d] \in {"new", "list"} => pc'[<<d, p>>] = "none"
                        /\ call'[d] = "new" => said'[<<d, p>>] = "unknown"
                        /\ pc'[<<d, p>>] # "none" => p \in op'[d].rows
                        /\ pc'[<<d, p>>] \in {"path", "started"} => op'[d].tool = "status"
                        /\ pc'[<<d, p>>] = "docker" => p = ContainerManager
      BY DEF Shape
    <3>1. <<d, p>> \in Rows /\ <<d, p>>[1] = d /\ <<d, p>>[2] = p
      BY DEF Rows
    <3>2. CASE d = c
      BY <2>1, <2>3, <3>1, <3>2 DEF Shape
    <3>3. CASE d # c
      BY <2>1, <3>1, <3>3 DEF Shape
    <3> QED
      BY <3>2, <3>3
  <2>7. Counted'
    <3>1. ASSUME NEW d \in Calls PROVE Slotted(d)' = Slotted(d)
      <4>1. \A p \in Packages : <<d, p>> \in Rows
        BY DEF Rows
      <4> QED
        BY <2>4, <4>1 DEF Slotted, InSlot
    <3> QED
      BY <2>1, <3>1, SlotsStay
  <2> QED
    BY <2>5, <2>6, <2>7
<1>3. CASE ListFailed(c) \/ Gathered(c)
  <2>1. /\ call[c] \in {"list", "gather"}
        /\ call' = [call EXCEPT ![c] = "error"] \/ call' = [call EXCEPT ![c] = "ok"]
        /\ call'[c] = "ok" => \A p \in op[c].rows : pc[<<c, p>>] = "done"
        /\ UNCHANGED <<on, events, op, free, pc, dead, said, wasOn, wasOff, quiet>>
    BY <1>3 DEF ListFailed, Gathered
  <2>2. TypeOK'
    BY <2>1
  <2>3. Shape'
    <3>1. /\ \A d \in Calls : call'[d] \in {"new", "list"} => call'[d] = call[d]
          /\ UNCHANGED <<pc, said, op>>
      BY <2>1
    <3> HIDE DEF TypeOK
    <3> QED
      BY <3>1 DEF Shape
  <2>4. Counted'
    BY <2>1, SlotsStay DEF Slotted
  <2> QED
    BY <2>2, <2>3, <2>4
<1> QED
  BY <1>1, <1>2, <1>3 DEF Tool

\* The channels of the connection die, but for that of a command that timed out.
Cut == LinkLost \/ \E r \in Rows : TimesOut(r)

\* A package that changes, or a connection that is cut.
LEMMA EventTyped ==
  ASSUME Typed, Cut \/ \E p \in Packages : Toggle(p)
  PROVE  Typed'
<1>1. /\ events' \in 0..MaxEvents
      /\ UNCHANGED <<op, call, free, pc, said>>
      /\ on' \in SUBSET Packages
      /\ wasOn' \in [Calls -> SUBSET Packages] /\ wasOff' \in [Calls -> SUBSET Packages]
      /\ quiet' \in [Calls -> BOOLEAN]
      /\ dead' \in SUBSET Rows /\ \A r \in dead' : pc[r] \in Probing
  <2>1. events' \in 0..MaxEvents
    BY MaxEventsAssumption DEF Cut, LinkLost, TimesOut, Toggle, Event, Typed, TypeOK
  <2>2. CASE Cut
    BY <2>1, <2>2 DEF Cut, LinkLost, TimesOut, Typed, TypeOK
  <2>3. CASE \E p \in Packages : Toggle(p)
    BY <2>1, <2>3 DEF Toggle, Typed, TypeOK
  <2> QED
    BY <2>2, <2>3
<1>2. TypeOK'
  BY <1>1 DEF Typed, TypeOK
<1>3. Shape'
  BY <1>1 DEF Typed, Shape
<1>4. Counted'
  BY <1>1, SlotsStay DEF Slotted
<1> QED
  BY <1>2, <1>3, <1>4 DEF Typed

\* All of it.
LEMMA TypedAlways == Spec => []Typed
<1>1. Typed /\ [Next]_vars => Typed'
  <2> SUFFICES ASSUME Typed, [Next]_vars PROVE Typed'
    OBVIOUS
  <2>1. CASE UNCHANGED vars
    <3>1. TypeOK' /\ Shape'
      BY <2>1 DEF vars, Typed, TypeOK, Shape
    <3>2. Counted'
      BY <2>1, SlotsStay DEF vars, Slotted
    <3> QED
      BY <3>1, <3>2 DEF Typed
  <2>2. ASSUME NEW r \in Rows, Row(r)
        PROVE  Typed'
    <3>1. PICK c \in Calls, p \in Packages : r = <<c, p>>
      BY DEF Rows
    <3> QED
      BY <2>2, <3>1, RowTyped
  <2> QED
    BY <2>1, <2>2, CallTyped, EventTyped DEF Next, Cut
<1> QED
  BY InitTyped, <1>1, PTL DEF Spec

\* Types, and a good answer has every row.
THEOREM TypeCorrect == Spec => []TypeOK
<1>1. Typed => TypeOK
  BY DEF Typed
<1> QED
  BY <1>1, TypedAlways, PTL

\* The semaphore bounds the probes of a call, whatever fails, and loses no slot.
THEOREM FanOutAlwaysBounded == Spec => []FanOutBounded
<1>1. Typed => FanOutBounded
  BY DEF Typed, Counted, Slotted, Shape, FanOutBounded, Probing
<1> QED
  BY <1>1, TypedAlways, PTL

-------------------------------------------------------------------------------

\* While a call is under way, what has been seen of the packages includes what
\* they are now.
Seen ==
    \A c \in Calls : call[c] # "new" => on \subseteq wasOn[c] /\ Packages \ on \subseteq wasOff[c]

\* A call that is quiet is the only one at work, and no channel of it has died.
Quiet ==
    /\ \A c, d \in Calls : quiet[c] /\ Busy(c) /\ c # d => ~ Busy(d)
    /\ \A c \in Calls, p \in Packages : <<c, p>> \in dead => ~ quiet[c]

Honest == Seen /\ Quiet /\ StatusHonest

\* A call by itself stays within sshd's limit: besides the row that asks for a new
\* channel, at most Slots - 1 are in a slot, and the docker probe is out.
LEMMA RoomForOne ==
  ASSUME Typed, Quiet, NEW c \in Calls, NEW p \in Packages, quiet[c],
         pc[<<c, p>>] \in {"waiting"} \cup Probing,
         \/ op[c].tool = "status"
         \/ pc[<<c, p>>] \in InSlot
         \/ free[c] > 0 /\ pc[<<c, p>>] = "waiting"
  PROVE  Cardinality(Channels(<<c, p>>)) \in Nat /\ Cardinality(Channels(<<c, p>>)) < MaxSessions
<1> DEFINE Ch == Channels(<<c, p>>)
<1>1. \A q \in Ch : \E x \in Packages : q = <<c, x>> /\ x # p /\ pc[q] \in Probing
  <2> SUFFICES ASSUME NEW d \in Calls, NEW x \in Packages, <<d, x>> \in Ch
               PROVE  d = c /\ x # p /\ pc[<<d, x>>] \in Probing
    BY DEF Channels, Rows
  <2>1. pc[<<d, x>>] \in Probing /\ <<d, x>> # <<c, p>>
    BY DEF Channels
  <2>2. Busy(c) /\ Busy(d)
    BY <2>1 DEF Busy
  <2> QED
    BY <2>1, <2>2 DEF Quiet
<1>2. Slots \in Nat \ {0} /\ MaxSessions \in Nat /\ Slots + 1 <= MaxSessions
  BY SlotsAssumption, MaxSessionsAssumption
<1>3. CASE op[c].tool = "status"
  <2>1. PICK x \in Asked : op[c].rows = {x}
    BY <1>3 DEF Typed, TypeOK, Ops
  <2>2. p \in op[c].rows
    BY DEF Typed, Shape, Probing, InSlot
  <2>3. \A y \in Packages : pc[<<c, y>>] \in Probing => y \in op[c].rows
    BY DEF Typed, Shape, Probing, InSlot
  <2>4. Ch = {}
    BY <1>1, <2>1, <2>2, <2>3
  <2>5. Cardinality(Ch) = 0
    <3> HIDE DEF Ch
    <3> QED
      BY <2>4, FS_EmptySet
  <2> QED
    BY <1>2, <2>5
<1>4. CASE op[c].tool # "status"
  <2> DEFINE Near == (Slotted(c) \ {p}) \cup {ContainerManager}
  <2>1. \A q \in Ch : q \in {c} \X Near
    <3> SUFFICES ASSUME NEW x \in Packages, x # p, pc[<<c, x>>] \in Probing
                 PROVE  x \in Near
      BY <1>1
    <3> QED
      BY <1>4 DEF Typed, Shape, Probing, Slotted
  <2>2. IsFiniteSet(Slotted(c)) /\ Cardinality(Slotted(c)) \in Nat
        /\ free[c] + Cardinality(Slotted(c)) = Slots /\ free[c] \in 0..Slots
    BY SlottedFinite DEF Typed, TypeOK, Counted
  <2>3. IsFiniteSet(Slotted(c) \ {p}) /\ Cardinality(Slotted(c) \ {p}) \in Nat
        /\ Cardinality(Slotted(c) \ {p}) =
             IF p \in Slotted(c) THEN Cardinality(Slotted(c)) - 1 ELSE Cardinality(Slotted(c))
    BY <2>2, FS_RemoveElement, FS_CardinalityType
  <2>4. Cardinality(Slotted(c) \ {p}) <= Slots - 1
    <3>1. pc[<<c, p>>] \in InSlot => p \in Slotted(c)
      BY DEF Slotted
    <3> QED
      BY <1>4, <2>2, <2>3, <3>1, SlotsAssumption
  <2>5. IsFiniteSet(Near) /\ Cardinality(Near) \in Nat
        /\ Cardinality(Near) <= Cardinality(Slotted(c) \ {p}) + 1
    <3>1. /\ IsFiniteSet(Near)
          /\ Cardinality(Near) = IF ContainerManager \in Slotted(c) \ {p}
                                   THEN Cardinality(Slotted(c) \ {p})
                                   ELSE Cardinality(Slotted(c) \ {p}) + 1
      BY <2>3, FS_AddElement
    <3> QED
      BY <2>3, <3>1
  <2>6. IsFiniteSet({c} \X Near) /\ Cardinality({c} \X Near) = Cardinality(Near)
    <3>1. IsFiniteSet({c}) /\ Cardinality({c}) = 1
      BY FS_Singleton
    <3>2. IsFiniteSet({c} \X Near) /\ Cardinality({c} \X Near) = Cardinality({c}) * Cardinality(Near)
      BY <2>5, <3>1, FS_Product
    <3>3. 1 * Cardinality(Near) = Cardinality(Near)
      BY <2>5
    <3> QED
      BY <3>1, <3>2, <3>3
  <2>7. IsFiniteSet(Ch) /\ Cardinality(Ch) <= Cardinality({c} \X Near) /\ Cardinality(Ch) \in Nat
    <3>1. Ch \in SUBSET ({c} \X Near)
      BY <2>1
    <3> HIDE DEF Ch, Near
    <3> QED
      BY <2>6, <3>1, FS_Subset, FS_CardinalityType
  <2> QED
    <3> HIDE DEF Ch, Near
    <3>1. Cardinality(Ch) <= Cardinality(Slotted(c) \ {p}) + 1
      BY <2>3, <2>5, <2>6, <2>7
    <3>2. Cardinality(Ch) <= Slots
      BY <1>2, <2>3, <2>4, <2>7, <3>1
    <3>3. Cardinality(Ch) \in Nat /\ Cardinality(Ch) < MaxSessions
      BY <1>2, <2>7, <3>2
    <3> QED
      BY <3>3 DEF Ch
<1> QED
  BY <1>3, <1>4

\* So a quiet call kills no channel by opening one.
LEMMA AwaitQuiet ==
  ASSUME Typed, Quiet, NEW c \in Calls, NEW p \in Packages, NEW next,
         Await(<<c, p>>, next),
         pc[<<c, p>>] \in {"waiting"} \cup Probing,
         next \in Probing => \/ op[c].tool = "status"
                             \/ pc[<<c, p>>] \in InSlot
                             \/ free[c] > 0 /\ pc[<<c, p>>] = "waiting"
  PROVE  \A d \in Calls, x \in Packages : <<d, x>> \in dead' => ~ quiet[d]
<1> SUFFICES ASSUME NEW d \in Calls, NEW x \in Packages, <<d, x>> \in dead', quiet[d]
             PROVE  FALSE
  OBVIOUS
<1>1. <<d, x>> \notin dead
  BY DEF Quiet
<1>2. /\ <<d, x>> \in Channels(<<c, p>>)
      /\ next \in Probing
      /\ Cardinality(Channels(<<c, p>>)) >= MaxSessions
  BY <1>1 DEF Await
<1>3. Busy(d) /\ Busy(c)
  BY <1>2 DEF Channels, Busy
<1>4. d = c
  BY <1>3 DEF Quiet
<1>5. Cardinality(Channels(<<c, p>>)) \in Nat /\ Cardinality(Channels(<<c, p>>)) < MaxSessions
  BY <1>2, <1>4, RoomForOne
<1> QED
  BY <1>2, <1>5, MaxSessionsAssumption

\* A step that wakes no call and adds no dead channel keeps the quiet.
LEMMA QuietStays ==
  ASSUME Quiet,
         \A c \in Calls : Busy(c)' => Busy(c),
         \A c \in Calls : quiet'[c] => quiet[c],
         \A c \in Calls, p \in Packages : <<c, p>> \in dead' => ~ quiet'[c]
  PROVE  Quiet'
  BY DEF Quiet

\* What a row's step does to the call: it can be at work no longer, but not again.
LEMMA RowBusy ==
  ASSUME Typed, NEW c \in Calls, NEW p \in Packages,
         pc[<<c, p>>] \in {"waiting"} \cup Probing,
         \A r \in Rows \ {<<c, p>>} : pc'[r] = pc[r],
         call' = call \/ (call[c] = "gather" /\ call' = [call EXCEPT ![c] = "error"])
  PROVE  \A d \in Calls : Busy(d)' => Busy(d)
<1> SUFFICES ASSUME NEW d \in Calls, Busy(d)' PROVE Busy(d)
  OBVIOUS
<1>1. CASE d = c
  BY <1>1 DEF Busy
<1>2. CASE d # c
  <2>1. call'[d] = call[d]
    BY <1>2 DEF Typed, TypeOK
  <2>2. \A x \in Packages : pc'[<<d, x>>] = pc[<<d, x>>]
    BY <1>2 DEF Rows
  <2> QED
    BY <2>1, <2>2 DEF Busy
<1> QED
  BY <1>1, <1>2

\* The row's step says what is so: of the package, or of a channel that died.
LEMMA RowHonest ==
  ASSUME Typed, Honest, NEW c \in Calls, NEW p \in Packages, Row(<<c, p>>)
  PROVE  Honest'
<1> DEFINE r == <<c, p>>
<1>1. r \in Rows /\ r[1] = c /\ r[2] = p
  BY DEF Rows
<1>2. PICK next \in {"done"} \cup Probing :
        /\ Await(r, next)
        /\ pc[r] \in {"waiting"} \cup Probing
        /\ next \in Probing => \/ op[c].tool = "status"
                               \/ pc[r] \in InSlot
                               \/ free[c] > 0 /\ pc[r] = "waiting"
  <2> USE <1>1 DEF InSlot, Probing
  <2>1. CASE Acquire(r)
    BY <2>1 DEF Acquire
  <2>2. CASE StatusProbed(r)
    BY <2>2 DEF StatusProbed
  <2>3. CASE OnoffProbed(r)
    BY <2>3 DEF OnoffProbed, AfterOnoff
  <2>4. CASE DetailProbed(r)
    <3>1. PICK next \in {"started", "docker", "done"} :
            /\ Await(r, next)
            /\ next # "done" => pc[r] \in {"path", "started"}
      BY <2>4 DEF DetailProbed
    <3>2. pc[r] \in {"path", "started"} => op[c].tool = "status"
      BY DEF Typed, Shape
    <3> QED
      BY <2>4, <3>1, <3>2 DEF DetailProbed
  <2>6. CASE DockerProbed(r)
    BY <2>6 DEF DockerProbed
  <2>5. CASE Escapes(r)
    <3>1. Await(r, "done") /\ pc[r] \in Probing
      BY <2>5 DEF Escapes, Typed, TypeOK
    <3> QED
      BY <3>1
  <2> QED
    BY <2>1, <2>2, <2>3, <2>4, <2>5, <2>6 DEF Row
<1>3. /\ UNCHANGED <<on, op, wasOn, wasOff>>
      /\ \A d \in Calls : quiet'[d] => quiet[d]
      /\ \A q \in Rows \ {r} : said'[q] = said[q]
      /\ call' = call \/ (call[c] = "gather" /\ call' = [call EXCEPT ![c] = "error"])
      /\ \/ said'[r] \in {said[r], Now(r), "unknown"}
         \/ said'[r] = "stop" /\ r \in dead
         \/ said'[r] = "stop" /\ ~quiet'[c]
  <2> USE <1>1 DEF Typed, TypeOK
  <2>1. CASE Acquire(r)
    BY <2>1 DEF Acquire
  <2>2. CASE StatusProbed(r)
    BY <2>2 DEF StatusProbed
  <2>3. CASE OnoffProbed(r)
    <3>1. CASE UNCHANGED quiet
      <4>1. PICK exit \in {Now(r)} \cup (IF r \in dead THEN {"stop", "unknown"} ELSE {"stop"}) :
              /\ Says(r, exit)
              /\ exit \in {Now(r), "unknown"} \/ r \in dead \/ ~quiet[c]
        BY <2>3, <3>1 DEF OnoffProbed
      <4> QED
        BY <2>3, <3>1, <4>1 DEF OnoffProbed, Says, Now
    <3>2. CASE Says(r, "stop") /\ quiet' = [quiet EXCEPT ![c] = FALSE]
      BY <2>3, <3>2 DEF OnoffProbed, Says
    <3> QED
      BY <2>3, <3>1, <3>2 DEF OnoffProbed
  <2>4. CASE DetailProbed(r)
    BY <2>4 DEF DetailProbed
  <2>6. CASE DockerProbed(r)
    BY <2>6 DEF DockerProbed
  <2>5. CASE Escapes(r)
    BY <2>5 DEF Escapes
  <2> QED
    BY <2>1, <2>2, <2>3, <2>4, <2>5, <2>6 DEF Row
<1>4. /\ pc'[r] \in {"done"} \cup Probing
      /\ \A q \in Rows \ {r} : pc'[q] = pc[q]
  BY <1>2, AwaitMoves DEF Typed
<1>5. call[c] # "new" /\ \A d \in Calls : call'[d] # "new" => call[d] # "new"
  <2>1. pc[r] # "none"
    BY <1>2 DEF Probing, InSlot
  <2> QED
    BY <1>3, <2>1 DEF Typed, TypeOK, Shape
<1>6. Seen'
  BY <1>3, <1>5 DEF Honest, Seen
<1>7. Quiet'
  <2>1. \A d \in Calls, x \in Packages : <<d, x>> \in dead' => ~ quiet[d]
    BY <1>2, AwaitQuiet DEF Honest
  <2>2. \A d \in Calls : Busy(d)' => Busy(d)
    BY <1>2, <1>3, <1>4, RowBusy
  <2> QED
    BY <1>3, <2>1, <2>2, QuietStays DEF Honest
<1>8. StatusHonest'
  <2> SUFFICES ASSUME NEW d \in Calls, NEW x \in Packages
               PROVE  /\ said'[<<d, x>>] = "start" => x \in wasOn'[d]
                      /\ said'[<<d, x>>] = "stop"  => x \in wasOff'[d] \/ ~quiet'[d]
    BY DEF StatusHonest
  <2>1. CASE <<d, x>> = r
    <3>1. d = c /\ x = p
      BY <2>1
    <3>2. Now(r) = (IF p \in on THEN "start" ELSE "stop")
      BY <1>1 DEF Now
    <3>3. on \subseteq wasOn[c] /\ Packages \ on \subseteq wasOff[c]
      BY <1>5 DEF Honest, Seen
    <3>4. r \in dead => ~ quiet[c]
      BY DEF Honest, Quiet
    <3> QED
      BY <1>3, <3>1, <3>2, <3>3, <3>4 DEF Honest, StatusHonest
  <2>2. CASE <<d, x>> # r
    <3>1. <<d, x>> \in Rows \ {r}
      BY <2>2 DEF Rows
    <3> QED
      BY <1>3, <3>1 DEF Honest, StatusHonest
  <2> QED
    BY <2>1, <2>2
<1> QED
  BY <1>6, <1>7, <1>8 DEF Honest

\* A call that begins is quiet if no other is at work, and makes the others loud.
LEMMA BeginHonest ==
  ASSUME Typed, Honest, NEW c \in Calls, Begin(c)
  PROVE  Honest'
<1>1. /\ call[c] = "new" /\ call'[c] = "list"
      /\ \A d \in Calls \ {c} : call'[d] = call[d] /\ wasOn'[d] = wasOn[d] /\ wasOff'[d] = wasOff[d]
                              /\ quiet'[d] = (quiet[d] /\ ~ Busy(d))
      /\ wasOn'[c] = on /\ wasOff'[c] = Packages \ on
      /\ quiet'[c] = \A e \in Calls : ~ Busy(e)
      /\ UNCHANGED <<on, op, pc, dead, said>>
  BY DEF Begin, Typed, TypeOK
<1>2. Seen'
  BY <1>1 DEF Honest, Seen
<1>3. \A d \in Calls \ {c} : Busy(d)' <=> Busy(d)
  BY <1>1 DEF Busy
<1>4. \A p \in Packages : said[<<c, p>>] = "unknown" /\ <<c, p>> \notin dead
  BY <1>1 DEF Typed, TypeOK, Shape, Probing, InSlot
<1>5. Quiet'
  <2>1. ASSUME NEW d \in Calls, NEW e \in Calls, quiet'[d], Busy(d)', d # e
        PROVE  ~ Busy(e)'
    BY <1>1, <1>3, <2>1 DEF Honest, Quiet
  <2>2. ASSUME NEW d \in Calls, NEW p \in Packages, <<d, p>> \in dead'
        PROVE  ~ quiet'[d]
    BY <1>1, <1>4, <2>2 DEF Honest, Quiet
  <2> QED
    BY <2>1, <2>2 DEF Quiet
<1>6. StatusHonest'
  BY <1>1, <1>4 DEF Honest, StatusHonest
<1> QED
  BY <1>2, <1>5, <1>6 DEF Honest

\* The rest of the call says nothing and opens no channel.
LEMMA ToolHonest ==
  ASSUME Typed, Honest, NEW c \in Calls, Tool(c)
  PROVE  Honest'
<1>1. /\ call[c] \in {"list", "gather"}
      /\ \A d \in Calls : call'[d] # "new" => call[d] # "new"
      /\ \A d \in Calls \ {c} : call'[d] = call[d]
      /\ UNCHANGED <<on, dead, said, wasOn, wasOff, quiet>>
  BY DEF Tool, ListAnswered, ListFailed, Gathered, Typed, TypeOK
<1>2. \A d \in Calls \ {c}, p \in Packages : pc'[<<d, p>>] = pc[<<d, p>>]
  <2>1. \A d \in Calls \ {c}, p \in Packages : <<d, p>> \in Rows /\ <<d, p>>[1] # c
    BY DEF Rows
  <2> QED
    BY <2>1 DEF Tool, ListAnswered, ListFailed, Gathered
<1>3. \A d \in Calls : Busy(d)' => Busy(d)
  BY <1>1, <1>2 DEF Busy
<1>4. Quiet'
  BY <1>1, <1>3, QuietStays DEF Honest, Quiet
<1> QED
  BY <1>1, <1>4 DEF Honest, Seen, StatusHonest

\* Packages that change are seen; a connection that is cut makes every call loud.
LEMMA EventHonest ==
  ASSUME Typed, Honest, Cut \/ \E p \in Packages : Toggle(p)
  PROVE  Honest'
<1>1. CASE Cut
  <2>1. UNCHANGED <<on, op, call, pc, said, wasOn, wasOff>> /\ \A c \in Calls : ~ quiet'[c]
    BY <1>1 DEF Cut, LinkLost, TimesOut
  <2>2. \A c \in Calls : Busy(c)' => Busy(c)
    BY <2>1 DEF Busy
  <2>3. Quiet'
    BY <2>1 DEF Quiet
  <2> QED
    BY <2>1, <2>3 DEF Honest, Seen, StatusHonest
<1>2. ASSUME NEW p \in Packages, Toggle(p)
      PROVE  Honest'
  <2>1. /\ on' = on \cup {p} \/ on' = on \ {p}
        /\ on' \subseteq Packages
        /\ \A c \in Calls : /\ wasOn'[c] = wasOn[c] \cup (on' \cap {p})
                           /\ wasOff'[c] = wasOff[c] \cup ({p} \ on')
        /\ UNCHANGED <<op, call, pc, dead, said, quiet>>
    BY <1>2 DEF Toggle, Typed, TypeOK
  <2>2. Seen'
    BY <2>1 DEF Honest, Seen
  <2>3. \A c \in Calls : Busy(c)' => Busy(c)
    BY <2>1 DEF Busy
  <2>4. Quiet'
    BY <2>1, <2>3, QuietStays DEF Honest, Quiet
  <2>5. StatusHonest'
    BY <2>1 DEF Honest, StatusHonest
  <2> QED
    BY <2>2, <2>4, <2>5 DEF Honest
<1> QED
  BY <1>1, <1>2

\* A list by itself never takes a package that runs for a stopped one because of
\* its own fan-out, for every width that leaves room for one more channel.
THEOREM StatusAlwaysHonest == Spec => []StatusHonest
<1>1. Init => Honest
  BY DEF Init, Honest, Seen, Quiet, StatusHonest, Rows
<1>2. Typed /\ Honest /\ [Next]_vars => Honest'
  <2> SUFFICES ASSUME Typed, Honest, [Next]_vars PROVE Honest'
    OBVIOUS
  <2>1. CASE UNCHANGED vars
    BY <2>1 DEF vars, Honest, Seen, Quiet, StatusHonest, Busy
  <2>2. ASSUME NEW r \in Rows, Row(r)
        PROVE  Honest'
    <3>1. PICK c \in Calls, p \in Packages : r = <<c, p>>
      BY DEF Rows
    <3> QED
      BY <2>2, <3>1, RowHonest
  <2> QED
    BY <2>1, <2>2, BeginHonest, ToolHonest, EventHonest DEF Next, Cut
<1>3. Honest => StatusHonest
  BY DEF Honest
<1> QED
  BY <1>1, <1>2, <1>3, TypedAlways, PTL DEF Spec

-------------------------------------------------------------------------------
(* Snapshot replication                                                    *)

\* What SnapshotReplication assumes of its constants, as far as it is needed.
RepAssumed == IsFiniteSet(Replicas) /\ Limits \subseteq Nat \ {0} /\ MaxChanges \in Nat

\* Each tool stays in its own part of the program.
RepTool ==
    /\ stage \in {"plans", "shares"} => query.tool = "list_plans"
    /\ stage \in {"plan", "not_found"} => query.tool = "plan_status"
    /\ stage \in {"replicas", "sizes"} => query.tool = "recent_activity"

\* The history: what has been there all the time is there, and what is there has
\* been there at some moment.
RepHistory ==
    /\ steady \subseteq plans \cup activity
    /\ stage # "new" => plans \cup activity \subseteq ever

\* Between two queries: the rows of the first, each of which was there, and none
\* of which is missing.
RepFound ==
    /\ stage = "shares" =>
         /\ \A r \in reply : /\ r \in PlanRows /\ r.share = NoShare
                              /\ \E e \in ever \cap PlanRows : e.plan = r.plan
         /\ \A e \in steady \cap PlanRows : \E r \in reply : r.plan = e.plan
    /\ stage = "sizes" =>
         /\ reply \subseteq ever \cap EventRows
         /\ \/ "failed" \in warned
            \/ \A e \in steady \cap EventRows : e.kind = "plan_status" => e \in reply

\* The inductive invariant.
RepInv ==
    /\ ReplicationTypeOK /\ RepTool /\ RepHistory /\ RepFound
    /\ AnswersTrue /\ AnswersComplete /\ NotFoundIsTrue

\* A plan is no event.
LEMMA RowsApart ==
  /\ PlanRows \cap EventRows = {}
  /\ \A e \in EventRows : e.kind \in {"plan_status", "size_calculate"}
<1>1. \A r \in PlanRows : DOMAIN r = {"plan", "share"}
  BY DEF PlanRows
<1>2. \A r \in EventRows :
        DOMAIN r = {"replica", "kind"} /\ r.kind \in {"plan_status", "size_calculate"}
  BY DEF EventRows
<1> QED
  BY <1>1, <1>2

\* What a row is without its share.
LEMMA Shareless ==
  ASSUME NEW r \in PlanRows
  PROVE  LET q == [r EXCEPT !.share = NoShare] IN
         q \in PlanRows /\ q.plan = r.plan /\ q.share = NoShare
  BY DEF PlanRows

\* There are no more events than can be counted.
LEMMA EventsFinite ==
  ASSUME IsFiniteSet(Replicas), NEW E, E \subseteq EventRows
  PROVE  IsFiniteSet(E)
<1> DEFINE kinds == {"plan_status", "size_calculate"}
           pairs == Replicas \X kinds
           row == [x \in pairs |-> [replica |-> x[1], kind |-> x[2]]]
<1>1. IsFiniteSet(kinds)
  <2>1. IsFiniteSet({"plan_status"}) /\ IsFiniteSet({"size_calculate"})
    BY FS_Singleton
  <2>2. IsFiniteSet({"plan_status"} \cup {"size_calculate"})
    BY <2>1, FS_Union
  <2>3. kinds = {"plan_status"} \cup {"size_calculate"}
    OBVIOUS
  <2> QED
    BY <2>2, <2>3
<1>2. IsFiniteSet(pairs)
  BY <1>1, FS_Product
<1>3. row \in Surjection(pairs, EventRows)
  <2>1. \A x \in pairs : row[x] \in EventRows
    BY DEF EventRows
  <2>2. \A e \in EventRows : \E x \in pairs : row[x] = e
    <3> SUFFICES ASSUME NEW e \in EventRows PROVE \E x \in pairs : row[x] = e
      OBVIOUS
    <3>1. <<e.replica, e.kind>> \in pairs /\ row[<<e.replica, e.kind>>] = e
      BY DEF EventRows
    <3> QED
      BY <3>1
  <2>3. row \in [pairs -> EventRows]
    BY <2>1
  <2> QED
    BY <2>2, <2>3 DEF Surjection
<1>4. IsFiniteSet(EventRows)
  BY <1>2, <1>3, FS_Surjection
<1> QED
  BY <1>4, FS_Subset

\* SnapshotReplication counts as this module does.
LEMMA SameCardinality == ASSUME NEW S PROVE Cardinality(S) = Cardinality(S)
  BY DEF Cardinality, Cardinality

\* Limited takes rows of the two tables, no more than the limit, and all of them
\* if the limit is not reached.
LEMMA LimitedRows ==
  ASSUME NEW first, NEW second, IsFiniteSet(first \cup second), query.limit \in Nat,
         NEW rows \in Limited(first, second)
  PROVE  /\ rows \subseteq first \cup second
         /\ Cardinality(rows) <= query.limit
         /\ Cardinality(rows) < query.limit => rows = first \cup second
<1> DEFINE all == first \cup second
           n == Cardinality(all)
<1>1. n \in Nat
  BY FS_CardinalityType, SameCardinality
<1>2. rows \subseteq all /\ Cardinality(rows) = Min({query.limit, n})
  BY DEF Limited, kSubset
<1> HIDE DEF all
<1>3. Min({query.limit, n}) = IF query.limit <= n THEN query.limit ELSE n
  <2> DEFINE m == IF query.limit <= n THEN query.limit ELSE n
  <2>1. m \in {query.limit, n} /\ \A y \in {query.limit, n} : m <= y
    BY <1>1
  <2>2. \A x \in {query.limit, n} : (\A y \in {query.limit, n} : x <= y) => x = m
    BY <1>1
  <2> HIDE DEF m
  <2>3. Min({query.limit, n}) = m
    BY <2>1, <2>2 DEF Min
  <2> QED
    BY <2>3 DEF m
<1>4. IsFiniteSet(all)
  BY DEF all
<1>5. Cardinality(rows) = n => rows = all
  BY <1>2, <1>4, FS_Subset, SameCardinality
<1> QED
  BY <1>1, <1>2, <1>3, <1>5 DEF all

\* The start: no call, no rows.
LEMMA RepInit == ASSUME RepAssumed PROVE ReplicationInit => RepInv
<1> SUFFICES ASSUME ReplicationInit PROVE RepInv
  OBVIOUS
<1>1. ReplicationTypeOK
  <2>1. plans \subseteq PlanRows
    BY DEF ReplicationInit, Tables
  <2>2. changes \in 0..MaxChanges
    BY DEF RepAssumed, ReplicationInit
  <2> QED
    BY <2>1, <2>2 DEF ReplicationInit, ReplicationTypeOK
<1> QED
  BY <1>1 DEF ReplicationInit, RepInv, RepTool, RepHistory, RepFound, AnswersTrue,
     AnswersComplete, NotFoundIsTrue

\* The web API's answers: rows that are there, or on to the database.
LEMMA RepWeb ==
  ASSUME RepAssumed, RepInv,
         PlansAnswered \/ GetAnswered \/ ActivityAnswered \/ WebFailed
  PROVE  RepInv'
<1> USE DEF RepInv
<1>1. stage = "web" /\ UNCHANGED failed
  BY DEF PlansAnswered, GetAnswered, ActivityAnswered, WebFailed
<1>2. CASE WebFailed
  <2>1. Goes("error", {}, {})
    BY <1>2 DEF WebFailed
  <2> QED
    BY <1>1, <2>1 DEF Goes, world, ReplicationTypeOK, QueryEnded, RepTool, RepHistory,
       RepFound, AnswersTrue, AnswersComplete, NotFoundIsTrue
<1>3. CASE PlansAnswered
  <2>1. query.tool = "list_plans" /\ (Goes("ok", plans, {}) \/ Goes("plans", {}, {}))
    BY <1>3 DEF PlansAnswered
  <2>2. steady \cap PlanRows \subseteq plans
    BY RowsApart DEF RepHistory, ReplicationTypeOK
  <2> QED
    BY <1>1, <2>1, <2>2 DEF Goes, world, ReplicationTypeOK, QueryEnded, RepTool,
       RepHistory, RepFound, AnswersTrue, AnswersComplete, NotFoundIsTrue
<1>4. CASE GetAnswered
  <2>1. /\ query.tool = "plan_status"
        /\ \/ Goes("ok", AskedPlan, {}) \/ Goes("error", {}, {})
           \/ \E words \in {{}, {"unregistered"}} : Goes("plan", {}, words)
    BY <1>4 DEF GetAnswered
  <2>2. AskedPlan \subseteq plans
    BY DEF AskedPlan
  <2> QED
    BY <1>1, <2>1, <2>2 DEF Goes, world, ReplicationTypeOK, QueryEnded, RepTool,
       RepHistory, RepFound, AnswersTrue, AnswersComplete, NotFoundIsTrue
<1>5. CASE ActivityAnswered
  <2>1. query.tool = "recent_activity" /\ query.limit \in Nat
    BY <1>5 DEF RepAssumed, ActivityAnswered, ReplicationTypeOK, Queries
  <2>2. CASE \E words \in {{}, {"unregistered"}} : Goes("replicas", {}, words)
    BY <1>1, <2>1, <2>2 DEF Goes, world, ReplicationTypeOK, QueryEnded, RepTool,
       RepHistory, RepFound, AnswersTrue, AnswersComplete, NotFoundIsTrue
  <2>3. CASE \E rows \in Limited(activity, {}) : Goes("ok", rows, {})
    <3>1. PICK rows \in Limited(activity, {}) : Goes("ok", rows, {})
      BY <2>3
    <3>2. /\ rows \subseteq activity
          /\ Cardinality(rows) <= query.limit
          /\ Cardinality(rows) < query.limit => rows = activity
      <4>1. IsFiniteSet(activity \cup {})
        BY EventsFinite DEF RepAssumed, ReplicationTypeOK
      <4>2. /\ rows \subseteq activity \cup {}
            /\ Cardinality(rows) <= query.limit
            /\ Cardinality(rows) < query.limit => rows = activity \cup {}
        BY <2>1, <3>1, <4>1, LimitedRows
      <4>3. activity \cup {} = activity
        OBVIOUS
      <4> QED
        BY <4>2, <4>3
    <3>3. steady \cap EventRows \subseteq activity
      BY RowsApart DEF RepHistory, ReplicationTypeOK
    <3> QED
      BY <1>1, <2>1, <3>1, <3>2, <3>3 DEF Goes, world, ReplicationTypeOK, QueryEnded,
         RepTool, RepHistory, RepFound, AnswersTrue, AnswersComplete,
         NotFoundIsTrue
  <2> QED
    BY <1>5, <2>2, <2>3 DEF ActivityAnswered
<1> QED
  BY <1>2, <1>3, <1>4, <1>5

\* The queries of a list of plans.
LEMMA RepPlans ==
  ASSUME RepAssumed, RepInv, PlansQueried \/ SharesQueried
  PROVE  RepInv'
<1> USE DEF RepInv
<1>1. UNCHANGED failed
  BY DEF PlansQueried, SharesQueried
<1>2. CASE PlansQueried
  <2> DEFINE bare(r) == [r EXCEPT !.share = NoShare]
             rows == {bare(r) : r \in plans}
  <2>1. stage = "plans" /\ Goes("shares", rows, {}) /\ query.tool = "list_plans"
    BY <1>2 DEF PlansQueried, RepTool
  <2>2. \A r \in plans :
        bare(r) \in PlanRows /\ bare(r).plan = r.plan /\ bare(r).share = NoShare
    BY Shareless DEF ReplicationTypeOK
  <2> HIDE DEF bare
  <2>3. \A q \in rows : /\ q \in PlanRows /\ q.share = NoShare
                        /\ \E e \in ever \cap PlanRows : e.plan = q.plan
    BY <2>1, <2>2 DEF RepHistory, ReplicationTypeOK
  <2>4. \A e \in steady \cap PlanRows : \E q \in rows : q.plan = e.plan
    <3>1. steady \cap PlanRows \subseteq plans
      BY RowsApart DEF RepHistory, ReplicationTypeOK
    <3> QED
      BY <2>2, <3>1
  <2> HIDE DEF rows
  <2> QED
    BY <1>1, <2>1, <2>3, <2>4 DEF Goes, world, ReplicationTypeOK, QueryEnded, RepTool,
       RepHistory, RepFound, AnswersTrue, AnswersComplete, NotFoundIsTrue
<1>3. CASE SharesQueried
  <2> DEFINE seen == {s \in plans : \E r \in reply : r.plan = s.plan}
             gone == {r \in reply : \A s \in plans : s.plan # r.plan}
  <2>1. stage = "shares" /\ Goes("ok", seen \cup gone, {}) /\ query.tool = "list_plans"
    BY <1>3 DEF SharesQueried, RepTool
  <2>2. steady \cap PlanRows \subseteq plans
    BY RowsApart DEF RepHistory, ReplicationTypeOK
  <2>3. seen \subseteq ever /\ seen \subseteq PlanRows
    BY <2>1 DEF RepHistory, ReplicationTypeOK
  <2>4. \A r \in gone : /\ r \in PlanRows /\ r.share = NoShare
                        /\ \E e \in ever \cap PlanRows : e.plan = r.plan
                        /\ \A e \in steady \cap PlanRows : e.plan # r.plan
    BY <2>1, <2>2 DEF RepFound
  <2>5. steady \cap PlanRows \subseteq seen
    BY <2>1, <2>2 DEF RepFound
  <2> HIDE DEF seen, gone
  <2>6. ReplicationTypeOK'
    BY <1>1, <2>1, <2>3, <2>4 DEF Goes, world, ReplicationTypeOK, QueryEnded
  <2>7. AnswersTrue'
    BY <2>1, <2>3, <2>4 DEF Goes, world, AnswersTrue
  <2>8. AnswersComplete'
    BY <2>1, <2>5 DEF Goes, world, AnswersComplete
  <2> QED
    BY <1>1, <2>1, <2>6, <2>7, <2>8 DEF Goes, world, RepTool, RepHistory,
       RepFound, NotFoundIsTrue
<1> QED
  BY <1>2, <1>3

\* The query for one plan.
LEMMA RepPlan ==
  ASSUME RepAssumed, RepInv, PlanQueried
  PROVE  RepInv'
<1> USE DEF RepInv
<1> DEFINE bare(r) == [r EXCEPT !.share = NoShare]
           rows == {bare(r) : r \in AskedPlan}
<1>1. /\ stage = "plan" /\ UNCHANGED failed /\ query.tool = "plan_status"
      /\ IF AskedPlan = {} THEN Goes("not_found", {}, {}) ELSE Goes("ok", rows, {})
  BY DEF PlanQueried, RepTool
<1>2. steady \cap PlanRows \subseteq plans
  BY RowsApart DEF RepHistory, ReplicationTypeOK
<1>3. CASE AskedPlan = {}
  <2>1. \A r \in steady \cap PlanRows : r.plan # query.plan
    BY <1>1, <1>2, <1>3 DEF AskedPlan
  <2> QED
    BY <1>1, <1>3, <2>1 DEF Goes, world, ReplicationTypeOK, QueryEnded, RepTool,
       RepHistory, RepFound, AnswersTrue, AnswersComplete, NotFoundIsTrue
<1>4. CASE AskedPlan # {}
  <2>1. AskedPlan \subseteq plans
    BY DEF AskedPlan
  <2>2. \A r \in AskedPlan :
        bare(r) \in PlanRows /\ bare(r).plan = r.plan /\ bare(r).share = NoShare
    BY <2>1, Shareless DEF ReplicationTypeOK
  <2> HIDE DEF bare
  <2>3. \A q \in rows : /\ q \in PlanRows /\ q.share = NoShare
                        /\ \E e \in ever \cap PlanRows : e.plan = q.plan
    BY <1>1, <2>1, <2>2 DEF RepHistory, ReplicationTypeOK
  <2> HIDE DEF rows
  <2> QED
    BY <1>1, <1>4, <2>3 DEF Goes, world, ReplicationTypeOK, QueryEnded, RepTool,
       RepHistory, RepFound, AnswersTrue, AnswersComplete, NotFoundIsTrue
<1> QED
  BY <1>3, <1>4

\* The queries for the activity.
LEMMA RepActivity ==
  ASSUME RepAssumed, RepInv, ReplicasQueried \/ SizesQueried
  PROVE  RepInv'
<1> USE DEF RepInv
<1>1. UNCHANGED failed /\ query.tool = "recent_activity" /\ query.limit \in Nat
  BY DEF RepAssumed, ReplicasQueried, SizesQueried, RepTool, ReplicationTypeOK, Queries
<1>2. CASE ReplicasQueried
  <2>1. stage = "replicas" /\ Goes("sizes", OfKind("plan_status"), {})
    BY <1>2 DEF ReplicasQueried
  <2>2. /\ OfKind("plan_status") \subseteq ever \cap EventRows
        /\ \A e \in steady \cap EventRows :
             e.kind = "plan_status" => e \in OfKind("plan_status")
    BY <2>1, RowsApart DEF OfKind, RepHistory, ReplicationTypeOK
  <2> QED
    BY <1>1, <2>1, <2>2 DEF Goes, world, ReplicationTypeOK, QueryEnded, RepTool,
       RepHistory, RepFound, AnswersTrue, AnswersComplete, NotFoundIsTrue
<1>3. CASE SizesQueried
  <2> DEFINE sizes == OfKind("size_calculate")
  <2>1. PICK rows \in Limited(reply, sizes) : Goes("ok", rows, {})
    BY <1>3 DEF SizesQueried
  <2>2. stage = "sizes" /\ sizes \subseteq activity /\ reply \subseteq ever \cap EventRows
    BY <1>3 DEF SizesQueried, OfKind, RepFound
  <2>3. reply \cup sizes \subseteq ever \cap EventRows
    BY <2>2 DEF RepHistory, ReplicationTypeOK
  <2>4. /\ rows \subseteq reply \cup sizes
        /\ Cardinality(rows) <= query.limit
        /\ Cardinality(rows) < query.limit => rows = reply \cup sizes
    <3>1. IsFiniteSet(reply \cup sizes)
      BY <2>3, EventsFinite DEF RepAssumed
    <3> QED
      BY <1>1, <2>1, <3>1, LimitedRows
  <2>5. "failed" \in warned \/ steady \cap EventRows \subseteq reply \cup sizes
    <3>1. steady \cap EventRows \subseteq activity
      BY RowsApart DEF RepHistory, ReplicationTypeOK
    <3> QED
      BY <2>2, <3>1, RowsApart DEF RepFound, OfKind
  <2> HIDE DEF sizes
  <2>6. ReplicationTypeOK'
    BY <1>1, <2>1, <2>3, <2>4 DEF Goes, world, ReplicationTypeOK, QueryEnded
  <2>7. AnswersTrue' /\ AnswersComplete'
    BY <1>1, <2>1, <2>3, <2>4, <2>5 DEF Goes, world, AnswersTrue,
       AnswersComplete
  <2> QED
    BY <1>1, <2>1, <2>2, <2>6, <2>7 DEF Goes, world, RepTool, RepHistory,
       RepFound, NotFoundIsTrue
<1> QED
  BY <1>2, <1>3

\* A query fails: what is left out is warned of.
LEMMA RepFail ==
  ASSUME RepAssumed, RepInv, QueryFails
  PROVE  RepInv'
<1> USE DEF RepInv
<1>1. failed' = TRUE
  BY DEF QueryFails
<1>2. CASE stage \in {"plans", "plan", "replicas"}
  <2>1. \/ stage = "plans" /\ Goes("ok", {}, {"failed"})
        \/ stage = "plan" /\ Goes("not_found", {}, {"failed"})
        \/ stage = "replicas" /\ Goes("sizes", {}, {"failed"})
    BY <1>2 DEF QueryFails
  <2> QED
    BY <1>1, <2>1 DEF Goes, world, ReplicationTypeOK, QueryEnded, RepTool, RepHistory,
       RepFound, AnswersTrue, AnswersComplete, NotFoundIsTrue
<1>3. CASE stage = "shares"
  <2>1. Goes("ok", reply, {"failed"})
    BY <1>3 DEF QueryFails
  <2> QED
    BY <1>1, <1>3, <2>1 DEF Goes, world, ReplicationTypeOK, QueryEnded, RepTool,
       RepHistory, RepFound, AnswersTrue, AnswersComplete, NotFoundIsTrue
<1>4. CASE stage = "sizes"
  <2>1. PICK rows \in Limited(reply, {}) : Goes("ok", rows, {"failed"})
    BY <1>4 DEF QueryFails
  <2>2. query.tool = "recent_activity" /\ query.limit \in Nat
    BY <1>4 DEF RepAssumed, RepTool, ReplicationTypeOK, Queries
  <2>3. reply \subseteq ever \cap EventRows
    BY <1>4 DEF RepFound
  <2>4. rows \subseteq reply
    <3>1. IsFiniteSet(reply \cup {})
      BY <2>3, EventsFinite DEF RepAssumed
    <3> QED
      BY <2>1, <2>2, <3>1, LimitedRows
  <2> QED
    BY <1>1, <1>4, <2>1, <2>2, <2>3, <2>4 DEF Goes, world, ReplicationTypeOK,
       QueryEnded, RepTool, RepHistory, RepFound, AnswersTrue, AnswersComplete,
       NotFoundIsTrue
<1> QED
  BY <1>2, <1>3, <1>4 DEF QueryFails

\* The call begins, or DSM changes: what has been there all the time gets less,
\* what has been there at some moment gets more.
LEMMA RepWorld ==
  ASSUME RepAssumed, RepInv, QueryBegins \/ Change \/ Hydrate
  PROVE  RepInv'
<1> USE DEF RepInv
<1>1. CASE QueryBegins
  BY <1>1 DEF QueryBegins, world, ReplicationTypeOK, QueryEnded, RepTool, RepHistory,
     RepFound, AnswersTrue, AnswersComplete, NotFoundIsTrue
<1>2. CASE Hydrate
  BY <1>2 DEF Hydrate, ReplicationTypeOK, QueryEnded, RepTool, RepHistory, RepFound,
     AnswersTrue, AnswersComplete, NotFoundIsTrue
<1>3. CASE Change
  <2>1. plans' \subseteq PlanRows /\ activity' \subseteq EventRows
    <3>1. CASE \E p \in Plans, S \in SUBSET (Shares \cup {NoShare}) :
                 /\ plans' = {r \in plans : r.plan # p} \cup {[plan |-> p, share |-> s] : s \in S}
                 /\ UNCHANGED activity
      BY <3>1 DEF ReplicationTypeOK, PlanRows
    <3>2. CASE \E e \in EventRows :
                 activity' \in {activity \cup {e}, activity \ {e}} /\ UNCHANGED plans
      BY <3>2 DEF ReplicationTypeOK
    <3> QED
      BY <1>3, <3>1, <3>2 DEF Change
  <2>2. /\ ever'   = ever \cup plans' \cup activity'
        /\ steady' = steady \cap (plans' \cup activity')
        /\ UNCHANGED <<hydrated, query, stage, reply, warned, failed>>
        /\ changes' \in 0..MaxChanges
    BY <1>3 DEF RepAssumed, Change, ReplicationTypeOK
  <2>3. ever \subseteq ever' /\ steady' \subseteq steady
    BY <2>2
  <2>4. ReplicationTypeOK'
    BY <2>1, <2>2 DEF ReplicationTypeOK
  <2>5. RepTool' /\ RepHistory'
    BY <2>2 DEF RepTool, RepHistory
  <2>6. RepFound'
    BY <2>2, <2>3 DEF RepFound
  <2>7. AnswersTrue'
    BY <2>2, <2>3 DEF AnswersTrue
  <2>8. AnswersComplete' /\ NotFoundIsTrue'
    BY <2>2, <2>3 DEF AnswersComplete, NotFoundIsTrue
  <2> QED
    BY <2>4, <2>5, <2>6, <2>7, <2>8
<1> QED
  BY <1>1, <1>2, <1>3

\* IInv is inductive.
LEMMA RepNext == ASSUME RepAssumed PROVE RepInv /\ [ReplicationNext]_replicationVars => RepInv'
<1> SUFFICES ASSUME RepInv, [ReplicationNext]_replicationVars PROVE RepInv'
  OBVIOUS
<1>1. CASE UNCHANGED replicationVars
  BY <1>1 DEF replicationVars, world, RepInv, ReplicationTypeOK, RepTool, RepHistory, RepFound,
     AnswersTrue, AnswersComplete, NotFoundIsTrue
<1>2. CASE ReplicationNext
  BY <1>2, RepWeb, RepPlans, RepPlan, RepActivity, RepFail, RepWorld DEF ReplicationNext
<1> QED
  BY <1>1, <1>2

\* So it always holds.
LEMMA RepAlways == ReplicationSpec => []RepInv
<1>1. RepAssumed
  BY ReplicasAssumption, LimitsAssumption, MaxChangesAssumption DEF RepAssumed
<1>2. ReplicationInit => RepInv
  BY <1>1, RepInit
<1>3. RepInv /\ [ReplicationNext]_replicationVars => RepInv'
  BY <1>1, RepNext
<1> QED
  BY <1>2, <1>3, PTL DEF ReplicationSpec

\* Types of the three replication tools and of DSM's tables.
THEOREM ReplicationTyped == ReplicationSpec => []ReplicationTypeOK
<1>1. RepInv => ReplicationTypeOK
  BY DEF RepInv
<1> QED
  BY <1>1, RepAlways, PTL

\* Whatever the replication tools report was there while the call ran, whether DSM's
\* web API has told it or one of the database queries, and however plans and replicas
\* change between the two.
THEOREM ReplicationAlwaysTrue == ReplicationSpec => []AnswersTrue
<1>1. RepInv => AnswersTrue
  BY DEF RepInv
<1> QED
  BY <1>1, RepAlways, PTL

\* What was there all the time is reported by a list without a warning of a failure,
\* and by an activity that has not reached its limit.
THEOREM ReplicationAlwaysComplete == ReplicationSpec => []AnswersComplete
<1>1. RepInv => AnswersComplete
  BY DEF RepInv
<1> QED
  BY <1>1, RepAlways, PTL

\* "Not found" is true of a plan at some moment of the call, unless a query failed.
THEOREM ReplicationNotFoundTrue == ReplicationSpec => []NotFoundIsTrue
<1>1. RepInv => NotFoundIsTrue
  BY DEF RepInv
<1> QED
  BY <1>1, RepAlways, PTL

-------------------------------------------------------------------------------
(* Network                                                                 *)

\* What is to be shown of i is what i was, or there is a reason.
Told(i) ==
    /\ <<i, "operstate">> \notin unread =>
         \E l \in been[i] : got[i].state = IF l.state = "up" THEN "up" ELSE "down"
    /\ <<i, "speed">> \notin unread =>
         \E l \in been[i] :
             \/ got[i].speed = l.speed
             \/ l.speed = Negative /\ got[i].speed \in {web[i].speed, Absent}
    /\ got[i].speed # Absent /\ web[i].speed \notin {Absent, got[i].speed} => i \in flagged

\* The links that there are, have been there; every interface whose files have been
\* read is told of, and at the end these are those that are shown.
NetReading ==
    /\ step # "new" => \A i \in Nics : link[i] \in been[i]
    /\ step = "sysfs" => \A i \in Nics \ todo : Told(i)
    /\ step = "ethtool" => request.tool = "get" /\ request.name \in Nics /\ \A i \in Nics : Told(i)
    /\ step = "ok" /\ ~ dropped => \A i \in Shown : i \in Nics /\ Told(i)

\* The inductive invariant.
NetInv == NetworkTypeOK /\ NetReading

\* The start: nothing has been read.
LEMMA NetInit == ASSUME MaxFlips \in Nat PROVE NetworkInit => NetInv
<1> SUFFICES ASSUME NetworkInit PROVE NetInv
  OBVIOUS
<1>1. [i \in Nics |-> Unknown] \in [Nics -> Views]
  BY DEF Unknown, Views, States
<1>2. flips \in 0..MaxFlips
  BY DEF NetworkInit
<1>3. /\ web \in [Nics -> Views] /\ got \in [Nics -> Views]
      /\ been \in [Nics -> SUBSET Links]
  BY <1>1 DEF NetworkInit
<1> QED
  BY <1>2, <1>3 DEF NetworkInit, NetInv, NetworkTypeOK, NetReading

\* What sysfs has told of i goes into the view of i, and of no other.
LEMMA NetSysfs ==
  ASSUME NetInv, NEW i \in Nics, SysfsRead(i)
  PROVE  NetInv'
<1>1. PICK read \in SUBSET SysfsFields :
        LET s == [f \in read |-> IF f = "speed" THEN link[i].speed ELSE link[i].state]
        IN  /\ got'    = [got EXCEPT ![i] = MergedIface(web[i], s)]
            /\ flagged' = IF Mismatch(web[i], s) THEN flagged \cup {i} ELSE flagged
            /\ unread' = unread \cup ({i} \X (SysfsFields \ read))
  BY DEF SysfsRead
<1> DEFINE s == [f \in read |-> IF f = "speed" THEN link[i].speed ELSE link[i].state]
<1>2. /\ got'    = [got EXCEPT ![i] = MergedIface(web[i], s)]
      /\ flagged' = IF Mismatch(web[i], s) THEN flagged \cup {i} ELSE flagged
      /\ unread' = unread \cup ({i} \X (SysfsFields \ read))
      /\ step = "sysfs" /\ step' = "sysfs" /\ todo' = todo \ {i}
      /\ UNCHANGED <<link, flips, request, web, been, dropped>>
  BY <1>1 DEF SysfsRead, outside
<1>3. /\ "operstate" \in read => s["operstate"] = link[i].state
      /\ "speed" \in read => s["speed"] = link[i].speed
      /\ DOMAIN s = read
  OBVIOUS
<1>4. link[i] \in Links /\ link[i] \in been[i] /\ web[i] \in Views
  BY <1>2 DEF NetInv, NetworkTypeOK, NetReading
<1> HIDE DEF s
<1>5. MergedIface(web[i], s) \in Views
  BY <1>3, <1>4 DEF MergedIface, Links, Views, States
<1>6. NetworkTypeOK'
  <2>1. got' \in [Nics -> Views]
    BY <1>2, <1>5 DEF NetInv, NetworkTypeOK
  <2>2. unread' \subseteq Nics \X SysfsFields /\ flagged' \subseteq Nics
    BY <1>2 DEF NetInv, NetworkTypeOK
  <2> QED
    BY <1>2, <2>1, <2>2 DEF NetInv, NetworkTypeOK
<1>7. got'[i] = MergedIface(web[i], s) /\ \A j \in Nics \ {i} : got'[j] = got[j]
  BY <1>2 DEF NetInv, NetworkTypeOK
<1>8. Told(i)'
  <2>1. <<i, "operstate">> \notin unread' =>
          got'[i].state = IF link[i].state = "up" THEN "up" ELSE "down"
    BY <1>2, <1>3, <1>7 DEF MergedIface, SysfsFields
  <2>2. <<i, "speed">> \notin unread' =>
          \/ got'[i].speed = link[i].speed
          \/ link[i].speed = Negative /\ got'[i].speed \in {web[i].speed, Absent}
    <3>1. link[i].speed \in Speeds \/ link[i].speed = Negative
      BY <1>4 DEF Links
    <3> QED
      BY <1>2, <1>3, <1>7, <3>1, NegativeAssumption DEF MergedIface, SysfsFields
  <2>3. got'[i].speed # Absent /\ web[i].speed \notin {Absent, got'[i].speed} => i \in flagged'
    BY <1>2, <1>3, <1>7 DEF MergedIface, Mismatch
  <2> QED
    BY <1>2, <1>4, <2>1, <2>2, <2>3 DEF Told
<1>9. \A j \in Nics \ {i} : Told(j) => Told(j)'
  BY <1>2, <1>7 DEF Told
<1>10. \A j \in Nics \ todo' : Told(j)'
  BY <1>2, <1>8, <1>9 DEF NetInv, NetReading
<1> QED
  BY <1>2, <1>6, <1>10 DEF NetInv, NetReading

\* The other steps of the call; the last one drops the warnings of the interfaces
\* that were not asked for.
LEMMA NetCall ==
  ASSUME NetInv,
         \/ ReadBegins \/ SystemAnswered \/ WebAnswered \/ Raises
         \/ SysfsOver \/ EthtoolOver
  PROVE  NetInv'
<1> USE DEF NetInv
<1>1. CASE ReadBegins
  <2>1. been' \in [Nics -> SUBSET Links]
    BY <1>1 DEF ReadBegins, NetworkTypeOK
  <2> QED
    BY <1>1, <2>1 DEF ReadBegins, outside, NetworkTypeOK, NetReading
<1>2. CASE SystemAnswered
  BY <1>2 DEF SystemAnswered, outside, NetworkTypeOK, NetReading
<1>3. CASE WebAnswered
  <2>1. \A l \in Links : WebViews(l) \subseteq Views
    BY DEF Links, WebViews, Views, States
  <2>2. web' \in [Nics -> Views]
    BY <1>3, <2>1 DEF WebAnswered
  <2> QED
    BY <1>3, <2>2 DEF WebAnswered, outside, NetworkTypeOK, NetReading
<1>4. CASE Raises
  BY <1>4 DEF Raises, outside, NetworkTypeOK, NetReading
<1>5. CASE SysfsOver
  <2>1. /\ step = "sysfs" /\ todo = {}
        /\ UNCHANGED <<link, flips, request, web, todo, got, flagged, been, unread, dropped>>
        /\ \/ step' = "ok" /\ request.tool # "get"
           \/ step' = "error"
           \/ step' = "ethtool" /\ request.tool = "get" /\ request.name # Absent
    BY <1>5 DEF SysfsOver, outside
  <2>2. request.tool = "get" /\ request.name # Absent => request.name \in Nics
    BY DEF NetworkTypeOK, Requests
  <2>3. \A i \in Nics : Told(i)'
    BY <2>1 DEF NetReading, Told
  <2> QED
    BY <2>1, <2>2, <2>3 DEF NetworkTypeOK, NetReading, Shown
<1>6. CASE EthtoolOver
  <2>1. /\ step = "ethtool" /\ step' = "ok" /\ flagged' = flagged \cap {request.name}
        /\ UNCHANGED <<link, flips, request, web, todo, got, been, unread, dropped>>
        /\ request.tool = "get" /\ request.name \in Nics /\ Told(request.name)
    BY <1>6 DEF EthtoolOver, outside, NetReading
  <2>2. Told(request.name)'
    BY <2>1 DEF Told
  <2> QED
    BY <2>1, <2>2 DEF NetworkTypeOK, NetReading, Shown
<1> QED
  BY <1>1, <1>2, <1>3, <1>4, <1>5, <1>6

\* A link that changes takes nothing back.
LEMMA NetWorld ==
  ASSUME MaxFlips \in Nat, NetInv, LinkChanges
  PROVE  NetInv'
<1> USE DEF NetInv
<1>1. PICK i \in Nics, l \in Links : link' = [link EXCEPT ![i] = l]
  BY DEF LinkChanges
<1>2. /\ flips' \in 0..MaxFlips
      /\ been' = [j \in Nics |-> IF step = "new" THEN {} ELSE been[j] \cup {link'[j]}]
      /\ UNCHANGED <<request, step, web, todo, got, flagged, unread, dropped>>
  BY DEF LinkChanges, NetworkTypeOK
<1>3. link' \in [Nics -> Links] /\ been' \in [Nics -> SUBSET Links]
  BY <1>1, <1>2 DEF NetworkTypeOK
<1>4. step # "new" => \A j \in Nics : link'[j] \in been'[j] /\ been[j] \subseteq been'[j]
  BY <1>2
<1>5. step # "new" => \A j \in Nics : Told(j) => Told(j)'
  BY <1>2, <1>4 DEF Told
<1>6. Shown' = Shown
  BY <1>2 DEF Shown
<1> QED
  BY <1>2, <1>3, <1>4, <1>5, <1>6 DEF NetworkTypeOK, NetReading

\* IInv is inductive.
LEMMA NetNext == ASSUME MaxFlips \in Nat PROVE NetInv /\ [NetworkNext]_networkVars => NetInv'
<1> SUFFICES ASSUME NetInv, [NetworkNext]_networkVars PROVE NetInv'
  OBVIOUS
<1>1. CASE UNCHANGED networkVars
  BY <1>1 DEF networkVars, outside, NetInv, NetworkTypeOK, NetReading, Told, Shown
<1>2. CASE NetworkNext
  BY <1>2, NetSysfs, NetCall, NetWorld DEF NetworkNext
<1> QED
  BY <1>1, <1>2

\* So it always holds.
LEMMA NetAlways == NetworkSpec => []NetInv
<1>1. NetworkInit => NetInv
  BY NetInit, MaxFlipsAssumption
<1>2. NetInv /\ [NetworkNext]_networkVars => NetInv'
  BY NetNext, MaxFlipsAssumption
<1> QED
  BY <1>1, <1>2, PTL DEF NetworkSpec

\* As far as sysfs told, what a network tool, or raid_hardware_info, shows is so of the
\* link at some moment of the call: up or not, and its speed.  A link without a speed is
\* shown with none, or with the web API's.
THEOREM LinkAlwaysTrue == NetworkSpec => []LinkTrue
<1>1. NetInv => LinkTrue
  BY DEF NetInv, NetReading, Told, Shown, LinkTrue
<1> QED
  BY <1>1, NetAlways, PTL

\* A speed that is shown against what the web API said has a warning.
THEOREM MismatchAlwaysTold == NetworkSpec => []MismatchTold
<1>1. NetInv => MismatchTold
  BY DEF NetInv, NetReading, Told, Shown, MismatchTold
<1> QED
  BY <1>1, NetAlways, PTL

-------------------------------------------------------------------------------
(* raid_state: sequences that are joined                                   *)

\* The order of the naturals, as a relation.
NatLess == OpToRel(<, Nat)

\* Every set of naturals that is not empty has a least member.
LEMMA NatLeast ==
  ASSUME NEW S, S \subseteq Nat, S # {}
  PROVE  \E x \in S : \A y \in S : ~ (y < x)
<1>1. NatLess = {ss \in Nat \X Nat : ss[1] < ss[2]}
  BY Zenon DEF NatLess, OpToRel
<1>2. IsWellFoundedOn(NatLess, Nat)
  BY Zenon, NatLessThanWellFounded DEF NatLess
<1>3. PICK x \in S : \A y \in S : ~ (<<y, x>> \in NatLess)
  BY <1>2, WFMin
<1> QED
  BY <1>1, <1>3

\* Induction over the naturals, with a set for the predicate.
LEMMA NatInductionSet ==
  ASSUME NEW S, 0 \in S, \A n \in Nat : n \in S => n + 1 \in S
  PROVE  Nat \subseteq S
<1> SUFFICES ASSUME NEW m \in Nat, m \notin S PROVE FALSE
  OBVIOUS
<1> DEFINE T == {n \in Nat : n \notin S}
<1>1. PICK x \in T : \A y \in T : ~ (y < x)
  BY NatLeast
<1>2. x # 0 /\ x - 1 \in Nat /\ x - 1 \notin T
  BY <1>1
<1> QED
  BY <1>2

\* What Joined is computed with.
Joins(f, m, j) ==
    j = [n \in 0..m |-> IF n = 0 THEN <<>> ELSE j[n - 1] \o (IF n \in DOMAIN f THEN f[n] ELSE <<>>)]

\* There is such a function for every length, so CHOOSE finds one.
LEMMA JoinsExist == ASSUME NEW f PROVE \A m \in Nat : \E j : Joins(f, m, j)
<1> DEFINE S == {m \in Nat : \E j : Joins(f, m, j)}
<1>1. 0 \in S
  <2> DEFINE j == [n \in 0..0 |-> <<>>]
  <2>1. Joins(f, 0, j)
    BY DEF Joins
  <2> QED
    BY <2>1
<1>2. ASSUME NEW m \in Nat, m \in S PROVE m + 1 \in S
  <2>1. PICK j : Joins(f, m, j)
    BY <1>2
  <2> DEFINE last == j[m] \o (IF m + 1 \in DOMAIN f THEN f[m + 1] ELSE <<>>)
             k == [n \in 0..m + 1 |-> IF n = m + 1 THEN last ELSE j[n]]
  <2>2. \A n \in 0..m : j[n] = IF n = 0 THEN <<>>
                               ELSE j[n - 1] \o (IF n \in DOMAIN f THEN f[n] ELSE <<>>)
    BY <2>1 DEF Joins
  <2>3. \A n \in 0..m + 1 : k[n] = IF n = 0 THEN <<>>
                                   ELSE k[n - 1] \o (IF n \in DOMAIN f THEN f[n] ELSE <<>>)
    BY <2>2
  <2>4. Joins(f, m + 1, k)
    BY <2>3 DEF Joins
  <2> QED
    BY <2>4
<1> HIDE DEF S
<1>3. Nat \subseteq S
  BY <1>1, <1>2, NatInductionSet
<1> QED
  BY <1>3 DEF S

\* Joined is the last value of such a function.
LEMMA JoinedIs ==
  ASSUME NEW f, NEW m \in Nat
  PROVE  \E j : Joins(f, m, j) /\ Joined(f, m) = j[m]
<1> DEFINE g == CHOOSE j : Joins(f, m, j)
<1>1. Joins(f, m, g)
  BY JoinsExist
<1>2. Joined(f, m) = g[m]
  BY DEF Joined, Joins
<1> QED
  BY <1>1, <1>2

\* Two such functions agree, as far as both go and what they join agrees.
LEMMA JoinsAgree ==
  ASSUME NEW f, NEW g, NEW m \in Nat, NEW k \in Nat, NEW i, NEW j,
         Joins(f, m, i), Joins(g, k, j),
         \A n \in 1..m : /\ n \in DOMAIN f <=> n \in DOMAIN g
                         /\ n \in DOMAIN f => f[n] = g[n],
         m <= k
  PROVE  i[m] = j[m]
<1>1. \A n \in 0..m : i[n] = IF n = 0 THEN <<>>
                             ELSE i[n - 1] \o (IF n \in DOMAIN f THEN f[n] ELSE <<>>)
  BY DEF Joins
<1>2. \A n \in 0..k : j[n] = IF n = 0 THEN <<>>
                             ELSE j[n - 1] \o (IF n \in DOMAIN g THEN g[n] ELSE <<>>)
  BY DEF Joins
<1> DEFINE S == {n \in Nat : n <= m => i[n] = j[n]}
<1>3. 0 \in S
  BY <1>1, <1>2
<1>4. ASSUME NEW n \in Nat, n \in S PROVE n + 1 \in S
  <2> SUFFICES ASSUME n + 1 <= m PROVE i[n + 1] = j[n + 1]
    OBVIOUS
  <2>1. /\ n + 1 \in 1..m /\ n + 1 \in 0..m /\ n + 1 \in 0..k
        /\ n + 1 # 0 /\ (n + 1) - 1 = n /\ i[n] = j[n]
    BY <1>4
  <2>2. i[n + 1] = i[n] \o (IF n + 1 \in DOMAIN f THEN f[n + 1] ELSE <<>>)
    BY <1>1, <2>1
  <2>3. j[n + 1] = j[n] \o (IF n + 1 \in DOMAIN g THEN g[n + 1] ELSE <<>>)
    BY <1>2, <2>1
  <2> QED
    BY <2>1, <2>2, <2>3
<1> HIDE DEF S
<1>5. Nat \subseteq S
  BY <1>3, <1>4, NatInductionSet
<1> QED
  BY <1>5 DEF S

\* So Joined depends on what it joins, and on nothing else.
LEMMA JoinedAgree ==
  ASSUME NEW f, NEW g, NEW m \in Nat,
         \A n \in 1..m : /\ n \in DOMAIN f <=> n \in DOMAIN g
                         /\ n \in DOMAIN f => f[n] = g[n]
  PROVE  Joined(f, m) = Joined(g, m)
<1>1. PICK i : Joins(f, m, i) /\ Joined(f, m) = i[m]
  BY JoinedIs
<1>2. PICK j : Joins(g, m, j) /\ Joined(g, m) = j[m]
  BY JoinedIs
<1>3. i[m] = j[m]
  BY <1>1, <1>2, JoinsAgree
<1> QED
  BY <1>1, <1>2, <1>3

\* Nothing is joined; one more is.
LEMMA JoinedNext ==
  ASSUME NEW f
  PROVE  /\ Joined(f, 0) = <<>>
         /\ \A m \in Nat : Joined(f, m + 1) =
              Joined(f, m) \o (IF m + 1 \in DOMAIN f THEN f[m + 1] ELSE <<>>)
<1>1. Joined(f, 0) = <<>>
  <2>1. PICK j : Joins(f, 0, j) /\ Joined(f, 0) = j[0]
    BY JoinedIs
  <2> QED
    BY <2>1 DEF Joins
<1>2. ASSUME NEW m \in Nat
      PROVE  Joined(f, m + 1) = Joined(f, m) \o (IF m + 1 \in DOMAIN f THEN f[m + 1] ELSE <<>>)
  <2>1. PICK i : Joins(f, m, i) /\ Joined(f, m) = i[m]
    BY JoinedIs
  <2>2. PICK j : Joins(f, m + 1, j) /\ Joined(f, m + 1) = j[m + 1]
    BY JoinedIs
  <2>3. i[m] = j[m]
    BY <2>1, <2>2, JoinsAgree
  <2>4. j[m + 1] = j[m] \o (IF m + 1 \in DOMAIN f THEN f[m + 1] ELSE <<>>)
    <3>1. \A n \in 0..m + 1 : j[n] = IF n = 0 THEN <<>>
                                     ELSE j[n - 1] \o (IF n \in DOMAIN f THEN f[n] ELSE <<>>)
      BY <2>2 DEF Joins
    <3>2. m + 1 \in 0..m + 1 /\ m + 1 # 0 /\ (m + 1) - 1 = m
      OBVIOUS
    <3> QED
      BY <3>1, <3>2, Zenon
  <2> QED
    BY <2>1, <2>2, <2>3, <2>4
<1> QED
  BY <1>1, <1>2

\* Sequences over a set make one.
LEMMA JoinedTyped ==
  ASSUME NEW L, NEW f, \A n \in DOMAIN f : f[n] \in Seq(L)
  PROVE  \A m \in Nat : Joined(f, m) \in Seq(L)
<1> DEFINE S == {m \in Nat : Joined(f, m) \in Seq(L)}
<1>1. 0 \in S
  BY JoinedNext, EmptySeq
<1>2. ASSUME NEW m \in Nat, m \in S PROVE m + 1 \in S
  <2> DEFINE x == IF m + 1 \in DOMAIN f THEN f[m + 1] ELSE <<>>
  <2>1. x \in Seq(L)
    BY EmptySeq
  <2>2. Joined(f, m + 1) = Joined(f, m) \o x
    BY JoinedNext
  <2> HIDE DEF x
  <2>3. Joined(f, m) \o x \in Seq(L)
    BY <1>2, <2>1
  <2>4. Joined(f, m + 1) \in Seq(L)
    BY <2>2, <2>3, Zenon
  <2> QED
    BY <2>4
<1> HIDE DEF S
<1>3. Nat \subseteq S
  BY <1>1, <1>2, NatInductionSet
<1> QED
  BY <1>3 DEF S

\* One that joins single values, each at its place, is the sequence of them.
LEMMA JoinedSingles ==
  ASSUME NEW L, NEW s \in Seq(L), NEW f, DOMAIN f = 1..Len(s),
         \A n \in 1..Len(s) : f[n] = <<s[n]>>
  PROVE  Joined(f, Len(s)) = s
<1> DEFINE S == {m \in Nat : m <= Len(s) => Joined(f, m) = SubSeq(s, 1, m)}
<1>0. Len(s) \in Nat
  OBVIOUS
<1>1. 0 \in S
  <2>1. SubSeq(s, 1, 0) = <<>>
    OBVIOUS
  <2> QED
    BY <2>1, JoinedNext
<1>2. ASSUME NEW m \in Nat, m \in S PROVE m + 1 \in S
  <2> SUFFICES ASSUME m + 1 <= Len(s) PROVE Joined(f, m + 1) = SubSeq(s, 1, m + 1)
    OBVIOUS
  <2>1. m + 1 \in 1..Len(s) /\ s[m + 1] \in L
    BY <1>0
  <2>2. Joined(f, m + 1) = SubSeq(s, 1, m) \o <<s[m + 1]>>
    <3>1. Joined(f, m) = SubSeq(s, 1, m)
      BY <1>2, <2>1
    <3>2. f[m + 1] = <<s[m + 1]>> /\ m + 1 \in DOMAIN f
      BY <2>1
    <3> QED
      BY <3>1, <3>2, JoinedNext, Zenon
  <2>3. SubSeq(s, 1, m) \o <<s[m + 1]>> = SubSeq(s, 1, m + 1)
    BY <2>1
  <2> QED
    BY <2>2, <2>3
<1> HIDE DEF S
<1>3. Nat \subseteq S
  BY <1>1, <1>2, NatInductionSet
<1>4. Joined(f, Len(s)) = SubSeq(s, 1, Len(s))
  BY <1>0, <1>3 DEF S
<1>5. SubSeq(s, 1, Len(s)) = s
  OBVIOUS
<1> QED
  BY <1>4, <1>5
-------------------------------------------------------------------------------
(* raid_state: the lines of an array                                       *)

MemberWords == [text : DiskNames, member : {TRUE}, marks : Marks]

Moves(a) == a.run = "active" /\ a.sync # "none"

HeadWords(a) ==
    <<Word(a.run)>>
    \o (IF a.run = "active"
          THEN (IF a.ro THEN <<Word("(auto-read-only)")>> ELSE <<>>) \o <<Word(a.level)>>
          ELSE <<>>)
    \o a.members

StatusOf(a) ==
    IF a.run = "active" /\ a.level \in Redundant THEN IF a.short THEN "U_" ELSE "UU" ELSE "none"

\* What lines there are.
MdLines == {ArrayLines(a)[n] : a \in KernelArrays, n \in 1..4}

\* An array has three lines, or four while an action runs on it or waits.
LEMMA LinesOf ==
  ASSUME NEW a \in KernelArrays
  PROVE  LET t == ArrayLines(a) IN
         /\ t \in Seq(MdLines)
         /\ Len(t) = IF Moves(a) THEN 4 ELSE 3
         /\ t[1] = Header(a.dev, HeadWords(a))
         /\ t[2] = Blocks(StatusOf(a))
         /\ Moves(a) => t[3] = Sync(a.sync, a.delayed) /\ t[4] = Blank
         /\ ~ Moves(a) => t[3] = Blank
<1> DEFINE t == ArrayLines(a)
           h == Header(a.dev, HeadWords(a))
           b == Blocks(StatusOf(a))
           y == Sync(a.sync, a.delayed)
<1>2. t = IF Moves(a) THEN <<h, b, y, Blank>> ELSE <<h, b, Blank>>
  BY DEF ArrayLines, HeadWords, StatusOf, Moves
<1> HIDE DEF t, h, b, y
<1>3. \A n \in 1..4 : t[n] \in MdLines
  BY DEF MdLines, t
<1>4. CASE Moves(a)
  <2>1. t[1] = h /\ t[2] = b /\ t[3] = y /\ t[4] = Blank
    BY <1>2, <1>4
  <2>2. <<h, b, y, Blank>> \in Seq(MdLines)
    BY <1>3, <2>1
  <2> QED
    BY <1>2, <1>4, <2>1, <2>2 DEF t, h, b, y
<1>5. CASE ~ Moves(a)
  <2>1. t[1] = h /\ t[2] = b /\ t[3] = Blank
    BY <1>2, <1>5
  <2>2. <<h, b, Blank>> \in Seq(MdLines)
    BY <1>3, <2>1
  <2> QED
    BY <1>2, <1>5, <2>1, <2>2 DEF t, h, b
<1> QED
  BY <1>4, <1>5

\* The words of its first line, with the disks at the end.
LEMMA WordsOf ==
  ASSUME NEW a \in KernelArrays
  PROVE  LET w == HeadWords(a) IN
         /\ a.members \in Seq(MemberWords) /\ Len(a.members) >= 1
         /\ w[1] = Word(a.run)
         /\ a.run = "inactive" => Len(w) = Len(a.members) + 1
         /\ a.run = "active" /\ ~ a.ro =>
              /\ Len(w) = Len(a.members) + 2
              /\ w[2] = Word(a.level) /\ w[3] = a.members[1]
              /\ SubSeq(w, 3, Len(w)) = a.members
         /\ a.run = "active" /\ a.ro =>
              /\ Len(w) = Len(a.members) + 3
              /\ w[2] = Word("(auto-read-only)") /\ w[3] = Word(a.level)
              /\ SubSeq(w, 4, Len(w)) = a.members
<1> DEFINE m == a.members
           w == HeadWords(a)
<1>1. m \in Seq(MemberWords) /\ m # <<>> /\ a.run \in {"active", "inactive"}
  BY DEF KernelArrays, MemberWords
<1>2. Len(m) \in Nat /\ Len(m) >= 1
  BY <1>1
<1>3. CASE a.run = "inactive"
  <2>1. w = <<Word(a.run)>> \o m
    BY <1>3 DEF HeadWords
  <2> HIDE DEF w, m
  <2>2. Len(w) = Len(m) + 1 /\ w[1] = Word(a.run)
    BY <1>1, <2>1
  <2> QED
    BY <1>1, <1>2, <1>3, <2>2 DEF w, m
<1>4. CASE a.run = "active" /\ ~ a.ro
  <2>1. w = <<Word(a.run), Word(a.level)>> \o m
    BY <1>4 DEF HeadWords
  <2> HIDE DEF w, m
  <2>2. /\ Len(w) = Len(m) + 2 /\ w[1] = Word(a.run) /\ w[2] = Word(a.level)
        /\ \A k \in 1..Len(m) : w[k + 2] = m[k]
    BY <1>1, <2>1
  <2>3. SubSeq(w, 3, Len(w)) = m /\ w[3] = m[1]
    BY <1>1, <1>2, <2>1, <2>2
  <2> QED
    BY <1>1, <1>2, <1>4, <2>2, <2>3 DEF w, m
<1>5. CASE a.run = "active" /\ a.ro
  <2>1. w = <<Word(a.run), Word("(auto-read-only)"), Word(a.level)>> \o m
    BY <1>5 DEF HeadWords
  <2> HIDE DEF w, m
  <2>2. /\ Len(w) = Len(m) + 3 /\ w[1] = Word(a.run)
        /\ w[2] = Word("(auto-read-only)") /\ w[3] = Word(a.level)
        /\ \A k \in 1..Len(m) : w[k + 3] = m[k]
    BY <1>1, <2>1
  <2>3. SubSeq(w, 4, Len(w)) = m
    BY <1>1, <1>2, <2>1, <2>2
  <2> QED
    BY <1>1, <1>2, <1>5, <2>2, <2>3 DEF w, m
<1> QED
  BY <1>1, <1>3, <1>4, <1>5

\* Its first line is a header, unless it is one that is left out; the others are none.
LEMMA HeaderIs ==
  ASSUME NEW a \in KernelArrays
  PROVE  LET t == ArrayLines(a) IN
         /\ IsHeader(t[1]) <=> ~ Omitted(a)
         /\ \A n \in 2..Len(t) : ~ IsHeader(t[n])
         /\ t[Len(t)] = Blank
         /\ t[1].kind # "blank" /\ t[2].kind # "blank" /\ (Moves(a) => t[3].kind # "blank")
<1> DEFINE t == ArrayLines(a)
<1>1. IsHeader(t[1]) <=> ~ Omitted(a)
  <2>1. t[1] = Header(a.dev, HeadWords(a))
    BY LinesOf
  <2>2. IsHeader(t[1]) <=> Len(HeadWords(a)) >= 3
    BY <2>1 DEF IsHeader, Header
  <2>3. a.run \in {"active", "inactive"} /\ a.ro \in BOOLEAN
    BY DEF KernelArrays
  <2>4. a.members \in Seq(MemberWords) /\ Len(a.members) >= 1
    BY WordsOf
  <2>5. Len(a.members) \in Nat
    BY <2>4
  <2> HIDE DEF t
  <2>6. CASE a.run = "inactive"
    <3>1. Len(HeadWords(a)) = Len(a.members) + 1
      BY <2>6, WordsOf
    <3> QED
      <4>1. ASSUME NEW n \in Nat, NEW w, n >= 1, w = n + 1 PROVE w >= 3 <=> n # 1
        BY <4>1
      <4>2. Len(HeadWords(a)) >= 3 <=> Len(a.members) # 1
        BY <2>4, <2>5, <3>1, <4>1, Zenon
      <4> QED
        BY <2>2, <2>6, <4>2 DEF Omitted
  <2>7. CASE a.run = "active"
    <3>1. Len(HeadWords(a)) = Len(a.members) + 2 \/ Len(HeadWords(a)) = Len(a.members) + 3
      BY <2>3, <2>7, WordsOf
    <3> QED
      BY <2>2, <2>4, <2>5, <2>7, <3>1 DEF Omitted
  <2> QED
    BY <2>3, <2>6, <2>7
<1>2. \A n \in 2..Len(t) : ~ IsHeader(t[n])
  <2>1. \A n \in 2..Len(t) : n = 2 \/ n = 3 \/ (n = 4 /\ Moves(a))
    <3>1. Len(t) = IF Moves(a) THEN 4 ELSE 3
      BY LinesOf
    <3> HIDE DEF t
    <3> QED
      BY <3>1
  <2>2. \A u, s, late : ~ IsHeader(Blocks(u)) /\ ~ IsHeader(Sync(s, late)) /\ ~ IsHeader(Blank)
    BY DEF IsHeader, Blocks, Sync, Blank
  <2> QED
    BY <2>1, <2>2, LinesOf
<1>3. t[Len(t)] = Blank
  <2>1. Len(t) = IF Moves(a) THEN 4 ELSE 3
    BY LinesOf
  <2>2. (Moves(a) => t[4] = Blank) /\ (~ Moves(a) => t[3] = Blank)
    BY LinesOf
  <2> HIDE DEF t
  <2> QED
    BY <2>1, <2>2
<1>4. t[1].kind # "blank" /\ t[2].kind # "blank" /\ (Moves(a) => t[3].kind # "blank")
  <2>1. /\ t[1] = Header(a.dev, HeadWords(a)) /\ t[2] = Blocks(StatusOf(a))
        /\ Moves(a) => t[3] = Sync(a.sync, a.delayed)
    BY LinesOf
  <2> HIDE DEF t
  <2> QED
    BY <2>1 DEF Header, Blocks, Sync
<1> QED
  BY <1>1, <1>2, <1>3, <1>4

\* A listing with one array more has its lines at the end.
LEMMA ListingNext ==
  ASSUME NEW list \in Seq(KernelArrays), NEW a \in KernelArrays
  PROVE  Listing(Append(list, a)) = Listing(list) \o ArrayLines(a)
<1> DEFINE more == Append(list, a)
           f == [i \in DOMAIN list |-> ArrayLines(list[i])]
           g == [i \in DOMAIN more |-> ArrayLines(more[i])]
           n == Len(list)
<1>1. /\ n \in Nat /\ DOMAIN list = 1..n /\ DOMAIN more = 1..n + 1 /\ Len(more) = n + 1
      /\ more[n + 1] = a /\ \A i \in 1..n : more[i] = list[i]
  OBVIOUS
<1>2. Listing(list) = Joined(f, n) /\ Listing(more) = Joined(g, n + 1)
  BY <1>1 DEF Listing
<1>3. \A i \in 1..n : i \in DOMAIN f /\ i \in DOMAIN g /\ f[i] = g[i]
  BY <1>1
<1>4. n + 1 \in DOMAIN g /\ g[n + 1] = ArrayLines(a)
  BY <1>1
<1> HIDE DEF more, f, g, n
<1>5. Joined(g, n) = Joined(f, n)
  BY <1>1, <1>3, JoinedAgree
<1>6. Joined(g, n + 1) = Joined(g, n) \o g[n + 1]
  BY <1>1, <1>4, JoinedNext
<1> QED
  BY <1>2, <1>4, <1>5, <1>6 DEF more

\* An array has lines, and the last of them is blank.
LEMMA ArrayEnds ==
  ASSUME NEW a \in KernelArrays
  PROVE  LET t == ArrayLines(a) IN
         t \in Seq(MdLines) /\ Len(t) \in Nat /\ Len(t) >= 3 /\ t[Len(t)] = Blank
<1>1. ArrayLines(a) \in Seq(MdLines) /\ (Len(ArrayLines(a)) = IF Moves(a) THEN 4 ELSE 3)
  BY LinesOf
<1>2. ArrayLines(a)[Len(ArrayLines(a))] = Blank
  BY HeaderIs
<1> QED
  BY <1>1, <1>2

\* So has a listing.
LEMMA ListingTyped ==
  ASSUME NEW list \in Seq(KernelArrays)
  PROVE  LET s == Listing(list) IN
         /\ s \in Seq(MdLines)
         /\ Len(s) > 0 => s[Len(s)] = Blank
<1> DEFINE f == [i \in DOMAIN list |-> ArrayLines(list[i])]
           n == Len(list)
           s == Listing(list)
<1>1. n \in Nat /\ DOMAIN list = 1..n /\ \A i \in 1..n : list[i] \in KernelArrays
  OBVIOUS
<1>2. s = Joined(f, n) /\ DOMAIN f = 1..n /\ \A i \in 1..n : f[i] = ArrayLines(list[i])
  BY <1>1 DEF Listing
<1>3. \A i \in DOMAIN f : f[i] \in Seq(MdLines)
  BY <1>1, <1>2, LinesOf
<1> HIDE DEF f, n, s
<1>4. s \in Seq(MdLines)
  BY <1>1, <1>2, <1>3, JoinedTyped
<1>5. CASE n = 0
  BY <1>2, <1>4, <1>5, JoinedNext DEF s
<1>6. CASE n # 0
  <2>1. n - 1 \in Nat /\ (n - 1) + 1 = n /\ n \in 1..n
    BY <1>1, <1>6
  <2> DEFINE r == Joined(f, n - 1)
             t == ArrayLines(list[n])
  <2>2. r \in Seq(MdLines) /\ t \in Seq(MdLines) /\ Len(t) \in Nat /\ Len(t) >= 3 /\ t[Len(t)] = Blank
    <3>1. list[n] \in KernelArrays
      BY <1>1, <2>1
    <3> QED
      BY <1>3, <2>1, <3>1, JoinedTyped, ArrayEnds
  <2>3. s = r \o t
    BY <1>2, <2>1, JoinedNext
  <2> HIDE DEF r, t
  <2>4. Len(s) = Len(r) + Len(t) /\ s[Len(s)] = t[Len(t)]
    BY <2>2, <2>3
  <2> QED
    BY <1>4, <2>2, <2>4 DEF s
<1> QED
  BY <1>5, <1>6
-------------------------------------------------------------------------------
(* raid_state: the entry of an array                                       *)

\* Induction over sequences, with a set for the predicate.
LEMMA SeqInductionSet ==
  ASSUME NEW T, NEW S, <<>> \in S,
         \A s \in Seq(T), x \in T : s \in S => Append(s, x) \in S
  PROVE  Seq(T) \subseteq S
<1> DEFINE N == {n \in Nat : \A s \in Seq(T) : Len(s) = n => s \in S}
<1>1. 0 \in N
  OBVIOUS
<1>2. ASSUME NEW n \in Nat, n \in N PROVE n + 1 \in N
  <2> SUFFICES ASSUME NEW s \in Seq(T), Len(s) = n + 1 PROVE s \in S
    OBVIOUS
  <2>1. PICK r \in Seq(T), x \in T : s = Append(r, x)
    <3>1. s # <<>>
      OBVIOUS
    <3> QED
      BY <3>1, SequenceEmptyOrAppend
  <2>2. Len(r) = n
    BY <2>1
  <2> QED
    BY <1>2, <2>1, <2>2
<1> HIDE DEF N
<1>3. Nat \subseteq N
  BY <1>1, <1>2, NatInductionSet
<1> QED
  BY <1>3 DEF N

\* What does not add to what is joined leaves it.
LEMMA JoinedSkips ==
  ASSUME NEW f, NEW m \in Nat, NEW L, Joined(f, m) \in Seq(L), NEW p \in Nat,
         \A k \in m+1..m+p : k \notin DOMAIN f
  PROVE  Joined(f, m + p) = Joined(f, m)
<1> DEFINE S == {q \in Nat : q <= p => Joined(f, m + q) = Joined(f, m)}
<1>1. 0 \in S
  OBVIOUS
<1>2. ASSUME NEW q \in Nat, q \in S PROVE q + 1 \in S
  <2> SUFFICES ASSUME q + 1 <= p PROVE Joined(f, m + (q + 1)) = Joined(f, m)
    OBVIOUS
  <2>1. /\ m + q \in Nat /\ m + (q + 1) = (m + q) + 1 /\ (m + q) + 1 \in m+1..m+p
        /\ Joined(f, m + q) = Joined(f, m)
    BY <1>2
  <2>2. Joined(f, (m + q) + 1) = Joined(f, m) \o <<>>
    BY <2>1, JoinedNext
  <2>3. \A r \in Seq(L) : r \o <<>> = r
    OBVIOUS
  <2> QED
    BY <2>1, <2>2, <2>3
<1> HIDE DEF S
<1>3. Nat \subseteq S
  BY <1>1, <1>2, NatInductionSet
<1> QED
  BY <1>3 DEF S

\* A set of numbers that is not empty and has a bound has a greatest member.
LEMMA MaxIn ==
  ASSUME NEW S, S \subseteq Nat, NEW b \in Nat, \A x \in S : x <= b, S # {}
  PROVE  Max(S) \in S
<1> DEFINE U == {y \in Nat : \A x \in S : x <= y}
<1>1. PICK u \in U : \A y \in U : ~ (y < u)
  BY NatLeast
<1>2. u \in S
  <2> SUFFICES ASSUME u \notin S PROVE FALSE
    OBVIOUS
  <2>1. \A x \in S : x \in Nat /\ x <= u /\ x # u
    OBVIOUS
  <2>2. PICK z \in S : TRUE
    OBVIOUS
  <2>3. u - 1 \in U
    BY <2>1, <2>2
  <2> QED
    BY <1>1, <2>2, <2>3
<1>3. \E x \in S : \A y \in S : x >= y
  BY <1>2
<1> QED
  BY <1>3 DEF Max

LEMMA MaxOne == ASSUME NEW m \in Nat PROVE Max({m}) = m
<1> DEFINE S == {m}
<1>1. S \subseteq Nat /\ (\A x \in S : x <= m) /\ S # {}
  OBVIOUS
<1> HIDE DEF S
<1>2. Max(S) \in S
  BY <1>1, MaxIn
<1> QED
  BY <1>2 DEF S

LastStatus(lines, js) == IF js = {} THEN "none" ELSE lines[Max(js)].status
LastAction(lines, js) == IF js = {} THEN "none" ELSE lines[Max(js)].action

Found(lines, i)  == {j \in Body(lines, i) : lines[j].kind = "blocks" /\ lines[j].status # "none"}
Moving(lines, i) == {j \in Body(lines, i) : lines[j].kind = "sync" /\ ~ lines[j].delayed}

\* An entry, made of a header, a status and an action.
Made(line, status, action) ==
    LET words == line.words
        late  == words[3].text \in RaidWords
    IN  [device  |-> line.dev,
         level   |-> IF late THEN words[3].text ELSE words[2].text,
         state   |-> Synthesized(words[1].text, status, action),
         action  |-> action,
         members |-> Disks(SubSeq(words, IF late THEN 4 ELSE 3, Len(words)))]

LEMMA EntryIs ==
  ASSUME NEW lines, NEW i
  PROVE  Entry(lines, i) = Made(lines[i], LastStatus(lines, Found(lines, i)),
                                          LastAction(lines, Moving(lines, i)))
BY DEF Entry, Made, LastStatus, LastAction, Found, Moving

\* An array's entry is made of its own lines: what follows its blank does not count.
LEMMA EntryKept ==
  ASSUME NEW L, NEW s \in Seq(L), NEW t \in Seq(L), NEW i \in 1..Len(s), IsHeader(s[i]),
         s[Len(s)] = Blank
  PROVE  Entry(s \o t, i) = Entry(s, i)
<1> DEFINE u == s \o t
           n == Len(s)
<1>1. /\ n \in Nat /\ u \in Seq(L) /\ Len(u) \in Nat /\ Len(u) >= n
      /\ \A k \in 1..n : u[k] = s[k]
  OBVIOUS
<1>2. i # n /\ i < n /\ i \in Nat /\ i >= 1
  <2>1. ~ IsHeader(Blank)
    BY DEF IsHeader, Blank
  <2> QED
    BY <1>1, <2>1
<1>3. s[n].kind = "blank"
  BY DEF Blank
<1> HIDE DEF u, n
<1>4. Body(u, i) = Body(s, i) /\ Body(u, i) \subseteq i+1..n
  <2>1. ASSUME NEW j \in Body(u, i) PROVE j \in i+1..n
    <3>1. j \in i+1..Len(u) /\ \A k \in i+1..j : u[k].kind # "blank"
      BY DEF Body
    <3>2. n \in 1..n /\ n \in i+1..n
      BY <1>1, <1>2
    <3>3. u[n].kind = "blank"
      BY <1>1, <1>3, <3>2
    <3>4. ~ (n \in i+1..j)
      BY <3>1, <3>3
    <3> QED
      BY <1>1, <1>2, <3>1, <3>4
  <2>2. Len(s) = n
    BY DEF n
  <2>3. \A j \in i+1..n : j \in Body(u, i) <=> j \in Body(s, i)
    <3> SUFFICES ASSUME NEW j \in i+1..n PROVE j \in Body(u, i) <=> j \in Body(s, i)
      OBVIOUS
    <3>1. j \in i+1..Len(u) /\ j \in i+1..Len(s)
      BY <1>1, <1>2, <2>2
    <3>2. \A k \in i+1..j : u[k] = s[k]
      BY <1>1, <1>2
    <3> QED
      BY <3>1, <3>2 DEF Body
  <2>4. \A j \in Body(s, i) : j \in i+1..n
    BY <2>2 DEF Body
  <2> QED
    BY <2>1, <2>3, <2>4
<1>5. \A j \in Body(s, i) : j \in Nat /\ j <= n /\ u[j] = s[j]
  BY <1>1, <1>2, <1>4
<1>6. Found(u, i) = Found(s, i) /\ Moving(u, i) = Moving(s, i)
  BY <1>4, <1>5 DEF Found, Moving
<1>7. ASSUME NEW js, js \subseteq Body(s, i), js # {} PROVE u[Max(js)] = s[Max(js)]
  <2>1. js \subseteq Nat /\ \A x \in js : x <= n
    BY <1>5, <1>7
  <2>2. Max(js) \in js
    BY <1>1, <1>7, <2>1, MaxIn
  <2> QED
    BY <1>5, <1>7, <2>2
<1>8. Found(s, i) \subseteq Body(s, i) /\ Moving(s, i) \subseteq Body(s, i)
  BY DEF Found, Moving
<1>9. /\ LastStatus(u, Found(u, i)) = LastStatus(s, Found(s, i))
      /\ LastAction(u, Moving(u, i)) = LastAction(s, Moving(s, i))
  BY <1>6, <1>7, <1>8 DEF LastStatus, LastAction
<1>10. u[i] = s[i]
  BY <1>1, <1>2
<1>11. Entry(u, i) = Entry(s, i)
  BY <1>9, <1>10, EntryIs
<1> QED
  BY <1>11 DEF u

\* The flag is the first one if it comes first, or if there is none.
LEMMA FirstFlagIs ==
  ASSUME NEW marks \in Seq(Flags \cup {"W", "J", "E"}),
         \A n \in DOMAIN marks : n > 1 /\ marks[n] \in Flags => marks[1] \in Flags
  PROVE  Flag(marks) = FirstFlag(marks)
<1> DEFINE places == {k \in DOMAIN marks : marks[k] \in Flags}
<1>1. DOMAIN marks = 1..Len(marks) /\ Len(marks) \in Nat
  OBVIOUS
<1>2. FirstFlag(marks) = IF places = {} THEN "none" ELSE marks[Min(places)]
  BY DEF FirstFlag
<1>3. CASE places = {}
  <2>1. ~ (marks # <<>> /\ marks[1] \in Flags)
    BY <1>1, <1>3
  <2> QED
    BY <1>2, <1>3, <2>1 DEF Flag
<1>4. CASE places # {}
  <2>1. marks # <<>> /\ marks[1] \in Flags /\ 1 \in places
    BY <1>1, <1>4
  <2>2. places \subseteq Nat /\ \A k \in places : 1 <= k
    BY <1>1
  <2> HIDE DEF places
  <2>3. Min(places) = 1
    <3> DEFINE m == Min(places)
    <3>1. m \in places /\ \A y \in places : m =< y
      BY <2>1, <2>2 DEF Min
    <3> HIDE DEF m
    <3>2. m = 1
      BY <2>1, <2>2, <3>1
    <3> QED
      BY <3>2 DEF m
  <2> QED
    BY <1>2, <1>4, <2>1, <2>3 DEF Flag
<1> QED
  BY <1>3, <1>4

\* The disks of words that all are disks, one for one.
LEMMA DisksAre ==
  ASSUME NEW ms \in Seq(MemberWords)
  PROVE  Disks(ms) = [k \in DOMAIN ms |-> [disk |-> ms[k].text, flag |-> Flag(ms[k].marks)]]
<1> DEFINE q == [k \in DOMAIN ms |-> [disk |-> ms[k].text, flag |-> Flag(ms[k].marks)]]
           f == [k \in {j \in DOMAIN ms : ms[j].member} |->
                   <<[disk |-> ms[k].text, flag |-> Flag(ms[k].marks)]>>]
           n == Len(ms)
           L == {q[k] : k \in 1..n}
<1>1. n \in Nat /\ DOMAIN ms = 1..n /\ \A k \in 1..n : ms[k].member
  <2>1. n \in Nat /\ DOMAIN ms = 1..n /\ \A k \in 1..n : ms[k] \in MemberWords
    OBVIOUS
  <2>2. \A w \in MemberWords : w.member
    BY DEF MemberWords
  <2> QED
    BY <2>1, <2>2
<1>2. DOMAIN q = 1..n /\ \A k \in 1..n : q[k] \in L
  BY <1>1
<1>3. q \in Seq(L) /\ Len(q) = n
  <2>1. q \in [1..n -> L]
    BY <1>1
  <2> HIDE DEF q, L, n
  <2> QED
    BY <1>1, <2>1
<1>4. DOMAIN f = 1..n
  BY <1>1
<1>5. \A k \in 1..n : f[k] = <<q[k]>>
  BY <1>1
<1>6. Disks(ms) = Joined(f, n)
  BY DEF Disks
<1> HIDE DEF q, f, n, L
<1>7. Joined(f, n) = q
  BY <1>3, <1>4, <1>5, JoinedSingles
<1> QED
  BY <1>6, <1>7 DEF q

MdEntries == {Entry(s, i) : s \in Seq(MdLines), i \in Nat}

\* What an array's words, its status and its action make.
LEMMA MadeRight ==
  ASSUME NEW a \in KernelArrays
  PROVE  Right(Made(Header(a.dev, HeadWords(a)), StatusOf(a),
                    IF Moves(a) /\ ~ a.delayed THEN a.sync ELSE "none"), a)
<1> DEFINE w == HeadWords(a)
           h == Header(a.dev, w)
           status == StatusOf(a)
           action == IF Moves(a) /\ ~ a.delayed THEN a.sync ELSE "none"
           made == Made(h, status, action)
<1>1. /\ a.run \in {"active", "inactive"} /\ a.ro \in BOOLEAN /\ a.short \in BOOLEAN
      /\ a.sync \in {"none", "resync", "recovery", "reshape", "check"} /\ a.delayed \in BOOLEAN
      /\ a.members \in Seq(MemberWords)
  BY DEF KernelArrays, MemberWords
<1>2. h.dev = a.dev /\ h.words = w /\ w[1].text = a.run
  <2>1. w[1] = Word(a.run)
    BY WordsOf
  <2> HIDE DEF w
  <2> QED
    BY <2>1 DEF Header, Word
<1> HIDE DEF w, h, status, action
<1>3. made.device = a.dev /\ made.state = Synthesized(a.run, status, action) /\ made.action = action
  BY <1>2 DEF Made
<1>4. CASE a.run = "inactive"
  <2>1. status = "none" /\ action = "none"
    BY <1>4 DEF status, action, StatusOf, Moves
  <2>2. made.state = "inactive"
    BY <1>3, <1>4, <2>1 DEF Synthesized
  <2> HIDE DEF made
  <2>3. Right(made, a)
    BY <1>3, <1>4, <2>2 DEF Right
  <2> QED
    BY <2>3 DEF made, h, w, status, action
<1>5. CASE a.run = "active" /\ Misread(a)
  <2> HIDE DEF made
  <2>1. Right(made, a)
    BY <1>3, <1>5 DEF Right
  <2> QED
    BY <2>1 DEF made, h, w, status, action
<1>6. CASE a.run = "active" /\ ~ Misread(a)
  <2>1. Disks(a.members) = Expected(a).members
    <3>1. Disks(a.members) = [k \in DOMAIN a.members |->
                                [disk |-> a.members[k].text, flag |-> Flag(a.members[k].marks)]]
      BY <1>1, DisksAre
    <3>2. Expected(a).members = [k \in DOMAIN a.members |->
             [disk |-> a.members[k].text, flag |-> FirstFlag(a.members[k].marks)]]
      BY DEF Expected
    <3>3. ASSUME NEW k \in DOMAIN a.members
          PROVE  Flag(a.members[k].marks) = FirstFlag(a.members[k].marks)
      <4> DEFINE marks == a.members[k].marks
      <4>1. marks \in Marks
        <5>1. a.members[k] \in MemberWords
          BY <1>1
        <5> QED
          BY <5>1 DEF MemberWords
      <4>2. \A n \in DOMAIN marks : n > 1 /\ marks[n] \in Flags => marks[1] \in Flags
        BY <1>6 DEF Misread
      <4> HIDE DEF marks
      <4>3. DOMAIN marks = 1..Len(marks) /\ Len(marks) \in Nat
        BY <4>1 DEF Marks
      <4>4. Flag(marks) = FirstFlag(marks)
        BY <4>1, <4>2, <4>3, FirstFlagIs DEF Marks
      <4> QED
        BY <4>4 DEF marks
    <3> QED
      BY <3>1, <3>2, <3>3
  <2>2. made.level = a.level /\ made.members = Disks(a.members)
    <3>1. CASE ~ a.ro
      <4>1. /\ w[2] = Word(a.level) /\ w[3] = a.members[1]
            /\ SubSeq(w, 3, Len(w)) = a.members
        BY <1>6, <3>1, WordsOf DEF w
      <4>2. w[3].text \notin RaidWords
        <5>1. a.members[1] \in MemberWords
          <6>1. Len(a.members) >= 1
            BY WordsOf
          <6> QED
            BY <1>1, <6>1
        <5> QED
          BY <4>1, <5>1, MdstatAssumption DEF MemberWords
      <4>3. w[2].text = a.level
        BY <4>1 DEF Word
      <4> QED
        BY <1>2, <4>1, <4>2, <4>3 DEF Made
    <3>2. CASE a.ro
      <4>1. w[3] = Word(a.level) /\ SubSeq(w, 4, Len(w)) = a.members
        BY <1>6, <3>2, WordsOf DEF w
      <4>2. w[3].text = a.level /\ w[3].text \in RaidWords
        BY <1>6, <3>2, <4>1 DEF Word, Misread
      <4> QED
        BY <1>2, <4>1, <4>2 DEF Made
    <3> QED
      BY <3>1, <3>2
  <2>3. action = Expected(a).action
    BY <1>1, <1>6 DEF action, Moves, Expected
  <2>4. Synthesized(a.run, status, action) = Expected(a).state
    <3>1. Expected(a).state =
            CASE a.sync = "recovery" /\ ~ a.delayed                -> "recovering"
              [] a.sync \notin {"none", "recovery"} /\ ~ a.delayed -> "resyncing"
              [] a.sync = "none" \/ a.delayed ->
                   IF a.short /\ a.level \in Redundant THEN "degraded" ELSE "clean"
      BY DEF Expected
    <3>2. action = IF a.sync # "none" /\ ~ a.delayed THEN a.sync ELSE "none"
      BY <1>6 DEF action, Moves
    <3>3. status = "U_" <=> a.short /\ a.level \in Redundant
      BY <1>1, <1>6 DEF status, StatusOf
    <3>4. CASE a.sync = "none" \/ a.delayed
      <4>1. action = "none"
        BY <3>2, <3>4
      <4>2. Synthesized(a.run, status, action) = IF status = "U_" THEN "degraded" ELSE "clean"
        BY <1>6, <4>1 DEF Synthesized
      <4>3. Expected(a).state = IF a.short /\ a.level \in Redundant THEN "degraded" ELSE "clean"
        BY <3>1, <3>4
      <4> QED
        BY <3>3, <4>2, <4>3
    <3>5. CASE a.sync = "recovery" /\ ~ a.delayed
      BY <3>1, <3>2, <3>5 DEF Synthesized
    <3>6. CASE a.sync \notin {"none", "recovery"} /\ ~ a.delayed
      BY <3>1, <3>2, <3>6 DEF Synthesized
    <3> QED
      BY <3>4, <3>5, <3>6
  <2>5. made = [device |-> made.device, level |-> made.level, state |-> made.state,
                action |-> made.action, members |-> made.members]
    BY DEF Made
  <2>6. Expected(a) = [device |-> a.dev, level |-> a.level, state |-> Expected(a).state,
                       action |-> Expected(a).action, members |-> Expected(a).members]
    BY DEF Expected
  <2> HIDE DEF made
  <2>7. made = Expected(a)
    BY <1>3, <2>1, <2>2, <2>3, <2>4, <2>5, <2>6, Zenon
  <2>8. Right(made, a)
    BY <1>3, <1>6, <2>7 DEF Right
  <2> QED
    BY <2>8 DEF made, h, w, status, action
<1> QED
  BY <1>1, <1>4, <1>5, <1>6

\* An array that has a header is said to be what it is.
LEMMA EntryRight ==
  ASSUME NEW s \in Seq(MdLines), NEW a \in KernelArrays, ~ Omitted(a)
  PROVE  Right(Entry(s \o ArrayLines(a), Len(s) + 1), a)
<1> DEFINE t == ArrayLines(a)
           u == s \o t
           n == Len(s)
           status == StatusOf(a)
           action == IF Moves(a) /\ ~ a.delayed THEN a.sync ELSE "none"
           w == HeadWords(a)
           h == Header(a.dev, w)
<1>1. /\ t \in Seq(MdLines) /\ Len(t) = (IF Moves(a) THEN 4 ELSE 3)
      /\ t[1] = h /\ t[2] = Blocks(status)
      /\ Moves(a) => t[3] = Sync(a.sync, a.delayed) /\ t[4] = Blank
      /\ ~ Moves(a) => t[3] = Blank
  BY LinesOf
<1> HIDE DEF t, h, status
<1>2. /\ n \in Nat /\ Len(u) = n + Len(t)
      /\ u[n + 1] = t[1] /\ u[n + 2] = t[2] /\ u[n + 3] = t[3]
      /\ Moves(a) => u[n + 4] = t[4]
  <2>1. /\ n \in Nat /\ Len(u) = n + Len(t)
        /\ \A k \in 1..Len(t) : u[n + k] = t[k]
    <3>1. t \in Seq(MdLines)
      BY <1>1
    <3> QED
      BY <3>1
  <2>2. 1 \in 1..Len(t) /\ 2 \in 1..Len(t) /\ 3 \in 1..Len(t) /\ (Moves(a) => 4 \in 1..Len(t))
    <3>1. Len(t) = IF Moves(a) THEN 4 ELSE 3
      BY <1>1
    <3> QED
      BY <3>1
  <2> QED
    BY <2>1, <2>2
<1> HIDE DEF u, n
<1>3. /\ u[n + 2].kind = "blocks" /\ ~ IsHeader(u[n + 2]) /\ u[n + 2].status = status
      /\ Moves(a) => /\ u[n + 3].kind = "sync" /\ ~ IsHeader(u[n + 3])
                     /\ u[n + 3].action = a.sync /\ u[n + 3].delayed = a.delayed
                     /\ u[n + 4].kind = "blank"
      /\ ~ Moves(a) => u[n + 3].kind = "blank"
  BY <1>1, <1>2 DEF Blocks, Sync, Blank, IsHeader
<1>4. Body(u, n + 1) = IF Moves(a) THEN {n + 2, n + 3} ELSE {n + 2}
  <2>1. \A j \in Body(u, n + 1) : /\ j \in (n + 1)+1..Len(u)
                                  /\ \A k \in (n + 1)+1..j : u[k].kind # "blank"
    BY DEF Body
  <2>2. CASE Moves(a)
    <3>1. \A j \in Body(u, n + 1) : j = n + 2 \/ j = n + 3
      <4>1. Len(u) = n + 4
        BY <1>1, <1>2, <2>2
      <4>2. ~ (n + 4 \in Body(u, n + 1))
        <5>1. u[n + 4].kind = "blank" /\ n + 4 \in (n + 1)+1..n + 4
          BY <1>2, <1>3, <2>2
        <5> QED
          BY <2>1, <5>1
      <4> QED
        BY <1>2, <2>1, <4>1, <4>2
    <3>2. n + 2 \in Body(u, n + 1) /\ n + 3 \in Body(u, n + 1)
      <4>1. Len(u) = n + 4
        BY <1>1, <1>2, <2>2
      <4>2. \A k \in (n + 1)+1..n + 3 : k = n + 2 \/ k = n + 3
        BY <1>2
      <4>3. u[n + 2].kind # "blank" /\ u[n + 3].kind # "blank"
        BY <1>3, <2>2
      <4>4. \A k \in (n + 1)+1..n + 3 : u[k].kind # "blank" /\ ~ IsHeader(u[k])
        BY <1>3, <2>2, <4>2, <4>3
      <4> QED
        BY <1>2, <4>1, <4>4 DEF Body
    <3> QED
      BY <2>2, <3>1, <3>2
  <2>3. CASE ~ Moves(a)
    <3>1. \A j \in Body(u, n + 1) : j = n + 2
      <4>1. Len(u) = n + 3
        BY <1>1, <1>2, <2>3
      <4>2. ~ (n + 3 \in Body(u, n + 1))
        <5>1. u[n + 3].kind = "blank" /\ n + 3 \in (n + 1)+1..n + 3
          BY <1>2, <1>3, <2>3
        <5> QED
          BY <2>1, <5>1
      <4> QED
        BY <1>2, <2>1, <4>1, <4>2
    <3>2. n + 2 \in Body(u, n + 1)
      <4>1. Len(u) = n + 3
        BY <1>1, <1>2, <2>3
      <4>2. \A k \in (n + 1)+1..n + 2 : u[k].kind # "blank" /\ ~ IsHeader(u[k])
        BY <1>2, <1>3
      <4> QED
        BY <1>2, <4>1, <4>2 DEF Body
    <3> QED
      BY <2>3, <3>1, <3>2
  <2> QED
    BY <2>2, <2>3
<1>5. LastStatus(u, Found(u, n + 1)) = status
  <2>1. Found(u, n + 1) = IF status = "none" THEN {} ELSE {n + 2}
    BY <1>2, <1>3, <1>4 DEF Found
  <2>2. Max({n + 2}) = n + 2
    <3>1. n + 2 \in Nat
      BY <1>2
    <3> QED
      BY <3>1, MaxOne
  <2> QED
    BY <1>3, <2>1, <2>2 DEF LastStatus
<1>6. LastAction(u, Moving(u, n + 1)) = action
  <2>1. Moving(u, n + 1) = IF Moves(a) /\ ~ a.delayed THEN {n + 3} ELSE {}
    BY <1>2, <1>3, <1>4 DEF Moving
  <2>2. Max({n + 3}) = n + 3
    <3>1. n + 3 \in Nat
      BY <1>2
    <3> QED
      BY <3>1, MaxOne
  <2> QED
    BY <1>3, <2>1, <2>2 DEF LastAction
<1>7. Entry(u, n + 1) = Made(h, status, action)
  BY <1>1, <1>2, <1>5, <1>6, EntryIs
<1>8. Right(Made(h, status, action), a)
  BY MadeRight DEF h, status
<1> QED
  BY <1>7, <1>8 DEF u, n, t

\* The entries of a listing with one array more are those of the listing and, if
\* the array has a header, its own.
LEMMA ParseNext ==
  ASSUME NEW s \in Seq(MdLines), Len(s) > 0 => s[Len(s)] = Blank, NEW a \in KernelArrays
  PROVE  /\ parse_mdstat(s) \in Seq(MdEntries)
         /\ parse_mdstat(s \o ArrayLines(a)) =
              IF Omitted(a) THEN parse_mdstat(s)
              ELSE parse_mdstat(s) \o <<Entry(s \o ArrayLines(a), Len(s) + 1)>>
<1> DEFINE t == ArrayLines(a)
           u == s \o t
           n == Len(s)
           f == [i \in {j \in DOMAIN s : IsHeader(s[j])} |-> <<Entry(s, i)>>]
           g == [i \in {j \in DOMAIN u : IsHeader(u[j])} |-> <<Entry(u, i)>>]
           e == Entry(u, n + 1)
<1>1. /\ t \in Seq(MdLines) /\ Len(t) \in Nat /\ Len(t) >= 3
      /\ IsHeader(t[1]) <=> ~ Omitted(a)
      /\ \A k \in 2..Len(t) : ~ IsHeader(t[k])
  BY ArrayEnds, HeaderIs
<1>2. parse_mdstat(s) = Joined(f, n) /\ parse_mdstat(u) = Joined(g, Len(u))
  BY DEF parse_mdstat
<1> HIDE DEF t
<1>3. /\ n \in Nat /\ u \in Seq(MdLines) /\ Len(u) = n + Len(t)
      /\ \A k \in 1..n : u[k] = s[k]
      /\ \A k \in 1..Len(t) : u[n + k] = t[k]
  BY <1>1
<1>4. \A k \in 1..n : /\ k \in DOMAIN f <=> k \in DOMAIN g
                      /\ k \in DOMAIN f => f[k] = g[k]
  <2> SUFFICES ASSUME NEW k \in 1..n
               PROVE  /\ k \in DOMAIN f <=> k \in DOMAIN g
                      /\ k \in DOMAIN f => f[k] = g[k]
    OBVIOUS
  <2>1. k \in DOMAIN s /\ k \in DOMAIN u /\ s[k] = u[k]
    BY <1>1, <1>3
  <2>2. (k \in DOMAIN f <=> IsHeader(s[k])) /\ (k \in DOMAIN g <=> IsHeader(s[k]))
    BY <2>1
  <2>3. ASSUME IsHeader(s[k]) PROVE f[k] = g[k]
    <3>1. s[n] = Blank
      BY <1>3
    <3>2. Entry(u, k) = Entry(s, k)
      BY <1>1, <2>3, <3>1, EntryKept
    <3>3. f[k] = <<Entry(s, k)>> /\ g[k] = <<Entry(u, k)>>
      BY <2>1, <2>3
    <3> QED
      BY <3>2, <3>3
  <2> QED
    BY <2>2, <2>3
<1>5. n + 1 \in DOMAIN g <=> ~ Omitted(a)
  <2>1. n + 1 \in DOMAIN u /\ u[n + 1] = t[1]
    BY <1>1, <1>3
  <2> QED
    BY <1>1, <2>1
<1>6. n + 1 \in DOMAIN g => g[n + 1] = <<e>>
  OBVIOUS
<1>7. \A k \in n+2..Len(u) : k \notin DOMAIN g
  <2> SUFFICES ASSUME NEW k \in n+2..Len(u) PROVE ~ IsHeader(u[k])
    OBVIOUS
  <2>1. k - n \in 2..Len(t) /\ k - n \in 1..Len(t) /\ n + (k - n) = k
    BY <1>1, <1>3
  <2> QED
    BY <1>1, <1>3, <2>1
<1>8. (\A k \in DOMAIN f : f[k] \in Seq(MdEntries)) /\ e \in MdEntries
  <2>1. \A r \in Seq(MdLines), k \in Nat : Entry(r, k) \in MdEntries
    BY DEF MdEntries
  <2>2. \A k \in DOMAIN f : k \in Nat /\ f[k] = <<Entry(s, k)>>
    OBVIOUS
  <2>3. \A x \in MdEntries : <<x>> \in Seq(MdEntries)
    OBVIOUS
  <2>4. ASSUME NEW k \in DOMAIN f PROVE f[k] \in Seq(MdEntries)
    BY <2>1, <2>2, <2>3
  <2>5. n + 1 \in Nat
    BY <1>3
  <2>6. e \in MdEntries
    BY <1>3, <2>1, <2>5
  <2> QED
    BY <2>4, <2>6
<1> HIDE DEF u, f, g, e, n
<1>9. Joined(f, n) \in Seq(MdEntries)
  BY <1>3, <1>8, JoinedTyped
<1>10. Joined(g, n) = Joined(f, n)
  BY <1>3, <1>4, JoinedAgree
<1>11. Joined(g, n + 1) = IF Omitted(a) THEN Joined(f, n) ELSE Joined(f, n) \o <<e>>
  <2>1. Joined(g, n + 1) = Joined(f, n) \o (IF n + 1 \in DOMAIN g THEN g[n + 1] ELSE <<>>)
    BY <1>3, <1>10, JoinedNext
  <2>2. Joined(f, n) \o <<>> = Joined(f, n)
    BY <1>9
  <2> QED
    BY <1>5, <1>6, <2>1, <2>2
<1>12. Joined(g, n + 1) \in Seq(MdEntries)
  <2>1. \A r \in Seq(MdEntries), x \in MdEntries : r \o <<x>> \in Seq(MdEntries)
    OBVIOUS
  <2> QED
    BY <1>8, <1>9, <1>11, <2>1
<1>13. Joined(g, Len(u)) = Joined(g, n + 1)
  <2> DEFINE m == n + 1
             p == Len(u) - m
  <2>1. /\ m \in Nat /\ p \in Nat /\ m + p = Len(u)
        /\ \A k \in m+1..m+p : k \in n+2..Len(u)
    BY <1>1, <1>3
  <2>2. \A k \in m+1..m+p : k \notin DOMAIN g
    BY <1>7, <2>1
  <2> HIDE DEF m, p
  <2>3. Joined(g, m) \in Seq(MdEntries)
    BY <1>12 DEF m
  <2>4. Joined(g, m + p) = Joined(g, m)
    BY <2>1, <2>2, <2>3, JoinedSkips
  <2> QED
    BY <2>1, <2>4 DEF m
<1> QED
  BY <1>2, <1>9, <1>11, <1>13 DEF u, e, n, t

\* So are the arrays that are to be reported.
LEMMA ReportedNext ==
  ASSUME NEW list \in Seq(KernelArrays), NEW a \in KernelArrays
  PROVE  /\ Reported(list) \in Seq(KernelArrays)
         /\ Reported(Append(list, a)) = IF Omitted(a) THEN Reported(list) ELSE Reported(list) \o <<a>>
<1> DEFINE more == Append(list, a)
           n == Len(list)
           f == [k \in {j \in DOMAIN list : ~ Omitted(list[j])} |-> <<list[k]>>]
           g == [k \in {j \in DOMAIN more : ~ Omitted(more[j])} |-> <<more[k]>>]
<1>1. /\ n \in Nat /\ DOMAIN list = 1..n /\ DOMAIN more = 1..n + 1 /\ Len(more) = n + 1
      /\ more[n + 1] = a /\ \A i \in 1..n : more[i] = list[i] /\ list[i] \in KernelArrays
  OBVIOUS
<1>2. Reported(list) = Joined(f, n) /\ Reported(more) = Joined(g, n + 1)
  BY <1>1 DEF Reported
<1>3. \A k \in 1..n : /\ k \in DOMAIN f <=> k \in DOMAIN g
                      /\ k \in DOMAIN f => f[k] = g[k]
  BY <1>1
<1>4. (n + 1 \in DOMAIN g <=> ~ Omitted(a)) /\ (n + 1 \in DOMAIN g => g[n + 1] = <<a>>)
  BY <1>1
<1>5. \A k \in DOMAIN f : f[k] \in Seq(KernelArrays)
  <2>1. \A k \in DOMAIN f : list[k] \in KernelArrays /\ f[k] = <<list[k]>>
    BY <1>1
  <2>2. \A x \in KernelArrays : <<x>> \in Seq(KernelArrays)
    OBVIOUS
  <2> QED
    BY <2>1, <2>2
<1> HIDE DEF more, f, g, n
<1>6. Joined(f, n) \in Seq(KernelArrays)
  BY <1>1, <1>5, JoinedTyped
<1>7. Joined(g, n) = Joined(f, n)
  BY <1>1, <1>3, JoinedAgree
<1>8. Joined(g, n + 1) = IF Omitted(a) THEN Joined(f, n) ELSE Joined(f, n) \o <<a>>
  <2>1. Joined(g, n + 1) = Joined(f, n) \o (IF n + 1 \in DOMAIN g THEN g[n + 1] ELSE <<>>)
    BY <1>1, <1>7, JoinedNext
  <2>2. Joined(f, n) \o <<>> = Joined(f, n)
    BY <1>6
  <2> QED
    BY <1>4, <2>1, <2>2
<1> QED
  BY <1>2, <1>6, <1>8 DEF more

\* A listing whose entries say of its arrays what they should.
Good(list) ==
    LET entries == parse_mdstat(Listing(list))
        kept    == Reported(list)
    IN  /\ Len(entries) = Len(kept)
        /\ \A k \in DOMAIN kept : Right(entries[k], kept[k])

\* One array more does not change that.
LEMMA GoodNext ==
  ASSUME NEW list \in Seq(KernelArrays), Good(list), NEW a \in KernelArrays
  PROVE  Good(Append(list, a))
<1> DEFINE s == Listing(list)
           more == Append(list, a)
           p == parse_mdstat(s)
           q == parse_mdstat(Listing(more))
           e == Entry(s \o ArrayLines(a), Len(s) + 1)
           kept == Reported(list)
           all == Reported(more)
<1>1. s \in Seq(MdLines) /\ (Len(s) > 0 => s[Len(s)] = Blank)
  BY ListingTyped
<1>2. p \in Seq(MdEntries) /\ q = IF Omitted(a) THEN p ELSE p \o <<e>>
  <2>1. Listing(more) = s \o ArrayLines(a)
    BY ListingNext
  <2> HIDE DEF s, more
  <2> QED
    BY <1>1, <2>1, ParseNext
<1>3. kept \in Seq(KernelArrays) /\ all = IF Omitted(a) THEN kept ELSE kept \o <<a>>
  BY ReportedNext
<1>4. ~ Omitted(a) => Right(e, a)
  BY <1>1, EntryRight
<1>5. Len(p) = Len(kept) /\ \A k \in DOMAIN kept : Right(p[k], kept[k])
  BY DEF Good
<1> HIDE DEF p, q, e, kept, all
<1>6. Len(q) = Len(all) /\ \A k \in DOMAIN all : Right(q[k], all[k])
  <2>1. CASE Omitted(a)
    BY <1>2, <1>3, <1>5, <2>1
  <2>2. CASE ~ Omitted(a)
    <3>1. /\ Len(q) = Len(p) + 1 /\ q[Len(p) + 1] = e
          /\ \A k \in 1..Len(p) : q[k] = p[k]
      BY <1>2, <2>2
    <3>2. /\ Len(all) = Len(kept) + 1 /\ all[Len(kept) + 1] = a
          /\ \A k \in 1..Len(kept) : all[k] = kept[k]
          /\ DOMAIN all = 1..Len(kept) + 1 /\ DOMAIN kept = 1..Len(kept) /\ Len(kept) \in Nat
      BY <1>3, <2>2
    <3>3. \A k \in 1..Len(kept) + 1 : k \in 1..Len(kept) \/ k = Len(kept) + 1
      BY <3>2
    <3> QED
      BY <1>4, <1>5, <2>2, <3>1, <3>2, <3>3
  <2> QED
    BY <2>1, <2>2
<1> QED
  BY <1>6 DEF Good, q, all

\* So every listing is one, however long.
LEMMA AllGood == \A list \in Seq(KernelArrays) : Good(list)
<1> DEFINE S == {list \in Seq(KernelArrays) : Good(list)}
<1>1. <<>> \in S
  <2>1. Listing(<<>>) = <<>> /\ Reported(<<>>) = <<>>
    BY JoinedNext DEF Listing, Reported
  <2>2. parse_mdstat(<<>>) = <<>>
    BY JoinedNext DEF parse_mdstat
  <2>3. Good(<<>>)
    BY <2>1, <2>2 DEF Good
  <2> QED
    BY <2>3
<1>2. \A list \in Seq(KernelArrays), a \in KernelArrays : list \in S => Append(list, a) \in S
  BY GoodNext
<1> HIDE DEF S
<1>3. Seq(KernelArrays) \subseteq S
  BY <1>1, <1>2, SeqInductionSet
<1> QED
  BY <1>3 DEF S

MdInv == arrays \in Seq(KernelArrays) /\ shown = parse_mdstat(Listing(arrays))

\* raid_state shows the arrays of /proc/mdstat, each once and in order, with what
\* there is to report of one that runs, for listings of any length: parse_mdstat
\* gives every array its own lines.
THEOREM AlwaysReported == MdstatSpec => []ArraysReported
<1>1. MdstatInit => MdInv
  <2>1. Listing(<<>>) = <<>> /\ parse_mdstat(<<>>) = <<>>
    BY JoinedNext DEF Listing, parse_mdstat
  <2> QED
    BY <2>1 DEF MdstatInit, MdInv
<1>2. MdInv /\ [raid_state]_mdstatVars => MdInv'
  <2> SUFFICES ASSUME MdInv, [raid_state]_mdstatVars PROVE MdInv'
    OBVIOUS
  <2>1. CASE raid_state
    <3>1. PICK list \in Listings : arrays' = list /\ shown' = parse_mdstat(Listing(list))
      BY <2>1 DEF raid_state
    <3>2. list \in Seq(KernelArrays)
      BY MdstatAssumption
    <3> QED
      BY <3>1, <3>2 DEF MdInv
  <2>2. CASE UNCHANGED mdstatVars
    BY <2>2 DEF MdInv, mdstatVars
  <2> QED
    BY <2>1, <2>2
<1>3. MdInv => ArraysReported
  BY AllGood DEF MdInv, Good, ArraysReported
<1> QED
  BY <1>1, <1>2, <1>3, PTL DEF MdstatSpec
===============================================================================
