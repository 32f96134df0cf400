---------------------------- MODULE SshAccessProofs ----------------------------
(***************************************************************************)
(* Proofs about SshAccess for any number of calls, any ports, and any      *)
(* number of faults and acts of other people.                              *)
(***************************************************************************)
EXTENDS SshAccess, TLAPS

\* The settings are read by the tool that sets the port.
GetIsPort == \A t \in Tasks : pc[t] = "get" => op[t].tool = "port"

Typed == TypeOK /\ GetIsPort

\* What the NAS and the people do.
World == SshdReloads \/ ControlPanel \/ OthersListen \/ AdminsChange \/ LinkLost

\* Nothing has been read, written or asked for in the beginning.
LEMMA InitTyped == Init => Typed
<1> SUFFICES ASSUME Init PROVE Typed
  OBVIOUS
<1>1. terminal \in Settings /\ terminal.port \in Ports
  BY DEF Init, Settings
<1>2. sshd \in Ports \cup {None}
  BY <1>1 DEF Init
<1>3. busy \in SUBSET Ports
  BY DEF Init
<1>4. others \in 0..MaxOthers
  BY MaxOthersAssumption DEF Init
<1> QED
  BY <1>1, <1>2, <1>3, <1>4 DEF Init, Typed, TypeOK, GetIsPort

\* A fault, and any other act that is counted, stays within its bound.
LEMMA FaultTyped ==
  ASSUME TypeOK, Fault
  PROVE  others' \in 0..MaxOthers /\ conn' \in BOOLEAN /\ faulty' \in [Tasks -> BOOLEAN]
<1>1. others \in 0..MaxOthers /\ others < MaxOthers
  BY DEF TypeOK, Fault
<1>2. others + 1 \in 0..MaxOthers
  BY <1>1, MaxOthersAssumption
<1>3. faulty' \in [Tasks -> BOOLEAN]
  BY DEF Fault
<1> QED
  BY <1>2, <1>3 DEF Fault

\* The steps of a call preserve the types: the port it sets is the one it was
\* asked for, and the settings it sends are whole even if none were read.
LEMMA StepTyped ==
  ASSUME Typed, NEW t \in Tasks, Begin(t) \/ Continue(t)
  PROVE  Typed'
<1> USE PortsAssumption, BareAssumption, MaxOthersAssumption
    DEF Typed, TypeOK, GetIsPort, Settings, world, ghosts, Goto, Return
<1>1. CASE Begin(t)
  BY <1>1 DEF Begin, Ops
<1>2. CASE GetAnswered(t)
  <2>1. PICK answer \in {terminal, Bare} :
          /\ seen' = [seen EXCEPT ![t] = answer]
          /\ IF answer # Bare /\ terminal.port = op[t].port
               THEN Return(t, "verified") ELSE Goto(t, "ss")
    BY <1>2 DEF GetAnswered
  <2> QED
    BY <1>2, <2>1 DEF GetAnswered
<1>3. CASE ProbeAnswered(t)
  BY <1>3 DEF ProbeAnswered
<1>4. CASE ProbeCut(t)
  <2>1. others' \in 0..MaxOthers /\ conn' \in BOOLEAN /\ faulty' \in [Tasks -> BOOLEAN]
    BY <1>4, FaultTyped DEF ProbeCut
  <2>2. CASE Goto(t, "set")
    BY <1>4, <2>1, <2>2 DEF ProbeCut
  <2>3. CASE Return(t, "in_use")
    BY <1>4, <2>1, <2>3 DEF ProbeCut
  <2> QED
    BY <1>4, <2>2, <2>3 DEF ProbeCut
<1>5. CASE ProbeFails(t)
  <2>1. others' \in 0..MaxOthers /\ conn' \in BOOLEAN /\ faulty' \in [Tasks -> BOOLEAN]
    BY <1>5, FaultTyped DEF ProbeFails
  <2> QED
    BY <1>5, <2>1 DEF ProbeFails
<1>6. CASE SetAnswered(t)
  <2>1. Payload(t) \in Settings
    BY <1>6 DEF SetAnswered, Payload, Ops
  <2> QED
    BY <1>6, <2>1 DEF SetAnswered, Writes
<1>7. CASE VerifyAnswered(t)
  BY <1>7 DEF VerifyAnswered
<1>8. CASE WhoAnswered(t)
  BY <1>8 DEF WhoAnswered
<1>9. CASE CheckAnswered(t)
  BY <1>9 DEF CheckAnswered
<1>10. CASE AddAnswered(t)
  BY <1>10 DEF AddAnswered, Adds
<1>11. CASE Raises(t)
  <2>1. pc[t] = "set" => Payload(t) \in Settings
    BY DEF Payload, Ops
  <2>2. terminal' \in Settings /\ stable' \in [Tasks -> BOOLEAN] /\ admin' \in BOOLEAN
    <3>1. CASE UNCHANGED <<world, stable>>
      BY <3>1
    <3>2. CASE pc[t] = "set" /\ Writes(t)
      BY <3>2, <2>1 DEF Writes
    <3>3. CASE Adds /\ UNCHANGED stable
      BY <3>3 DEF Adds
    <3> QED
      BY <1>11, <3>1, <3>2, <3>3 DEF Raises
  <2>3. UNCHANGED <<sshd, busy, ss>>
    BY <1>11 DEF Raises, Writes, Adds
  <2> QED
    BY <1>11, <2>2, <2>3 DEF Raises
<1> QED
  BY <1>1, <1>2, <1>3, <1>4, <1>5, <1>6, <1>7, <1>8, <1>9, <1>10, <1>11 DEF Continue

\* So do the NAS and the people.
LEMMA WorldTyped == Typed /\ World => Typed'
<1> SUFFICES ASSUME Typed, World PROVE Typed'
  OBVIOUS
<1> USE PortsAssumption, BareAssumption, MaxOthersAssumption
    DEF Typed, TypeOK, GetIsPort, world, ghosts, Act, Watched
<1>1. CASE SshdReloads
  BY <1>1 DEF SshdReloads, Settings
<1>2. CASE ControlPanel
  <2>1. others' \in 0..MaxOthers
    BY <1>2 DEF ControlPanel
  <2> QED
    BY <1>2, <2>1 DEF ControlPanel
<1>3. CASE OthersListen
  <2>1. busy' \in SUBSET Ports
    BY <1>3 DEF OthersListen
  <2> QED
    BY <1>3, <2>1 DEF OthersListen
<1>4. CASE AdminsChange
  BY <1>4 DEF AdminsChange
<1>5. CASE LinkLost
  BY <1>5, FaultTyped DEF LinkLost
<1> QED
  BY <1>1, <1>2, <1>3, <1>4, <1>5 DEF World

\* The types, with what makes them inductive.
LEMMA TypedAlways == Spec => []Typed
<1>1. Typed /\ [Next]_vars => Typed'
  <2> SUFFICES ASSUME Typed, [Next]_vars PROVE Typed'
    OBVIOUS
  <2>1. CASE UNCHANGED vars
    BY <2>1 DEF vars, world, ghosts, Typed, TypeOK, GetIsPort
  <2> QED
    BY <2>1, StepTyped, WorldTyped DEF Next, World
<1> QED
  BY InitTyped, <1>1, PTL DEF Spec

\* Types hold, and no port is written that is invalid or set already.
THEOREM TypeCorrect == Spec => []TypeOK
<1>1. Typed => TypeOK
  BY DEF Typed
<1> QED
  BY <1>1, TypedAlways, PTL

-------------------------------------------------------------------------------

\* A call during which SSH is out of reach knows of a fault; so does one that has
\* had to ask netstat.
FaultSeen ==
    \A t \in Tasks :
        /\ pc[t] # "new" /\ ~ Reachable => faulty[t]
        /\ pc[t] = "netstat" => faulty[t]

\* A port that is held is busy, and one that is held is written only after a
\* fault, or where there is no ss.
HeldInv ==
    /\ \A t \in Tasks : held[t] => op[t].port \in busy
    /\ TakenRefused

ProbeInv == FaultSeen /\ HeldInv

\* The steps of a call.  The probe looks at everything that listens, so a port
\* that is held stops the call unless the probe failed.
LEMMA StepProbe ==
  ASSUME Typed, ProbeInv, NEW t \in Tasks, Begin(t) \/ Continue(t)
  PROVE  ProbeInv'
<1> USE DEF Typed, TypeOK, ProbeInv, FaultSeen, HeldInv, TakenRefused,
            Reachable, CanLogin, world, ghosts, Goto, Return
<1>1. CASE Begin(t)
  <2>1. /\ pc[t] = "new" /\ pc'[t] \in {"get", "done", "who"}
        /\ \A u \in Tasks \ {t} : pc'[u] = pc[u] /\ held'[u] = held[u] /\ faulty'[u] = faulty[u]
        /\ UNCHANGED <<world, conn, op>>
    BY <1>1 DEF Begin
  <2>2. faulty'[t] = ~ Reachable /\ (held'[t] => op[t].port \in busy)
    BY <1>1 DEF Begin
  <2> QED
    BY <2>1, <2>2
<1>2. CASE GetAnswered(t)
  BY <1>2 DEF GetAnswered
<1>3. CASE ProbeAnswered(t)
  BY <1>3 DEF ProbeAnswered
<1>4. CASE ProbeCut(t)
  BY <1>4 DEF ProbeCut, Fault
<1>5. CASE ProbeFails(t)
  BY <1>5 DEF ProbeFails, Fault
<1>6. CASE SetAnswered(t)
  BY <1>6 DEF SetAnswered, Writes
<1>7. CASE VerifyAnswered(t)
  BY <1>7 DEF VerifyAnswered
<1>8. CASE WhoAnswered(t)
  BY <1>8 DEF WhoAnswered
<1>9. CASE CheckAnswered(t)
  BY <1>9 DEF CheckAnswered
<1>10. CASE AddAnswered(t)
  BY <1>10 DEF AddAnswered, Adds
<1>11. CASE Raises(t)
  BY <1>11 DEF Raises, Writes, Adds
<1> QED
  BY <1>1, <1>2, <1>3, <1>4, <1>5, <1>6, <1>7, <1>8, <1>9, <1>10, <1>11 DEF Continue

\* What the NAS and the people do is watched.
LEMMA WorldProbe == Typed /\ ProbeInv /\ World => ProbeInv'
<1> SUFFICES ASSUME Typed, ProbeInv, World PROVE ProbeInv'
  OBVIOUS
<1> USE DEF Typed, TypeOK, ProbeInv, FaultSeen, HeldInv, TakenRefused,
            Reachable, CanLogin, world, ghosts, Act, Watched
<1>1. CASE SshdReloads
  BY <1>1 DEF SshdReloads
<1>2. CASE ControlPanel
  BY <1>2 DEF ControlPanel
<1>3. CASE OthersListen
  BY <1>3 DEF OthersListen
<1>4. CASE AdminsChange
  BY <1>4 DEF AdminsChange
<1>5. CASE LinkLost
  BY <1>5 DEF LinkLost, Fault
<1> QED
  BY <1>1, <1>2, <1>3, <1>4, <1>5 DEF World

\* A port that something else holds all the time is never written, however the
\* calls interleave, as long as SSH and ss answer.
THEOREM TakenAlwaysRefused == Spec => []TakenRefused
<1>1. Init => ProbeInv
  BY DEF Init, ProbeInv, FaultSeen, HeldInv, TakenRefused
<1>2. Typed /\ ProbeInv /\ [Next]_vars => ProbeInv'
  <2> SUFFICES ASSUME Typed, ProbeInv, [Next]_vars PROVE ProbeInv'
    OBVIOUS
  <2>1. CASE UNCHANGED vars
    BY <2>1 DEF vars, world, ghosts, ProbeInv, FaultSeen, HeldInv, TakenRefused,
                Reachable, CanLogin
  <2> QED
    BY <2>1, StepProbe, WorldProbe DEF Next, World
<1>3. ProbeInv => TakenRefused
  BY DEF ProbeInv, HeldInv
<1> QED
  BY <1>1, <1>2, <1>3, TypedAlways, PTL DEF Spec

-------------------------------------------------------------------------------

\* What a call wants stored is: its port, and SSH on if it was.
Stored(t) ==
    /\ terminal.port = op[t].port
    /\ seen[t] # Bare /\ seen[t].ssh => terminal.ssh

\* As long as nobody else writes, what a call has read is what is stored, and then
\* what it has written is, to the end of the call and after it.
Own ==
    \A t \in Tasks :
        /\ result[t] \in {"verified", "unverified"} => pc[t] = "done"
        /\ stable[t] =>
             /\ pc[t] \in {"ss", "netstat", "set"} /\ seen[t] # Bare => seen[t] = terminal
             /\ pc[t] = "verify" => Stored(t)
             /\ result[t] \in {"verified", "unverified"} => Stored(t)

\* What the action property says of a call t.
Keeps(t) ==
    pc[t] = "set" /\ pc'[t] # "set" /\ stable[t] /\ seen[t] # Bare =>
        terminal' \in {terminal, [terminal EXCEPT !.port = op[t].port]}

\* A step of one call does not end another.
LEMMA OthersWait ==
  ASSUME Typed, NEW t \in Tasks, NEW u \in Tasks \ {t}, Begin(t) \/ Continue(t)
  PROVE  pc'[u] = pc[u]
  BY DEF Typed, TypeOK, Continue, Begin, GetAnswered, ProbeAnswered, ProbeCut, ProbeFails,
         SetAnswered, VerifyAnswered, WhoAnswered, CheckAnswered, AddAnswered, Raises,
         Goto, Return

\* A write of t: what t has read, if it has, with t's port.
LEMMA WriteOwn ==
  ASSUME Typed, Own, NEW t \in Tasks, pc[t] = "set", Writes(t)
  PROVE  /\ terminal'.port = op[t].port
         /\ seen[t] # Bare /\ seen[t].ssh => terminal'.ssh
         /\ \A u \in Tasks : stable'[u] => u = t
         /\ stable[t] /\ seen[t] # Bare => terminal' = [terminal EXCEPT !.port = op[t].port]
<1>1. terminal' = [ssh |-> seen[t] # Bare /\ seen[t].ssh, port |-> op[t].port]
  BY DEF Writes, Payload
<1>2. ASSUME stable[t], seen[t] # Bare
      PROVE  terminal' = [terminal EXCEPT !.port = op[t].port]
  <2>1. seen[t] = terminal /\ terminal \in [ssh : BOOLEAN, port : Ports]
    BY <1>2 DEF Own, Typed, TypeOK, Settings
  <2>2. terminal' = [ssh |-> terminal.ssh, port |-> op[t].port]
    BY <1>1, <1>2, <2>1
  <2> QED
    BY <2>1, <2>2
<1>3. \A u \in Tasks : stable'[u] => u = t
  BY DEF Writes
<1> QED
  BY <1>1, <1>2, <1>3

\* The steps of a call: the write is the only one that changes the settings, and
\* makes every other call's view of them a stale one.
LEMMA StepOwn ==
  ASSUME Typed, Own, NEW t \in Tasks, Begin(t) \/ Continue(t)
  PROVE  Own' /\ Keeps(t)
<1> USE PortsAssumption, BareAssumption
    DEF Typed, TypeOK, Settings, Own, Keeps, Stored, world, ghosts, Goto, Return
<1>1. CASE Begin(t)
  BY <1>1 DEF Begin
<1>2. CASE GetAnswered(t)
  BY <1>2 DEF GetAnswered
<1>3. CASE ProbeAnswered(t)
  BY <1>3 DEF ProbeAnswered
<1>4. CASE ProbeCut(t)
  BY <1>4 DEF ProbeCut, Fault
<1>5. CASE ProbeFails(t)
  BY <1>5 DEF ProbeFails, Fault
<1>6. CASE SetAnswered(t)
  BY <1>6, WriteOwn DEF SetAnswered
<1>7. CASE VerifyAnswered(t)
  BY <1>7 DEF VerifyAnswered, CanLogin
<1>8. CASE WhoAnswered(t)
  BY <1>8 DEF WhoAnswered
<1>9. CASE CheckAnswered(t)
  BY <1>9 DEF CheckAnswered
<1>10. CASE AddAnswered(t)
  BY <1>10 DEF AddAnswered, Adds
<1>11. CASE Raises(t)
  <2>1. CASE UNCHANGED <<world, stable>>
    BY <1>11, <2>1 DEF Raises
  <2>2. CASE pc[t] = "set" /\ Writes(t)
    BY <1>11, <2>2, WriteOwn DEF Raises
  <2>3. CASE pc[t] = "add" /\ Adds /\ UNCHANGED stable
    BY <1>11, <2>3 DEF Raises, Adds
  <2> QED
    BY <1>11, <2>1, <2>2, <2>3 DEF Raises
<1> QED
  BY <1>1, <1>2, <1>3, <1>4, <1>5, <1>6, <1>7, <1>8, <1>9, <1>10, <1>11 DEF Continue

\* People who write make every call's view a stale one; nobody else writes.
LEMMA WorldOwn == Typed /\ Own /\ World => Own' /\ pc' = pc
<1> SUFFICES ASSUME Typed, Own, World PROVE Own' /\ pc' = pc
  OBVIOUS
<1> USE DEF Typed, TypeOK, Own, Stored, world, ghosts
<1>1. CASE SshdReloads
  BY <1>1 DEF SshdReloads
<1>2. CASE ControlPanel
  BY <1>2 DEF ControlPanel
<1>3. CASE OthersListen
  BY <1>3 DEF OthersListen
<1>4. CASE AdminsChange
  BY <1>4 DEF AdminsChange
<1>5. CASE LinkLost
  BY <1>5 DEF LinkLost, Fault
<1> QED
  BY <1>1, <1>2, <1>3, <1>4, <1>5 DEF World

\* All steps.
LEMMA NextOwn ==
  ASSUME Typed, Own, [Next]_vars
  PROVE  Own' /\ \A t \in Tasks : Keeps(t)
<1>1. CASE UNCHANGED vars
  BY <1>1 DEF vars, world, ghosts, Own, Keeps, Stored
<1>2. CASE World
  BY <1>2, WorldOwn DEF Keeps
<1>3. ASSUME NEW t \in Tasks, Begin(t) \/ Continue(t)
      PROVE  Own' /\ \A u \in Tasks : Keeps(u)
  <2>1. Own' /\ Keeps(t)
    BY <1>3, StepOwn
  <2>2. ASSUME NEW u \in Tasks \ {t}
        PROVE  Keeps(u)
    <3>1. pc'[u] = pc[u]
      BY <1>3, OthersWait
    <3> QED
      BY <3>1 DEF Keeps
  <2> QED
    BY <2>1, <2>2
<1> QED
  BY <1>1, <1>2, <1>3 DEF Next, World

\* The settings are the call's own, always.
LEMMA OwnAlways == Spec => []Own
<1>1. Init => Own
  BY DEF Init, Own
<1>2. Typed /\ Own /\ [Next]_vars => Own'
  BY NextOwn
<1> QED
  BY <1>1, <1>2, TypedAlways, PTL DEF Spec

\* A write of ssh_set_port changes the port and nothing else that nobody touched.
THEOREM SettingsAlwaysKept == Spec => SettingsKept
<1>1. Typed /\ Own /\ [Next]_vars =>
        [\A t \in Tasks :
           pc[t] = "set" /\ pc'[t] # "set" /\ stable[t] /\ seen[t] # Bare =>
             terminal' \in {terminal, [terminal EXCEPT !.port = op[t].port]}]_vars
  BY NextOwn DEF Keeps
<1> QED
  BY <1>1, TypedAlways, OwnAlways, PTL DEF Spec, SettingsKept

\* What ssh_set_port has answered for stays stored until somebody else writes.
THEOREM AnsweredAlwaysHolds == Spec => []AnsweredHolds
<1>1. Own => AnsweredHolds
  BY DEF Own, Stored, AnsweredHolds
<1> QED
  BY <1>1, OwnAlways, PTL
===============================================================================
