-------------------------- MODULE SshTransportProofs --------------------------
(***************************************************************************)
(* Proofs about SshTransport for any set of callers, of clients, and any   *)
(* number of faults.                                                       *)
(***************************************************************************)
EXTENDS SshTransport, TLAPS

\* One step of one caller.
Step(c) ==
    \/ Call(c) \/ Connected(c) \/ ConnectFailed(c) \/ Execute(c)
    \/ Reply(c, "ok") \/ Reply(c, "exit") \/ Cut(c)
    \/ ChannelError(c) \/ ChannelRefused(c) \/ ClosedUnderCall(c) \/ ReadTimeout(c)

\* Executions never get ahead of attempts: the first attempt executed at
\* most once, and an attempt that has not been executed yet leaves room for
\* one.  This is what bounds runs, and TypeOK alone does not imply it.
RunsWithinAttempts ==
    \A c \in Callers :
        /\ pc[c] = "read" => runs[c] \in 1..attempt[c]
        /\ pc[c] \in {"connect", "open"} => runs[c] < attempt[c]

\* A caller beyond its connect holds a client; one that awaits it holds none.
HoldsClient ==
    \A c \in Callers : pc[c] \in {"open", "read"} <=> client[c] # NoConn

Typed == TypeOK /\ HoldsClient /\ RunsWithinAttempts

\* A fault stays within the bound and the types.
LEMMA FaultTyped ==
  ASSUME TypeOK, Fault
  PROVE  faults' \in 0..MaxFaults /\ calm' \in BOOLEAN
<1>1. faults' \in 0..MaxFaults
  BY MaxFaultsAssumption DEF Fault, TypeOK
<1>2. calm' \in BOOLEAN
  BY Zenon DEF Fault
<1> QED
  BY <1>1, <1>2

\* The empty cache and the idle callers the process starts with.
LEMMA InitTyped == Init => Typed
  BY NoConnAssumption, MaxFaultsAssumption
     DEF Init, Typed, TypeOK, HoldsClient, RunsWithinAttempts,
         Links, Places, Failures

\* Every step of a caller preserves the types, the shape of its locals and
\* the bound on executions.
LEMMA StepTyped ==
  ASSUME Typed, NEW c \in Callers, Step(c)
  PROVE  Typed'
<1> USE NoConnAssumption, MaxFaultsAssumption
      DEF Typed, TypeOK, HoldsClient, RunsWithinAttempts, Links, Places, Failures
<1>1. CASE Call(c)
  BY <1>1 DEF Call
<1>2. CASE Connected(c)
  BY <1>2 DEF Connected, Fresh
<1>3. CASE ConnectFailed(c)
  BY <1>3 DEF ConnectFailed, Return
<1>4. CASE Execute(c)
  BY <1>4 DEF Execute
<1>5. ASSUME NEW how \in {"ok", "exit"}, Reply(c, how)
      PROVE  Typed'
  BY <1>5 DEF Reply, Return
<1>6. CASE Cut(c)
  BY <1>6 DEF Cut, Return
<1>7. ASSUME Recover(c), pc[c] \in {"open", "read"}, faults' \in 0..MaxFaults,
             calm' \in BOOLEAN
      PROVE  Typed'
  BY <1>7 DEF Recover, Close, Return
<1>8. CASE ClosedUnderCall(c)
  BY <1>8 DEF ClosedUnderCall, Return
<1>9. CASE ChannelError(c)
  BY <1>9, <1>7 DEF ChannelError
<1>10. CASE ChannelRefused(c) \/ ReadTimeout(c)
  <2>1. Fault /\ Recover(c) /\ pc[c] \in {"open", "read"}
    BY <1>10 DEF ChannelRefused, ReadTimeout
  <2> QED
    BY <2>1, <1>7, FaultTyped
<1> QED
  BY <1>1, <1>2, <1>3, <1>4, <1>5, <1>6, <1>8, <1>9, <1>10 DEF Step

\* Losing a link changes no caller.
LEMMA LinkLostTyped ==
  ASSUME Typed, NEW x \in Conns, LinkLost(x)
  PROVE  Typed'
  BY FaultTyped
     DEF LinkLost, Typed, TypeOK, HoldsClient, RunsWithinAttempts, Links, Places, Failures

\* The next-state relation is a step of a caller or the loss of a link.
LEMMA NextSteps ==
  Next <=> (\E c \in Callers : Step(c)) \/ (\E x \in Conns : LinkLost(x))
  BY DEF Next, Step

\* The types, with what makes them inductive.
LEMMA TypedAlways == Spec => []Typed
<1>1. Typed /\ [Next]_vars => Typed'
  <2> SUFFICES ASSUME Typed, [Next]_vars PROVE Typed'
    OBVIOUS
  <2>1. CASE UNCHANGED vars
    BY <2>1 DEF vars, Typed, TypeOK, HoldsClient, RunsWithinAttempts
  <2> QED
    BY <2>1, NextSteps, StepTyped, LinkLostTyped
<1> QED
  BY InitTyped, <1>1, PTL DEF Spec

\* In every reachable state the variables have their types, for any number of
\* callers, clients and faults; in particular no call is executed a third
\* time and no third attempt is made.
THEOREM TypeCorrect == Spec => []TypeOK
<1>1. Typed => TypeOK
  BY DEF Typed
<1> QED
  BY <1>1, TypedAlways, PTL

-------------------------------------------------------------------------------

\* close() empties the cache as it closes the client in it, and only a client
\* that has just connected enters the cache: no call ever starts on a client
\* another call has closed.
THEOREM CacheNeverClosed == Spec => []CacheNotClosed
<1>1. Init => CacheNotClosed
  BY DEF Init, CacheNotClosed
<1>2. Typed /\ CacheNotClosed /\ [Next]_vars => CacheNotClosed'
  <2> SUFFICES ASSUME Typed, CacheNotClosed, [Next]_vars
               PROVE  CacheNotClosed'
    OBVIOUS
  <2> USE NoConnAssumption DEF CacheNotClosed, Typed, TypeOK, Links
  <2>1. CASE UNCHANGED vars
    BY <2>1 DEF vars
  <2>2. ASSUME NEW c \in Callers, Connected(c)
        PROVE  CacheNotClosed'
    BY <2>2 DEF Connected, Fresh
  <2>3. ASSUME NEW c \in Callers, ChannelError(c) \/ ChannelRefused(c) \/ ReadTimeout(c)
        PROVE  CacheNotClosed'
    BY <2>3 DEF ChannelError, ChannelRefused, ReadTimeout, Recover, Close
  <2>4. ASSUME NEW c \in Callers,
               \/ Call(c) \/ ConnectFailed(c) \/ Execute(c)
               \/ Reply(c, "ok") \/ Reply(c, "exit") \/ Cut(c) \/ ClosedUnderCall(c)
        PROVE  UNCHANGED <<cache, link>>
    BY <2>4 DEF Call, ConnectFailed, Execute, Reply, Cut, ClosedUnderCall
  <2>5. ASSUME NEW x \in Conns, LinkLost(x)
        PROVE  CacheNotClosed'
    BY <2>5 DEF LinkLost, Fault
  <2> QED
    BY <2>1, <2>2, <2>3, <2>4, <2>5, NextSteps DEF Step
<1> QED
  BY <1>1, <1>2, TypedAlways, PTL DEF Spec

-------------------------------------------------------------------------------

\* Without a fault no client is ever closed or lost.  Strengthens
\* QuietWithoutFaults to an inductive invariant: the links, not only what the
\* callers saw of them, must be intact.
AllLinksIntact ==
    faults = 0 => \A x \in Conns : link[x] \in {"new", "up"}

\* A client a caller holds has been connected.
HeldConnected ==
    \A c \in Callers : client[c] # NoConn => link[client[c]] # "new"

\* The cached client has been connected.
CacheConnected == cache # NoConn => link[cache] # "new"

Quiet == QuietWithoutFaults /\ AllLinksIntact /\ HeldConnected /\ CacheConnected

\* A caller step preserves Quiet: an error path needs a link that is not up,
\* which no fault-free history has, or counts a fault itself.
LEMMA StepQuiet ==
  ASSUME Typed, Quiet, NEW c \in Callers, Step(c)
  PROVE  Quiet'
<1> USE NoConnAssumption, MaxFaultsAssumption
      DEF Quiet, QuietWithoutFaults, AllLinksIntact, HeldConnected, CacheConnected,
          Typed, TypeOK, HoldsClient, Links
<1>1. CASE Call(c)
  BY <1>1 DEF Call
<1>2. CASE Connected(c)
  BY <1>2 DEF Connected, Fresh
<1>3. CASE ConnectFailed(c)
  BY <1>3 DEF ConnectFailed, Return
<1>4. CASE Execute(c)
  BY <1>4 DEF Execute
<1>5. ASSUME NEW how \in {"ok", "exit"}, Reply(c, how)
      PROVE  Quiet'
  BY <1>5 DEF Reply, Return
<1>6. CASE Cut(c)
  BY <1>6 DEF Cut, Return
<1>7. CASE ChannelError(c)
  BY <1>7 DEF ChannelError, Recover, Close, Return
<1>8. CASE ClosedUnderCall(c)
  BY <1>8 DEF ClosedUnderCall, Return
<1>9. CASE ChannelRefused(c) \/ ReadTimeout(c)
  BY <1>9 DEF ChannelRefused, ReadTimeout, Fault, Recover, Close, Return
<1> QED
  BY <1>1, <1>2, <1>3, <1>4, <1>5, <1>6, <1>7, <1>8, <1>9 DEF Step

\* With no link lost, no channel refused and no read timed out, the connect
\* race alone causes no retry and no channel error, however many callers
\* replace each other's clients.
THEOREM RaceIsHarmless == Spec => []QuietWithoutFaults
<1>1. Init => Quiet
  BY NoConnAssumption
     DEF Init, Quiet, QuietWithoutFaults, AllLinksIntact, HeldConnected, CacheConnected
<1>2. Typed /\ Quiet /\ [Next]_vars => Quiet'
  <2> SUFFICES ASSUME Typed, Quiet, [Next]_vars PROVE Quiet'
    OBVIOUS
  <2>1. CASE UNCHANGED vars
    BY <2>1 DEF vars, Quiet, QuietWithoutFaults, AllLinksIntact, HeldConnected,
                CacheConnected
  <2>2. ASSUME NEW x \in Conns, LinkLost(x)
        PROVE  Quiet'
    BY <2>2, MaxFaultsAssumption
       DEF LinkLost, Fault, Quiet, QuietWithoutFaults, AllLinksIntact, HeldConnected,
           CacheConnected, Typed, TypeOK
  <2> QED
    BY <2>1, <2>2, StepQuiet, NextSteps
<1>3. Quiet => QuietWithoutFaults
  BY DEF Quiet
<1> QED
  BY <1>1, <1>2, <1>3, TypedAlways, PTL DEF Spec

-------------------------------------------------------------------------------

\* The call in a calm period is the only one.
CalmAlone ==
    calm => \A c, d \in Callers : pc[c] # "idle" /\ pc[d] # "idle" => c = d

\* Where that call stands: before its command runs, it is on a client nobody
\* closed, on a live one if this is the second attempt; a command that runs is
\* the first and its client is live.
CalmCall ==
    calm => \A c \in Callers :
        /\ pc[c] \in {"connect", "open"} => runs[c] = 0
        /\ pc[c] = "open" => link[client[c]] \in {"up", "lost"}
        /\ pc[c] = "open" /\ attempt[c] = 2 => link[client[c]] = "up"
        /\ pc[c] = "read" => runs[c] = 1 /\ link[client[c]] = "up"
        /\ pc[c] # "idle" => outcome[c] = "none"

Calm == CalmAlone /\ CalmCall

\* A caller step preserves Calm.  A call starts on a client that CacheNotClosed
\* says nobody closed; the retry connects anew, and nobody else is there to
\* close the new client.
LEMMA StepCalm ==
  ASSUME Typed, CacheNotClosed, Calm, NEW c \in Callers, Step(c)
  PROVE  Calm'
<1> USE NoConnAssumption
      DEF Calm, CalmAlone, CalmCall, Typed, TypeOK, HoldsClient, Links, Places
<1>1. CASE Call(c)
  BY <1>1 DEF Call, CacheNotClosed
<1>2. CASE Connected(c)
  BY <1>2 DEF Connected, Fresh
<1>3. ASSUME NEW how, Return(c, how), UNCHANGED <<link, attempt, runs, calm>>
      PROVE  Calm'
  BY <1>3 DEF Return
<1>4. CASE Execute(c)
  BY <1>4 DEF Execute
<1>5. CASE ConnectFailed(c) \/ Reply(c, "ok") \/ Reply(c, "exit") \/ Cut(c)
             \/ ClosedUnderCall(c)
  BY <1>3, <1>5 DEF ConnectFailed, Reply, Cut, ClosedUnderCall
<1>6. CASE ChannelError(c)
  <2> SUFFICES ASSUME calm PROVE Calm'
    BY <1>6 DEF ChannelError
  <2>1. pc[c] = "open" /\ attempt[c] = 1 /\ \A d \in Callers \ {c} : pc[d] = "idle"
    BY <1>6 DEF ChannelError
  <2> QED
    BY <1>6, <2>1 DEF ChannelError, Recover
<1>7. CASE ChannelRefused(c) \/ ReadTimeout(c)
  BY <1>7 DEF ChannelRefused, ReadTimeout, Fault
<1> QED
  BY <1>1, <1>2, <1>4, <1>5, <1>6, <1>7 DEF Step

\* Calm holds in every reachable state.
LEMMA CalmAlways == Spec => []Calm
<1>1. Init => Calm
  BY DEF Init, Calm, CalmAlone, CalmCall
<1>2. Typed /\ CacheNotClosed /\ Calm /\ [Next]_vars => Calm'
  <2> SUFFICES ASSUME Typed, CacheNotClosed, Calm, [Next]_vars PROVE Calm'
    OBVIOUS
  <2>1. CASE UNCHANGED vars
    BY <2>1 DEF vars, Calm, CalmAlone, CalmCall
  <2>2. ASSUME NEW x \in Conns, LinkLost(x)
        PROVE  Calm'
    BY <2>2 DEF LinkLost, Fault, Calm, CalmAlone, CalmCall
  <2> QED
    BY <2>1, <2>2, StepCalm, NextSteps
<1> QED
  BY <1>1, <1>2, TypedAlways, CacheNeverClosed, PTL DEF Spec

\* Whatever earlier calls left in the cache, a call that runs by itself and
\* meets no fault executes its command at most once and never ends in a dead
\* channel, for any number of callers and clients.
THEOREM StaleClientsHarmless == Spec => StaleClientHarmless
<1> DEFINE Harmless == \A c \in Callers :
             calm' /\ pc[c] # "idle"
               => runs'[c] <= 1 /\ outcome'[c] \notin {"channel", "cut", "escape"}
<1>1. Typed /\ Calm /\ [Next]_vars => [Harmless]_vars
  <2> SUFFICES ASSUME Typed, Calm, Next, NEW c \in Callers, calm', pc[c] # "idle"
               PROVE  runs'[c] <= 1 /\ outcome'[c] \notin {"channel", "cut", "escape"}
    BY DEF Harmless
  <2> USE DEF Typed, TypeOK, Calm, CalmAlone, CalmCall, Places
  <2>1. ~\E x \in Conns : LinkLost(x)
    BY DEF LinkLost, Fault
  <2>2. PICK d \in Callers : Step(d)
    BY <2>1, NextSteps
  <2>3. ~(Call(d) \/ ChannelRefused(d) \/ ReadTimeout(d))
    BY DEF Call, ChannelRefused, ReadTimeout, Fault
  <2>4. calm
    BY <2>2, <2>3 DEF Step, Connected, ConnectFailed, Execute, Reply, Cut, ChannelError,
                      ClosedUnderCall
  <2>5. pc[d] # "idle"
    BY <2>2, <2>3 DEF Step, Connected, ConnectFailed, Execute, Reply, Cut, ChannelError,
                      ClosedUnderCall
  <2>6. c = d
    BY <2>4, <2>5
  <2>7. ~(Cut(d) \/ ClosedUnderCall(d))
    BY <2>4 DEF Cut, ClosedUnderCall
  <2>8. CASE ConnectFailed(d) \/ Reply(d, "ok") \/ Reply(d, "exit")
    BY <2>4, <2>6, <2>8 DEF ConnectFailed, Reply, Return
  <2>9. CASE Connected(d) \/ Execute(d)
    BY <2>4, <2>6, <2>9 DEF Connected, Execute
  <2>10. CASE ChannelError(d)
    BY <2>4, <2>6, <2>10 DEF ChannelError, Recover
  <2> QED
    BY <2>2, <2>3, <2>7, <2>8, <2>9, <2>10 DEF Step
<1> QED
  BY <1>1, TypedAlways, CalmAlways, PTL DEF Spec, StaleClientHarmless, Harmless

-------------------------------------------------------------------------------

\* Each step of run() is a step of the promise or invisible to it.
LEMMA StepImplements ==
  ASSUME Typed, NEW c \in Callers, Step(c)
  PROVE  [Promise!Next]_(Promise!vars)
<1> USE DEF Typed, TypeOK, HoldsClient, RunsWithinAttempts, Places, Failures,
            Promise!vars
<1>1. CASE Call(c)
  <2>1. Promise!Begin(c)
    BY <1>1 DEF Call, Promise!Begin
  <2> QED
    BY <2>1 DEF Promise!Next
<1>2. CASE Connected(c)
  BY <1>2 DEF Connected
<1>3. CASE Execute(c)
  <2>1. runs[c] < 2 /\ pc[c] # "idle"
    BY <1>3 DEF Execute
  <2>2. \A d \in Callers : (pc'[d] # "idle") <=> (pc[d] # "idle")
    BY <1>3 DEF Execute
  <2>3. [d \in Callers |-> pc'[d] # "idle"] = [d \in Callers |-> pc[d] # "idle"]
    BY <2>2, Zenon
  <2>4. Promise!Execute(c)
    BY <1>3, <2>1, <2>3 DEF Execute, Promise!Execute
  <2> QED
    BY <2>4 DEF Promise!Next
<1>4. ASSUME NEW how \in Promise!Outcomes, Return(c, how), UNCHANGED runs, pc[c] # "idle",
             how \in {"ok", "exit", "cut"} => runs[c] > 0
      PROVE  [Promise!Next]_(Promise!vars)
  <2>1. Promise!End(c, how)
    BY <1>4 DEF Return, Promise!End
  <2> QED
    BY <2>1 DEF Promise!Next
<1>5. CASE ConnectFailed(c)
  BY <1>4, <1>5 DEF ConnectFailed, Promise!Outcomes
<1>6. ASSUME NEW how \in {"ok", "exit"}, Reply(c, how)
      PROVE  [Promise!Next]_(Promise!vars)
  BY <1>4, <1>6 DEF Reply, Promise!Outcomes
<1>7. CASE Cut(c)
  BY <1>4, <1>7 DEF Cut, Promise!Outcomes
<1>8. CASE ClosedUnderCall(c)
  BY <1>4, <1>8 DEF ClosedUnderCall, Promise!Outcomes
<1>9. ASSUME Recover(c), pc[c] \in {"open", "read"}
      PROVE  [Promise!Next]_(Promise!vars)
  <2>1. CASE attempt[c] = 1
    BY <1>9, <2>1 DEF Recover
  <2>2. CASE attempt[c] = 2
    BY <1>4, <1>9, <2>2 DEF Recover, Promise!Outcomes
  <2> QED
    BY <2>1, <2>2
<1>10. CASE ChannelError(c) \/ ChannelRefused(c) \/ ReadTimeout(c)
  BY <1>9, <1>10 DEF ChannelError, ChannelRefused, ReadTimeout
<1> QED
  BY <1>1, <1>2, <1>3, <1>5, <1>6, <1>7, <1>8, <1>10 DEF Step

\* run() implements RemoteExec: zero to two executions per call, at least one
\* behind every result, none once the call has ended.
THEOREM RunImplementsRemoteExec == Spec => ImplementsRemoteExec
<1>1. Init => Promise!Init
  BY DEF Init, Promise!Init
<1>2. Typed /\ [Next]_vars => [Promise!Next]_(Promise!vars)
  <2> SUFFICES ASSUME Typed, [Next]_vars PROVE [Promise!Next]_(Promise!vars)
    OBVIOUS
  <2>1. CASE UNCHANGED vars
    BY <2>1 DEF vars, Promise!vars
  <2>2. ASSUME NEW x \in Conns, LinkLost(x)
        PROVE  [Promise!Next]_(Promise!vars)
    BY <2>2 DEF LinkLost, Fault, Promise!vars
  <2> QED
    BY <2>1, <2>2, StepImplements, NextSteps
<1> QED
  BY <1>1, <1>2, TypedAlways, PTL DEF Spec, ImplementsRemoteExec, Promise!Spec
===============================================================================
