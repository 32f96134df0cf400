----------------------------- MODULE SshTransport -----------------------------
(***************************************************************************)
(* transport/ssh.py: the DSMSshClient of one host, shared by every tool    *)
(* call that sends a command to it.  run() is a coroutine; it gives up the *)
(* event loop only while an executor thread connects (_connect_sync) or    *)
(* executes (_exec_command_sync).  Every action below is one stretch of    *)
(* run() between two such points, with the thread's work it awaited, or a  *)
(* step of the world (a link lost, a command executed).                    *)
(*                                                                         *)
(* A connection is one paramiko.SSHClient.  An identity that neither the   *)
(* cache nor a coroutine refers to is unreachable and may be used again    *)
(* for a new one, which keeps Conns finite.                                *)
(***************************************************************************)
EXTENDS Naturals, FiniteSets

CONSTANTS
    Callers,         \* coroutines that call run() on this host
    Conns,           \* identities of paramiko clients
    NoConn,          \* Python's None
    MaxFaults        \* bound: links lost, channels refused, reads timed out

ASSUME CallersAssumption == IsFiniteSet(Callers)
ASSUME ConnsAssumption ==
    \* the cache and every other caller may hold a client while one connects
    IsFiniteSet(Conns) /\ Cardinality(Conns) > Cardinality(Callers)
ASSUME NoConnAssumption == NoConn \notin Conns
ASSUME MaxFaultsAssumption == MaxFaults \in Nat

VARIABLES
    cache,           \* self._client
    link,            \* link[x]: "new", "up", "lost" (by the network), "closed" (by close())
    pc,              \* pc[c]: "idle", or what run() awaits: "connect", "open", "read"
    attempt,         \* attempt[c]: the loop variable of run()
    client,          \* client[c]: the local variable of run()
    runs,            \* history: executions of c's current command on the NAS
    outcome,         \* how c's last run() ended
    faults,          \* history: faults so far
    calm             \* history: the last call began alone, and neither another call
                     \* nor a fault has come since

vars == <<cache, link, pc, attempt, client, runs, outcome, faults, calm>>

Links == {"new", "up", "lost", "closed"}
Places == {"idle", "connect", "open", "read"}
Failures == {"exit", "cut", "channel", "connect", "escape"}

TypeOK ==
    /\ cache   \in Conns \cup {NoConn}
    /\ link    \in [Conns -> Links]
    /\ pc      \in [Callers -> Places]
    /\ attempt \in [Callers -> 1..2]
    /\ client  \in [Callers -> Conns \cup {NoConn}]
    /\ runs    \in [Callers -> 0..2]
    /\ outcome \in [Callers -> Failures \cup {"none", "ok"}]
    /\ faults  \in 0..MaxFaults
    /\ calm    \in BOOLEAN

Init ==
    /\ cache   = NoConn
    /\ link    = [x \in Conns |-> "new"]
    /\ pc      = [c \in Callers |-> "idle"]
    /\ attempt = [c \in Callers |-> 1]
    /\ client  = [c \in Callers |-> NoConn]
    /\ runs    = [c \in Callers |-> 0]
    /\ outcome = [c \in Callers |-> "none"]
    /\ faults  = 0
    /\ calm    = TRUE

-------------------------------------------------------------------------------
(* run() and what it calls                                                 *)

\* Clients nothing refers to.
Fresh == {x \in Conns : x # cache /\ \A c \in Callers : x # client[c]}

\* run() is called.  _ensure_client returns the cached client without
\* suspending, or awaits _connect_sync.
Call(c) ==
    /\ pc[c] = "idle"
    /\ pc'      = [pc EXCEPT ![c] = IF cache = NoConn THEN "connect" ELSE "open"]
    /\ client'  = [client EXCEPT ![c] = cache]
    /\ attempt' = [attempt EXCEPT ![c] = 1]
    /\ runs'    = [runs EXCEPT ![c] = 0]
    /\ outcome' = [outcome EXCEPT ![c] = "none"]
    /\ calm'    = (\A d \in Callers : pc[d] = "idle")
    /\ UNCHANGED <<cache, link, faults>>

\* Mutant of Connected: it closes the client it replaces in the cache.
ConnectedClosesOld(c) ==
    /\ pc[c] = "connect"
    /\ \E x \in Fresh :
         /\ link'   = [y \in Conns |-> IF y = x THEN "up"
                                      ELSE IF y = cache THEN "closed" ELSE link[y]]
         /\ cache'  = x
         /\ client' = [client EXCEPT ![c] = x]
    /\ pc' = [pc EXCEPT ![c] = "open"]
    /\ UNCHANGED <<attempt, runs, outcome, faults, calm>>

\* _connect_sync succeeded: the new client replaces whatever is cached by
\* now, and the coroutine goes on with it.
Connected(c) ==
    /\ pc[c] = "connect"
    /\ \E x \in Fresh :
         /\ link'   = [link EXCEPT ![x] = "up"]
         /\ cache'  = x
         /\ client' = [client EXCEPT ![c] = x]
    /\ pc' = [pc EXCEPT ![c] = "open"]
    /\ UNCHANGED <<attempt, runs, outcome, faults, calm>>

\* The call ends: its locals go out of scope.
Return(c, how) ==
    /\ pc'      = [pc EXCEPT ![c] = "idle"]
    /\ client'  = [client EXCEPT ![c] = NoConn]
    /\ outcome' = [outcome EXCEPT ![c] = how]

\* _connect_sync raised DSMSshError, which run() does not catch.
ConnectFailed(c) ==
    /\ pc[c] = "connect"
    /\ Return(c, "connect")
    /\ UNCHANGED <<cache, link, attempt, runs, faults, calm>>

\* exec_command opens a channel and the NAS runs the command.
Execute(c) ==
    /\ pc[c] = "open"
    /\ link[client[c]] = "up"
    /\ pc'   = [pc EXCEPT ![c] = "read"]
    /\ runs' = [runs EXCEPT ![c] = @ + 1]
    /\ UNCHANGED <<cache, link, attempt, client, outcome, faults, calm>>

\* The output and an exit status arrive; a non-zero one raises (check=True).
Reply(c, how) ==
    /\ pc[c] = "read"
    /\ link[client[c]] = "up"
    /\ Return(c, how)
    /\ UNCHANGED <<cache, link, attempt, runs, faults, calm>>

\* The channel died under the read, which ends early; recv_exit_status is -1,
\* to run() a non-zero status like any other: no retry.
Cut(c) ==
    /\ pc[c] = "read"
    /\ link[client[c]] # "up"
    /\ Return(c, "cut")
    /\ UNCHANGED <<cache, link, attempt, runs, faults, calm>>

\* Mutant of Close: self._client stays set.
CloseKeepsCache ==
    /\ link'  = [x \in Conns |-> IF x = cache THEN "closed" ELSE link[x]]
    /\ cache' = cache

\* DSMSshClient.close(): the client cached now, whoever opened it.
Close ==
    /\ link'  = [x \in Conns |-> IF x = cache THEN "closed" ELSE link[x]]
    /\ cache' = NoConn

\* Mutants of Recover: a third attempt; no count of attempts; a second
\* attempt on the client the first one failed on.
RecoverThrice(c) ==
    /\ Close
    /\ attempt' = [attempt EXCEPT ![c] = @ + 1]
    /\ \/ /\ attempt[c] < 3
          /\ pc'     = [pc EXCEPT ![c] = "connect"]
          /\ client' = [client EXCEPT ![c] = NoConn]
          /\ UNCHANGED outcome
       \/ attempt[c] = 3 /\ Return(c, "channel")
    /\ UNCHANGED runs

RecoverForever(c) ==
    /\ Close
    /\ pc'     = [pc EXCEPT ![c] = "connect"]
    /\ client' = [client EXCEPT ![c] = NoConn]
    /\ UNCHANGED <<attempt, runs, outcome>>

RecoverOnSameClient(c) ==
    /\ \/ /\ attempt[c] = 1
          /\ attempt' = [attempt EXCEPT ![c] = 2]
          /\ pc'      = [pc EXCEPT ![c] = "open"]
          /\ UNCHANGED <<cache, link, client, outcome>>
       \/ /\ attempt[c] = 2
          /\ Close
          /\ Return(c, "channel")
          /\ UNCHANGED attempt
    /\ UNCHANGED runs

\* run()'s handlers of SSHException and OSError.  With nothing cached, the
\* second attempt awaits a connection of its own at once.
Recover(c) ==
    /\ Close
    /\ \/ /\ attempt[c] = 1
          /\ attempt' = [attempt EXCEPT ![c] = 2]
          /\ pc'      = [pc EXCEPT ![c] = "connect"]
          /\ client'  = [client EXCEPT ![c] = NoConn]
          /\ UNCHANGED outcome
       \/ /\ attempt[c] = 2
          /\ Return(c, "channel")
          /\ UNCHANGED attempt
    /\ UNCHANGED runs

\* What the network and the NAS do to a client in use.
Fault ==
    /\ faults < MaxFaults
    /\ faults' = faults + 1
    /\ calm'   = FALSE

\* The client is closed or its transport is gone: exec_command raises, before
\* the command ran ("open") or after ("read").
ChannelError(c) ==
    /\ pc[c] \in {"open", "read"}
    /\ link[client[c]] # "up"
    /\ Recover(c)
    /\ UNCHANGED <<faults, calm>>

\* On a link that is up, exec_command also raises an SSHException when sshd
\* refuses the channel or is too slow to open it; run() handles it as it
\* handles a dead link, and closes the client for everyone who uses it.
ChannelRefused(c) ==
    /\ pc[c] = "open"
    /\ link[client[c]] = "up"
    /\ Fault
    /\ Recover(c)

\* exec_command on a client that close() has emptied (no transport left)
\* raises neither SSHException nor OSError, and run() lets it through.
ClosedUnderCall(c) ==
    /\ pc[c] = "open"
    /\ link[client[c]] = "closed"
    /\ Return(c, "escape")
    /\ UNCHANGED <<cache, link, attempt, runs, faults, calm>>

\* socket.timeout, an OSError: the command ran, or still runs, on the NAS.
ReadTimeout(c) ==
    /\ pc[c] = "read"
    /\ Fault
    /\ Recover(c)

\* DSM's idle disconnect, a network fault, a restart of sshd.
LinkLost(x) ==
    /\ link[x] = "up"
    /\ Fault
    /\ link'   = [link EXCEPT ![x] = "lost"]
    /\ UNCHANGED <<cache, pc, attempt, client, runs, outcome>>

-------------------------------------------------------------------------------

Next ==
    \/ \E c \in Callers :
         \/ Call(c)
         \/ Connected(c)
         \/ ConnectFailed(c)
         \/ Execute(c)
         \/ Reply(c, "ok")
         \/ Reply(c, "exit")
         \/ Cut(c)
         \/ ChannelError(c)
         \/ ChannelRefused(c)
         \/ ClosedUnderCall(c)
         \/ ReadTimeout(c)
    \/ \E x \in Conns : LinkLost(x)

\* The steps that end what a call awaits.  Every await of run() ends:
\* connect() and the channel carry timeouts.
Progress(c) ==
    \/ Connected(c) \/ ConnectFailed(c)
    \/ Execute(c)
    \/ Reply(c, "ok") \/ Reply(c, "exit") \/ Cut(c)
    \/ ChannelError(c) \/ ClosedUnderCall(c)

Spec == Init /\ [][Next]_vars

FairSpec == Spec /\ \A c \in Callers : WF_vars(Progress(c))

-------------------------------------------------------------------------------
(* Properties                                                              *)

\* The client in the cache is one the program has not closed: whatever other
\* callers close in the meantime, a new call starts on a client that was left
\* open, and at worst lost to the network.
CacheNotClosed == cache # NoConn => link[cache] \in {"up", "lost"}

\* What earlier calls leave behind does no harm.  They may have left a dead
\* client in the cache (a command cut short does), or closed and replaced each
\* other's clients; still a call that runs by itself, with no fault while it
\* runs, executes its command at most once and never ends in a dead channel:
\* it finds out before the command runs, and the retry is on a live client.
StaleClientHarmless ==
    [][\A c \in Callers :
         calm' /\ pc[c] # "idle"
           => runs'[c] <= 1 /\ outcome'[c] \notin {"channel", "cut", "escape"}]_vars

\* The connect race does no harm by itself: as long as no link is lost, no
\* channel refused and no read timed out, no call is retried and none sees a
\* dead channel, although callers replace each other's clients in the cache.
QuietWithoutFaults ==
    faults = 0 => \A c \in Callers :
        attempt[c] = 1 /\ outcome[c] \notin {"channel", "cut", "escape"}

\* Every call ends, although two callers can close each other's new clients:
\* the loop gives up after the second attempt.
EveryCallReturns == \A c \in Callers : pc[c] # "idle" ~> pc[c] = "idle"

\* run() implements the promise of RemoteExec: at most two executions, at
\* least one behind every "ok", none after the call has ended.
Promise == INSTANCE RemoteExec
             WITH busy <- [c \in Callers |-> pc[c] # "idle"]

ImplementsRemoteExec == Promise!Spec
===============================================================================
