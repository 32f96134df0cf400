----------------------------- MODULE PackagesList ------------------------------
(***************************************************************************)
(* packages_list and packages_status of packages.py.  The list probes all  *)
(* packages at once, a coroutine per row, with at most Slots of them in    *)
(* the two synopkg probes; the docker probe of ContainerManager is made    *)
(* after the slot has been given back.  All probes of all calls are        *)
(* channels of the one cached SSH connection, of which sshd allows         *)
(* MaxSessions: one too many is an error, and run() answers an error by    *)
(* closing the connection, with every other channel on it.                 *)
(*                                                                         *)
(* External: the packages, which start and stop; sshd; the network.        *)
(***************************************************************************)
EXTENDS Naturals, FiniteSets

CONSTANTS
    Calls,           \* tool calls
    Packages,        \* the installed packages
    Asked,           \* packages that packages_status is asked for
    ContainerManager,\* the one with a docker probe, if it is in Packages
    Slots,           \* asyncio.Semaphore(6)
    MaxSessions,     \* sshd's limit of channels per connection
    MaxEvents        \* bound: lost links, timeouts, failures, packages that start or stop

ASSUME PackagesAssumption == IsFiniteSet(Packages) /\ Asked \subseteq Packages
ASSUME SlotsAssumption == Slots \in Nat \ {0}
\* One call by itself stays within the limit of sshd.
ASSUME MaxSessionsAssumption == MaxSessions \in Nat /\ Slots + 1 <= MaxSessions
ASSUME MaxEventsAssumption == MaxEvents \in Nat

VARIABLES
    on,              \* the packages that are started
    events,          \* lost links, timeouts, failures, packages that started or stopped
    op,              \* op[c]: the tool, and the packages it probes
    call,            \* call[c]: "new", "list" (the web call), "gather", or how it ended
    free,            \* free[c]: the semaphore's counter
    pc,              \* pc[r]: where the coroutine of row r is
    dead,            \* rows whose channel died while they await it
    said,            \* said[r]: the status of the row
    wasOn, wasOff,   \* history: packages seen started, stopped since c began
    quiet            \* history: since c began no link was lost, no command timed out, no
                     \* is_onoff of c failed by itself, and no other call was under way

vars == <<on, events, op, call, free, pc, dead, said, wasOn, wasOff, quiet>>

Rows == Calls \X Packages
Ops == [tool : {"list"}, rows : {Packages}]
         \cup [tool : {"status"}, rows : {{p} : p \in Asked}]

Ended == {"ok", "error"}
InSlot == {"status", "onoff"}
Probing == InSlot \cup {"path", "started", "docker"}

TypeOK ==
    /\ on     \in SUBSET Packages
    /\ events \in 0..MaxEvents
    /\ op     \in [Calls -> Ops]
    /\ call   \in [Calls -> {"new", "list", "gather"} \cup Ended]
    /\ free   \in [Calls -> 0..Slots]
    /\ pc     \in [Rows -> {"none", "waiting", "done"} \cup Probing]
    /\ dead   \in SUBSET Rows
    /\ said   \in [Rows -> {"unknown", "start", "stop"}]
    /\ wasOn  \in [Calls -> SUBSET Packages]
    /\ wasOff \in [Calls -> SUBSET Packages]
    /\ quiet  \in [Calls -> BOOLEAN]
    \* dead channels are awaited; a good answer has all rows
    /\ \A r \in dead : pc[r] \in Probing
    /\ \A c \in Calls : call[c] = "ok" => \A p \in op[c].rows : pc[<<c, p>>] = "done"

Init ==
    /\ on     \in SUBSET Packages
    /\ events = 0
    /\ op     \in [Calls -> Ops]
    /\ call   = [c \in Calls |-> "new"]
    /\ free   = [c \in Calls |-> Slots]
    /\ pc     = [r \in Rows |-> "none"]
    /\ dead   = {}
    /\ said   = [r \in Rows |-> "unknown"]
    /\ wasOn  = [c \in Calls |-> {}]
    /\ wasOff = [c \in Calls |-> {}]
    /\ quiet  = [c \in Calls |-> FALSE]

-------------------------------------------------------------------------------
(* The call                                                                *)

\* The coroutines of c are at work: also those of a call that has raised.
Busy(c) ==
    \/ call[c] \in {"list", "gather"}
    \/ \E p \in Packages : pc[<<c, p>>] \in Probing \cup {"waiting"}

Begin(c) ==
    /\ call[c] = "new"
    /\ call'   = [call EXCEPT ![c] = "list"]
    /\ wasOn'  = [wasOn EXCEPT ![c] = on]
    /\ wasOff' = [wasOff EXCEPT ![c] = Packages \ on]
    /\ quiet'  = [d \in Calls |-> IF d = c THEN \A e \in Calls : ~Busy(e)
                                  ELSE quiet[d] /\ ~Busy(d)]
    /\ UNCHANGED <<on, events, op, free, pc, dead, said>>

\* The web call has given the rows: a coroutine for each.
ListAnswered(c) ==
    /\ call[c] = "list"
    /\ call' = [call EXCEPT ![c] = "gather"]
    /\ pc'   = [r \in Rows |-> IF r[1] = c /\ r[2] \in op[c].rows THEN "waiting"
                               ELSE pc[r]]
    /\ UNCHANGED <<on, events, op, free, dead, said, wasOn, wasOff, quiet>>

\* The web call raises.
ListFailed(c) ==
    /\ call[c] = "list"
    /\ call' = [call EXCEPT ![c] = "error"]
    /\ UNCHANGED <<on, events, op, free, pc, dead, said, wasOn, wasOff, quiet>>

\* Mutant of Gathered: the first row is enough.
GatheredFirst(c) ==
    /\ call[c] = "gather"
    /\ \E p \in op[c].rows : pc[<<c, p>>] = "done"
    /\ call' = [call EXCEPT ![c] = "ok"]
    /\ UNCHANGED <<on, events, op, free, pc, dead, said, wasOn, wasOff, quiet>>

\* asyncio.gather has all rows.
Gathered(c) ==
    /\ call[c] = "gather"
    /\ \A p \in op[c].rows : pc[<<c, p>>] = "done"
    /\ call' = [call EXCEPT ![c] = "ok"]
    /\ UNCHANGED <<on, events, op, free, pc, dead, said, wasOn, wasOff, quiet>>

-------------------------------------------------------------------------------
(* The coroutine of a row                                                  *)

\* The channels that are open besides r's own.
Channels(r) == {q \in Rows \ {r} : pc[q] \in Probing /\ q \notin dead}

\* r's command is over and the next one is run: the channel is refused when
\* there are too many, and then run() closes the client and connects again.
Await(r, next) ==
    /\ pc'   = [pc EXCEPT ![r] = next]
    /\ dead' = (dead \ {r}) \cup
                 IF next \in Probing /\ Cardinality(Channels(r)) >= MaxSessions
                   THEN Channels(r) ELSE {}

\* Mutant of Acquire: the semaphore is made, and not used.
AcquireFreely(r) ==
    /\ pc[r] = "waiting"
    /\ Await(r, "status")
    /\ UNCHANGED <<on, events, op, call, free, said, wasOn, wasOff, quiet>>

\* async with semaphore
Acquire(r) ==
    /\ pc[r] = "waiting"
    /\ free[r[1]] > 0
    /\ free' = [free EXCEPT ![r[1]] = @ - 1]
    /\ Await(r, "status")
    /\ UNCHANGED <<on, events, op, call, said, wasOn, wasOff, quiet>>

\* Something of which MaxEvents may happen.
Event == events < MaxEvents /\ events' = events + 1

Now(r) == IF r[2] \in on THEN "start" ELSE "stop"

\* What a command may bring: on a channel that has died its output may be
\* missing, run() may have raised DSMSshError, or its second attempt may have
\* been answered.  synopkg status may also print no JSON.
StatusProbed(r) ==
    /\ pc[r] = "status"
    /\ \E s \in {Now(r), "unknown"} : said' = [said EXCEPT ![r] = s]
    /\ Await(r, "onoff")
    /\ UNCHANGED <<on, events, op, call, free, wasOn, wasOff, quiet>>

\* The rest of the row, after the slot has been given back.
AfterOnoff(r) ==
    /\ free' = [free EXCEPT ![r[1]] = @ + 1]
    /\ Await(r, IF op[r[1]].tool = "status" THEN "path"
                ELSE IF r[2] = ContainerManager THEN "docker" ELSE "done")

\* The exit status of is_onoff counts if synopkg status said nothing.
Says(r, exit) == said' = [said EXCEPT ![r] = IF @ = "unknown" THEN exit ELSE @]

\* synopkg is_onoff.  The -1 of a channel that died is not 0, and reads as stopped; so
\* does the status of an is_onoff that fails by itself, for another reason than that the
\* package is off.
OnoffProbed(r) ==
    /\ pc[r] = "onoff"
    /\ \/ /\ \E exit \in {Now(r)} \cup IF r \in dead THEN {"stop", "unknown"} ELSE {} : Says(r, exit)
          /\ UNCHANGED <<events, quiet>>
       \/ /\ Event
          /\ Says(r, "stop")
          /\ quiet' = [quiet EXCEPT ![r[1]] = FALSE]
    /\ AfterOnoff(r)
    /\ UNCHANGED <<on, op, call, wasOn, wasOff>>

\* The details of packages_status, whatever they bring.
DetailProbed(r) ==
    /\ pc[r] \in {"path", "started"}
    /\ Await(r, IF pc[r] = "path" THEN "started"
                ELSE IF r[2] = ContainerManager THEN "docker" ELSE "done")
    /\ UNCHANGED <<on, events, op, call, free, said, wasOn, wasOff, quiet>>

\* docker info, which ends the row, whatever it brings.
DockerProbed(r) ==
    /\ pc[r] = "docker"
    /\ Await(r, "done")
    /\ UNCHANGED <<on, events, op, call, free, said, wasOn, wasOff, quiet>>

\* Mutant of Escapes: the slot is not given back.
EscapesWithSlot(r) ==
    /\ r \in dead
    /\ Await(r, "done")
    /\ call' = [call EXCEPT ![r[1]] = IF @ = "gather" THEN "error" ELSE @]
    /\ UNCHANGED <<on, events, op, free, said, wasOn, wasOff, quiet>>

\* An exception that is no DSMSshError (the client was closed under the call)
\* ends the row, and the first one the tool.  gather does not stop the others.
Escapes(r) ==
    /\ r \in dead
    /\ Await(r, "done")
    /\ free' = IF pc[r] \in InSlot THEN [free EXCEPT ![r[1]] = @ + 1] ELSE free
    /\ call' = [call EXCEPT ![r[1]] = IF @ = "gather" THEN "error" ELSE @]
    /\ UNCHANGED <<on, events, op, said, wasOn, wasOff, quiet>>

-------------------------------------------------------------------------------
(* The NAS and the network                                                 *)

\* A package starts or stops.
Toggle(p) ==
    /\ Event
    /\ on'     = IF p \in on THEN on \ {p} ELSE on \cup {p}
    /\ wasOn'  = [c \in Calls |-> wasOn[c] \cup (on' \cap {p})]
    /\ wasOff' = [c \in Calls |-> wasOff[c] \cup ({p} \ on')]
    /\ UNCHANGED <<op, call, free, pc, dead, said, quiet>>

\* The connection is lost, or closed by another tool after an error of its own.
LinkLost ==
    /\ Event
    /\ dead'  = {r \in Rows : pc[r] \in Probing}
    /\ quiet' = [c \in Calls |-> FALSE]
    /\ UNCHANGED <<on, op, call, free, pc, said, wasOn, wasOff>>

\* r's command is not answered in time: run() closes the shared client under all other
\* channels, and makes its second attempt on the next one.  (When that is not answered
\* either, r is no better off than after LinkLost.)
TimesOut(r) ==
    /\ pc[r] \in Probing
    /\ Event
    /\ dead'  = {q \in Rows \ {r} : pc[q] \in Probing}
    /\ quiet' = [c \in Calls |-> FALSE]
    /\ UNCHANGED <<on, op, call, free, pc, said, wasOn, wasOff>>

Tool(c) == ListAnswered(c) \/ ListFailed(c) \/ Gathered(c)

Row(r) ==
    \/ Acquire(r) \/ StatusProbed(r) \/ OnoffProbed(r)
    \/ DetailProbed(r) \/ DockerProbed(r) \/ Escapes(r)

Next ==
    \/ \E c \in Calls : Begin(c) \/ Tool(c)
    \/ \E r \in Rows : Row(r) \/ TimesOut(r)
    \/ \E p \in Packages : Toggle(p)
    \/ LinkLost

Spec == Init /\ [][Next]_vars

-------------------------------------------------------------------------------
(* Properties                                                              *)

\* "Bounded fan-out": of one call, its orphaned coroutines included, at most Slots
\* are in the synopkg probes, and no slot is ever lost: each that is not free is
\* held by a coroutine that will give it back.  Besides these only the docker
\* probe is out, or the details of a call for a single package.
FanOutBounded ==
    \A c \in Calls :
        /\ free[c] + Cardinality({p \in Packages : pc[<<c, p>>] \in InSlot}) = Slots
        /\ \A p \in Packages : pc[<<c, p>>] \in Probing \ InSlot =>
              p = ContainerManager \/ op[c].tool = "status"

\* A row says "start" only of a package that was started at some moment since
\* the call began; and "stop" only of one that was stopped, if no link was lost, no
\* command timed out, no is_onoff failed by itself, and no other call was under way: a
\* call by itself does not run into sshd's limit, and so does not kill its own channels.
StatusHonest ==
    \A c \in Calls, p \in Packages :
        /\ said[<<c, p>>] = "start" => p \in wasOn[c]
        /\ said[<<c, p>>] = "stop"  => p \in wasOff[c] \/ ~quiet[c]
===============================================================================
