------------------------------- MODULE SshAccess -------------------------------
(***************************************************************************)
(* ssh_set_port and ssh_enable_user_ssh of ssh.py: the two tools that      *)
(* decide whether and where sshd can be reached.  ssh_set_port reads DSM's *)
(* terminal settings, asks over SSH whether the new port is taken, writes  *)
(* all settings back with the new port, and tries a fresh login there.     *)
(* Other calls and people act between any two of these.                    *)
(*                                                                         *)
(* External: DSM's terminal settings, which sshd takes over some time      *)
(* after they were written; what else listens on the NAS; the group of     *)
(* administrators, who alone may log in.  The cached SSH client is what    *)
(* SshTransport promises: one connection, made again at ConfigPort.        *)
(***************************************************************************)
EXTENDS Naturals

CONSTANTS
    Tasks,           \* tool calls
    Ports,           \* ports that are asked for, set or listened on
    ConfigPort,      \* host_cfg.ssh_port, fixed while the process runs
    MaxOthers,       \* bound: acts of other people, and faults
    None,            \* sshd does not listen
    Bare             \* an answer of Terminal.get without data

ASSUME PortsAssumption == Ports \subseteq Nat /\ ConfigPort \in Nat /\ None \notin Nat
ASSUME BareAssumption == Bare \notin [ssh : BOOLEAN, port : Ports]
ASSUME MaxOthersAssumption == MaxOthers \in Nat

VARIABLES
    terminal,        \* DSM's settings: SSH is on, and its port
    sshd,            \* where sshd listens, or None
    busy,            \* where anything else listens
    admin,           \* the account of the session is an administrator
    ss,              \* the NAS has the ss command; fixed
    conn,            \* the cached client is connected
    others,          \* acts of other people, and faults, so far
    pc,              \* pc[t]: "new", the remote call t awaits, or "done"
    op,              \* op[t]: the call t makes
    seen,            \* seen[t]: the settings t has read
    result,          \* result[t]: how the call ended
    stable,          \* history: nobody else wrote settings since t read them
    held,            \* history: t's port has been busy ever since t began
    faulty           \* history: since t began the NAS was out of reach of SSH at
                     \* some moment, or a command or connection failed

world  == <<terminal, sshd, busy, admin, ss>>
ghosts == <<stable, held, faulty>>
vars   == <<world, conn, others, pc, op, seen, result, ghosts>>

Settings == [ssh : BOOLEAN, port : Ports]
Ops == [tool : {"port"}, port : Ports, allow_default : BOOLEAN]
         \cup [tool : {"enable"}, self : BOOLEAN]

TypeOK ==
    /\ terminal \in Settings
    /\ sshd   \in Ports \cup {None}
    /\ busy   \in SUBSET Ports
    /\ admin  \in BOOLEAN /\ ss \in BOOLEAN /\ conn \in BOOLEAN
    /\ others \in 0..MaxOthers
    /\ pc     \in [Tasks -> {"new", "get", "ss", "netstat", "set", "verify",
                             "who", "check", "add", "done"}]
    /\ op     \in [Tasks -> Ops]
    /\ seen   \in [Tasks -> Settings \cup {Bare}]
    /\ result \in [Tasks -> {"none", "invalid", "in_use", "verified", "unverified",
                             "cross_user", "enabled", "error"}]
    /\ stable \in [Tasks -> BOOLEAN]
    /\ held   \in [Tasks -> BOOLEAN]
    /\ faulty \in [Tasks -> BOOLEAN]
    \* nothing is written unless its port is valid and not the one that was read
    /\ \A t \in Tasks : pc[t] \in {"ss", "netstat", "set", "verify"} =>
         /\ op[t].tool = "port"
         /\ seen[t] # Bare => seen[t].port # op[t].port

Init ==
    /\ terminal \in Settings
    /\ busy   \in SUBSET (Ports \ {terminal.port})
    /\ sshd   = IF terminal.ssh THEN terminal.port ELSE None
    /\ admin  \in BOOLEAN
    /\ ss     \in BOOLEAN
    /\ conn   = FALSE
    /\ others = 0
    /\ pc     = [t \in Tasks |-> "new"]
    /\ op     \in [Tasks -> Ops]
    /\ seen   = [t \in Tasks |-> Bare]
    /\ result = [t \in Tasks |-> "none"]
    /\ stable = [t \in Tasks |-> FALSE]
    /\ held   = [t \in Tasks |-> FALSE]
    /\ faulty = [t \in Tasks |-> FALSE]

-------------------------------------------------------------------------------

Goto(t, next) == pc' = [pc EXCEPT ![t] = next] /\ UNCHANGED result

Return(t, how) ==
    /\ pc' = [pc EXCEPT ![t] = "done"]
    /\ result' = [result EXCEPT ![t] = how]

\* A login at a port: sshd listens there, and lets administrators in.
CanLogin(port) == sshd = port /\ admin

\* The cached client is connected, or can connect.
Reachable == conn \/ CanLogin(ConfigPort)

\* _validate_port
Valid(call) == IF call.port = 22 THEN call.allow_default ELSE call.port \in 1024..65535

\* The tool validates its parameters; the other awaits its session.
Begin(t) ==
    /\ pc[t] = "new"
    /\ \/ op[t].tool = "port" /\ Valid(op[t]) /\ Goto(t, "get")
       \/ op[t].tool = "port" /\ ~Valid(op[t]) /\ Return(t, "invalid")
       \/ op[t].tool = "enable" /\ Goto(t, "who")
    /\ held'   = [held EXCEPT ![t] = op[t].tool = "port" /\ op[t].port \in busy]
    /\ faulty' = [faulty EXCEPT ![t] = ~Reachable]
    /\ UNCHANGED <<world, conn, others, op, seen, stable>>

-------------------------------------------------------------------------------
(* ssh_set_port                                                            *)

\* Mutant of GetAnswered: a port that is set already is set again.
GetAnsweredAgain(t) ==
    /\ pc[t] = "get"
    /\ \E answer \in {terminal, Bare} : seen' = [seen EXCEPT ![t] = answer]
    /\ Goto(t, "ss")
    /\ stable' = [stable EXCEPT ![t] = TRUE]
    /\ UNCHANGED <<world, conn, others, op, held, faulty>>

\* Mutant of GetAnswered: "already on this port" of the port sshd listens on, and
\* not of the one DSM has stored.
GetAnsweredListening(t) ==
    /\ pc[t] = "get"
    /\ \E answer \in {terminal, Bare} :
         /\ seen' = [seen EXCEPT ![t] = answer]
         /\ IF answer # Bare /\ sshd = op[t].port
              THEN Return(t, "verified") ELSE Goto(t, "ss")
    /\ stable' = [stable EXCEPT ![t] = TRUE]
    /\ UNCHANGED <<world, conn, others, op, held, faulty>>

\* Terminal.get: the call ends here when the port is the one asked for.  It then
\* says verified (and not changed) of a port where nobody has logged in: SSH may
\* be off, and sshd may not listen there yet.
GetAnswered(t) ==
    /\ pc[t] = "get"
    /\ \E answer \in {terminal, Bare} :
         /\ seen' = [seen EXCEPT ![t] = answer]
         /\ IF answer # Bare /\ terminal.port = op[t].port
              THEN Return(t, "verified") ELSE Goto(t, "ss")
    /\ stable' = [stable EXCEPT ![t] = TRUE]
    /\ UNCHANGED <<world, conn, others, op, held, faulty>>

\* Mutant of ProbeAnswered: only sshd's own sockets are looked at.
ProbeAnsweredSshd(t) ==
    /\ pc[t] \in {"ss", "netstat"}
    /\ Reachable
    /\ conn' = TRUE
    /\ IF op[t].port = sshd /\ (pc[t] = "ss" => ss)
         THEN Return(t, "in_use") ELSE Goto(t, "set")
    /\ UNCHANGED <<world, others, op, seen, ghosts>>

\* _detect_port_in_use: a row of the list.  Without ss the pipe is empty, which
\* reads as free: netstat is asked only if the command had no answer.
ProbeAnswered(t) ==
    /\ pc[t] \in {"ss", "netstat"}
    /\ Reachable
    /\ conn' = TRUE
    /\ IF op[t].port \in busy \cup {sshd} /\ (pc[t] = "ss" => ss)
         THEN Return(t, "in_use") ELSE Goto(t, "set")
    /\ UNCHANGED <<world, others, op, seen, ghosts>>

\* A fault of the link is one everybody on it sees.
Fault ==
    /\ others < MaxOthers
    /\ others' = others + 1
    /\ conn'   = FALSE
    /\ faulty' = [t \in Tasks |-> TRUE]

\* The connection dies under the command: what it has printed counts.
ProbeCut(t) ==
    /\ pc[t] \in {"ss", "netstat"}
    /\ Reachable
    /\ Fault
    /\ \/ Goto(t, "set")
       \/ op[t].port \in busy \cup {sshd} /\ (pc[t] = "ss" => ss) /\ Return(t, "in_use")
    /\ UNCHANGED <<world, op, seen, stable, held>>

\* DSMSshError: no connection, or no answer in time.  After the second one the
\* port counts as free.
ProbeFails(t) ==
    /\ pc[t] \in {"ss", "netstat"}
    /\ \/ ~Reachable /\ UNCHANGED <<conn, others, faulty>>
       \/ Fault
    /\ Goto(t, IF pc[t] = "ss" THEN "netstat" ELSE "set")
    /\ UNCHANGED <<world, op, seen, stable, held>>

\* Mutant of Payload: enable_ssh is left out, and DSM takes it for false.
PayloadPartial(t) == [ssh |-> FALSE, port |-> op[t].port]

\* _terminal_set_payload: what was read, with the new port.  A missing
\* enable_ssh is sent as false.  The fields not modelled go the same way, but
\* for a missing one, which is left out.
Payload(t) == [ssh |-> seen[t] # Bare /\ seen[t].ssh, port |-> op[t].port]

\* DSM stores the settings.
Writes(t) ==
    /\ terminal' = Payload(t)
    /\ stable'   = [u \in Tasks |-> stable[u] /\ u = t]
    /\ UNCHANGED <<sshd, busy, admin, ss>>

SetAnswered(t) ==
    /\ pc[t] = "set"
    /\ Writes(t)
    /\ Goto(t, "verify")
    /\ UNCHANGED <<conn, others, op, seen, held, faulty>>

\* _verify_ssh_on_port: a login of its own, which may fail for other reasons
\* (a firewall, a host key not known for that port).  Nothing is reverted.
VerifyAnswered(t) ==
    /\ pc[t] = "verify"
    /\ \/ CanLogin(op[t].port) /\ Return(t, "verified")
       \/ Return(t, "unverified")
    /\ UNCHANGED <<world, conn, others, op, seen, ghosts>>

-------------------------------------------------------------------------------
(* ssh_enable_user_ssh                                                     *)

\* _check_calling_user
WhoAnswered(t) ==
    /\ pc[t] = "who"
    /\ IF op[t].self THEN Goto(t, "check") ELSE Return(t, "cross_user")
    /\ UNCHANGED <<world, conn, others, op, seen, ghosts>>

\* admin_check.  An answer of a shape that is not known reads as no.
CheckAnswered(t) ==
    /\ pc[t] = "check"
    /\ \/ admin /\ Return(t, "enabled")
       \/ Goto(t, "add")
    /\ UNCHANGED <<world, conn, others, op, seen, ghosts>>

Adds == admin' = TRUE /\ UNCHANGED <<terminal, sshd, busy, ss>>

\* Group.Member.add
AddAnswered(t) ==
    /\ pc[t] = "add"
    /\ Adds
    /\ Return(t, "enabled")
    /\ UNCHANGED <<conn, others, op, seen, ghosts>>

\* The call raises: refused by DSM, timed out, a dead session; or run() let an
\* exception through.  A change that was sent may have been made.
Raises(t) ==
    /\ pc[t] \notin {"new", "verify", "done"}
    /\ Return(t, "error")
    /\ \/ UNCHANGED <<world, stable>>
       \/ pc[t] = "set" /\ Writes(t)
       \/ pc[t] = "add" /\ Adds /\ UNCHANGED stable
    /\ UNCHANGED <<conn, others, op, seen, held, faulty>>

-------------------------------------------------------------------------------
(* The NAS and the people who use it                                       *)

\* The histories, after a step of the world.
Watched ==
    /\ held'   = [t \in Tasks |-> held[t] /\ op[t].port \in busy']
    /\ faulty' = [t \in Tasks |-> faulty[t] \/ ~Reachable']

Act == others < MaxOthers /\ others' = others + 1

\* sshd takes over the settings, if it can have the port.
SshdReloads ==
    /\ sshd' = IF terminal.ssh /\ terminal.port \notin busy THEN terminal.port ELSE None
    /\ UNCHANGED <<terminal, busy, admin, ss, conn, others, pc, op, seen, result, stable>>
    /\ Watched

ControlPanel ==
    /\ Act
    /\ terminal' \in Settings
    /\ stable' = [t \in Tasks |-> FALSE]
    /\ UNCHANGED <<sshd, busy, admin, ss, conn, pc, op, seen, result, held, faulty>>

\* A service starts or stops.
OthersListen ==
    /\ Act
    /\ \E p \in Ports \ {sshd} : busy' \in {busy \cup {p}, busy \ {p}}
    /\ UNCHANGED <<terminal, sshd, admin, ss, conn, pc, op, seen, result, stable>>
    /\ Watched

AdminsChange ==
    /\ Act
    /\ admin' = ~admin
    /\ UNCHANGED <<terminal, sshd, busy, ss, conn, pc, op, seen, result, stable>>
    /\ Watched

\* The network, DSM's idle disconnect, or another call that closes the client.
LinkLost ==
    /\ conn
    /\ Fault
    /\ UNCHANGED <<world, pc, op, seen, result, stable, held>>

Continue(t) ==
    \/ GetAnswered(t) \/ ProbeAnswered(t) \/ ProbeCut(t) \/ ProbeFails(t)
    \/ SetAnswered(t) \/ VerifyAnswered(t)
    \/ WhoAnswered(t) \/ CheckAnswered(t) \/ AddAnswered(t) \/ Raises(t)

Next ==
    \/ \E t \in Tasks : Begin(t) \/ Continue(t)
    \/ SshdReloads \/ ControlPanel \/ OthersListen \/ AdminsChange \/ LinkLost

Spec == Init /\ [][Next]_vars

-------------------------------------------------------------------------------
(* Properties                                                              *)

\* The rail against port collisions: a port that something else has held ever
\* since the call began is not written, unless SSH failed or could not reach
\* the NAS in the meantime (after an earlier change of the port, say), or the
\* NAS has no ss.
TakenRefused ==
    \A t \in Tasks : pc[t] = "set" /\ held[t] => faulty[t] \/ ~ss

\* "Pass everything through unchanged except ssh_port": a write changes nothing
\* but the port, if nobody else wrote since the settings were read, and the
\* answer had them.
SettingsKept ==
    [][\A t \in Tasks :
         pc[t] = "set" /\ pc'[t] # "set" /\ stable[t] /\ seen[t] # Bare =>
           terminal' \in {terminal, [terminal EXCEPT !.port = op[t].port]}]_vars

\* What ssh_set_port has done stays done.  Once it has answered, verified or not,
\* after a write or because the port was set already, DSM stores the port it was
\* asked for, and SSH is still on if it was on when the call read the settings:
\* sshd comes up there when it takes them over.  It holds until somebody else
\* writes the settings, another call or a person, and so it does for the last of
\* two calls that overtook each other.
AnsweredHolds ==
    \A t \in Tasks :
        result[t] \in {"verified", "unverified"} /\ stable[t] =>
            /\ terminal.port = op[t].port
            /\ seen[t] # Bare /\ seen[t].ssh => terminal.ssh
===============================================================================
