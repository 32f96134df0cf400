------------------------------ MODULE RemoteExec ------------------------------
(***************************************************************************)
(* What DSMSshClient.run promises its callers, without clients, sockets or *)
(* attempts: a call ends; the NAS may execute its command zero, one or two *)
(* times before it ends; a call that ends "ok" executed its command at     *)
(* least once.  Nothing is executed for a call that has ended.  The tools  *)
(* that send commands which must not run twice are written against this    *)
(* promise, and no stronger one.                                           *)
(***************************************************************************)
EXTENDS Naturals

CONSTANT Callers     \* the coroutines that call run()

VARIABLES
    busy,            \* busy[c]: c awaits run()
    runs,            \* runs[c]: executions of c's last command on the NAS
    outcome          \* outcome[c]: how c's last call ended

vars == <<busy, runs, outcome>>

\* "ok": a result with exit status 0; "exit": a non-zero status; "cut": the
\* status -1 of a channel that died; "channel" and "connect": DSMSshError
\* of the transport; "escape": an exception run() does not handle.
Outcomes == {"ok", "exit", "cut", "channel", "connect", "escape"}

Init ==
    /\ busy    = [c \in Callers |-> FALSE]
    /\ runs    = [c \in Callers |-> 0]
    /\ outcome = [c \in Callers |-> "none"]

Begin(c) ==
    /\ ~busy[c]
    /\ busy'    = [busy EXCEPT ![c] = TRUE]
    /\ runs'    = [runs EXCEPT ![c] = 0]
    /\ outcome' = [outcome EXCEPT ![c] = "none"]

Execute(c) ==
    /\ busy[c]
    /\ runs[c] < 2
    /\ runs' = [runs EXCEPT ![c] = @ + 1]
    /\ UNCHANGED <<busy, outcome>>

End(c, how) ==
    /\ busy[c]
    /\ how \in {"ok", "exit", "cut"} => runs[c] > 0
    /\ busy'    = [busy EXCEPT ![c] = FALSE]
    /\ outcome' = [outcome EXCEPT ![c] = how]
    /\ UNCHANGED runs

Next == \E c \in Callers :
    \/ Begin(c)
    \/ Execute(c)
    \/ \E how \in Outcomes : End(c, how)

Spec == Init /\ [][Next]_vars
===============================================================================
