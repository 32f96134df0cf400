------------------------------ MODULE PackageJobs ------------------------------
(***************************************************************************)
(* What packages_install and packages_uninstall promise their callers,     *)
(* without HTTP calls, catalog rows and polls: a call has DSM start one    *)
(* job at most, and only after it has found the package as the job needs   *)
(* it, or was misled to; a refusal is true when it is said, but for        *)
(* "not_installed" of a call that was misled, and its call has no job then *)
(* or later; "uninstalled" has one; and the package changes by a job, once,*)
(* or by other people.  "installed", "eula_required" and "error" promise   *)
(* nothing.                                                                *)
(***************************************************************************)
CONSTANTS
    Tasks,           \* tool calls
    Versions,        \* builds of the package
    Protected,       \* it is not uninstalled without force
    None             \* no version

VARIABLES
    package,         \* the installed build, or None
    op,              \* op[t]: the call t makes
    found,           \* calls that have found the package as they need it
    job,             \* job[t]: t's job
    build,           \* build[t]: what it leaves behind
    answer,          \* answer[t]: what t returned
    misled           \* calls that were told nothing is installed when something was

vars == <<package, op, found, job, build, answer, misled>>

Builds == Versions \cup {None}

Init ==
    /\ package \in Builds
    /\ op \in [Tasks -> [tool : {"install"}, pin : Builds] \cup [tool : {"uninstall"}, force : BOOLEAN]]
    /\ found  = {}
    /\ job    = [t \in Tasks |-> "none"]
    /\ build  = [t \in Tasks |-> None]
    /\ answer = [t \in Tasks |-> "none"]
    /\ misled = {}

\* DSM says that nothing is installed of a package that is.
Misleads(t) == package # None /\ misled' = misled \cup {t}

Look(t) ==
    /\ answer[t] = "none"
    /\ job[t] = "none"
    /\ \/ (op[t].tool = "install" <=> package = None) /\ UNCHANGED misled
       \/ op[t].tool = "install" /\ Misleads(t)
    /\ found' = found \cup {t}
    /\ UNCHANGED <<package, op, job, build, answer>>

\* DSM starts a job.  The call may end with that: its answer was lost, or is that
\* there is nothing to wait for, or that a licence is to be accepted.
Start(t, how) ==
    /\ t \in found
    /\ job[t] = "none"
    /\ job' = [job EXCEPT ![t] = "running"]
    /\ \E b \in Builds :
         /\ op[t].tool = "install" <=> b # None
         /\ build' = [build EXCEPT ![t] = b]
    /\ how = "uninstalled"   => op[t].tool = "uninstall"
    /\ how = "eula_required" => op[t].tool = "install"
    /\ answer' = [answer EXCEPT ![t] = how]
    /\ found'  = IF how = "none" THEN found ELSE found \ {t}
    /\ UNCHANGED <<package, op, misled>>

\* A refusal, and what it says of the package or of the call.
Refusal(t, how) ==
    \/ /\ op[t].tool = "install"
       /\ \/ how = "noop"             /\ package # None /\ op[t].pin \in {None, package}
          \/ how = "upgrade_required" /\ package # None /\ op[t].pin \notin {None, package}
          \/ how = "version_mismatch" /\ op[t].pin # None
          \/ how \in {"not_in_catalog", "online_install_failed"}
    \/ /\ op[t].tool = "uninstall"
       /\ \/ how = "denylist"      /\ Protected /\ ~op[t].force
          \/ how = "not_installed" /\ package = None

Answer(t, how) ==
    /\ answer[t] = "none"
    /\ \/ /\ \/ Refusal(t, how)     /\ job[t] = "none"
             \/ how = "uninstalled" /\ op[t].tool = "uninstall" /\ job[t] # "none"
             \/ how \in {"installed", "eula_required"} /\ op[t].tool = "install"
             \/ how = "error"
          /\ UNCHANGED misled
       \/ /\ how = "not_installed" /\ op[t].tool = "uninstall" /\ job[t] = "none"
          /\ Misleads(t)
    /\ answer' = [answer EXCEPT ![t] = how]
    /\ found'  = found \ {t}
    /\ UNCHANGED <<package, op, job, build>>

\* DSM's job ends, with or without a change.
Ends(t) ==
    /\ job[t] = "running"
    /\ \/ job' = [job EXCEPT ![t] = "finished"] /\ package' = build[t]
       \/ job' = [job EXCEPT ![t] = "failed"]   /\ UNCHANGED package
    /\ UNCHANGED <<op, found, build, answer, misled>>

\* The people in the Package Center.
Others ==
    /\ package' \in Builds
    /\ UNCHANGED <<op, found, job, build, answer, misled>>

Outcomes == {"denylist", "noop", "upgrade_required", "not_in_catalog", "version_mismatch",
             "eula_required", "online_install_failed", "not_installed",
             "installed", "uninstalled", "error"}

Next ==
    \/ \E t \in Tasks :
         \/ Look(t) \/ Ends(t)
         \/ \E how \in {"none", "uninstalled", "eula_required", "error"} : Start(t, how)
         \/ \E how \in Outcomes : Answer(t, how)
    \/ Others

Spec == Init /\ [][Next]_vars
===============================================================================
