------------------------------- MODULE Packages -------------------------------
(***************************************************************************)
(* packages_install and packages_uninstall of packages.py for one package. *)
(* Both look whether the package is installed, ask DSM to start a job, and *)
(* poll its status for a bounded time; a job goes on by itself, whatever   *)
(* the tool has made of it.  Other calls, and people in the Package        *)
(* Center, act between any two HTTP calls.                                 *)
(*                                                                         *)
(* External: the package, the catalog, and DSM's jobs.  DSM names the task *)
(* of an install after the package, so that a status may be the one of     *)
(* another call's job.                                                     *)
(***************************************************************************)
EXTENDS Naturals

CONSTANTS
    Tasks,           \* tool calls
    Versions,        \* builds of the package
    Protected,       \* the package is in _UNINSTALL_DENYLIST
    MaxPolls,        \* _INSTALL_POLL_TIMEOUT_SECONDS / _INSTALL_POLL_INTERVAL_SECONDS
    None             \* no version: not installed, not pinned, not shown

ASSUME NoneAssumption == None \notin Versions
ASSUME RowsAssumption == None \notin [build : Versions, shown : Versions \cup {None}]
ASSUME ProtectedAssumption == Protected \in BOOLEAN
ASSUME MaxPollsAssumption == MaxPolls \in Nat \ {0}

VARIABLES
    package,         \* the installed build, or None
    job,             \* job[t]: the job DSM has started for t
    pc,              \* pc[t]: "new", the HTTP call t awaits, or "done"
    op,              \* op[t]: the call t makes
    row,             \* row[t]: the build of t's catalog row, and the version it shows
    polls,           \* polls[t]: status calls answered, while t polls
    result,          \* result[t]: how the call ended
    alone,           \* history: nobody else acted while t or its job did
    misled           \* history: t was told that nothing is installed, and something was

ghosts == <<alone, misled>>
vars   == <<package, job, pc, op, row, polls, result, ghosts>>

Builds == Versions \cup {None}
Ops == [tool : {"install"}, pin : Builds] \cup [tool : {"uninstall"}, force : BOOLEAN]
Rows == [build : Versions, shown : Builds]

Refusals == {"denylist", "noop", "upgrade_required", "not_in_catalog", "version_mismatch",
             "eula_required", "online_install_failed", "not_installed"}

TypeOK ==
    /\ package \in Builds
    /\ job    \in [Tasks -> {"none", "running", "finished", "failed"}]
    /\ pc     \in [Tasks -> {"new", "get", "catalog", "install", "uninstall", "status",
                             "verify", "done"}]
    /\ op     \in [Tasks -> Ops]
    /\ row    \in [Tasks -> Rows \cup {None}]
    /\ polls  \in [Tasks -> 0..(MaxPolls - 1)]
    /\ result \in [Tasks -> Refusals \cup {"none", "installed", "uninstalled", "error"}]
    /\ alone  \in [Tasks -> BOOLEAN]
    /\ misled \in [Tasks -> BOOLEAN]
    \* an install is asked for, and its job runs, with a row of the catalog
    /\ \A t \in Tasks :
         /\ pc[t] = "install" => row[t] # None
         /\ op[t].tool = "install" /\ job[t] = "running" => row[t] # None

Init ==
    /\ package \in Builds
    /\ job    = [t \in Tasks |-> "none"]
    /\ pc     = [t \in Tasks |-> "new"]
    /\ op     \in [Tasks -> Ops]
    /\ row    = [t \in Tasks |-> None]
    /\ polls  = [t \in Tasks |-> 0]
    /\ result = [t \in Tasks |-> "none"]
    /\ alone  = [t \in Tasks |-> TRUE]
    /\ misled = [t \in Tasks |-> FALSE]

-------------------------------------------------------------------------------

Goto(t, next) == pc' = [pc EXCEPT ![t] = next] /\ UNCHANGED result

Return(t, how) ==
    /\ pc' = [pc EXCEPT ![t] = "done"]
    /\ result' = [result EXCEPT ![t] = how]

Active(t) == pc[t] \notin {"new", "done"} \/ job[t] = "running"

\* The tool starts; an uninstall asks its denylist first.
Begin(t) ==
    /\ pc[t] = "new"
    /\ IF op[t].tool = "uninstall" /\ Protected /\ ~op[t].force
         THEN Return(t, "denylist") ELSE Goto(t, "get")
    /\ alone' = [u \in Tasks |-> IF u = t THEN \A v \in Tasks : ~Active(v)
                                 ELSE alone[u] /\ ~Active(u)]
    /\ UNCHANGED <<package, job, op, row, polls, misled>>

\* Mutant of InstallChecked: another version does not stop an install.
InstallCheckedUpgrades(t) ==
    /\ pc[t] = "get"
    /\ op[t].tool = "install"
    /\ IF package # None /\ op[t].pin \in {None, package}
         THEN Return(t, "noop") ELSE Goto(t, "catalog")
    /\ UNCHANGED <<package, job, op, row, polls, ghosts>>

\* _get_installed_package says that nothing is installed of one that is: a success
\* without data or without an id reads so, and so does an error 102, 103 or 104.
Misleads(t) == package # None /\ misled' = [misled EXCEPT ![t] = TRUE]

\* The first Package.get of packages_install.
InstallChecked(t) ==
    /\ pc[t] = "get"
    /\ op[t].tool = "install"
    /\ \/ Misleads(t) /\ Goto(t, "catalog")
       \/ /\ \/ package = None /\ Goto(t, "catalog")
             \/ package # None /\ op[t].pin \in {None, package} /\ Return(t, "noop")
             \/ package # None /\ op[t].pin \notin {None, package} /\ Return(t, "upgrade_required")
          /\ UNCHANGED misled
    /\ UNCHANGED <<package, job, op, row, polls, alone>>

\* The one of packages_uninstall.
UninstallChecked(t) ==
    /\ pc[t] = "get"
    /\ op[t].tool = "uninstall"
    /\ \/ Misleads(t) /\ Return(t, "not_installed")
       \/ /\ \/ package = None /\ Return(t, "not_installed")
             \/ package # None /\ Goto(t, "uninstall")
          /\ UNCHANGED misled
    /\ UNCHANGED <<package, job, op, row, polls, alone>>

\* Mutant of CatalogAnswered: the version the row shows is not looked at.
CatalogAnsweredUnpinned(t) ==
    /\ pc[t] = "catalog"
    /\ \E r \in Rows :
         /\ r.shown \in {r.build, None}
         /\ row' = [row EXCEPT ![t] = r]
    /\ Goto(t, "install")
    /\ UNCHANGED <<package, job, op, polls, ghosts>>

\* _fetch_server_catalog_row: no row; a row that shows a version, which must be
\* the one asked for, if one was; or a row that shows none, which goes through.
CatalogAnswered(t) ==
    /\ pc[t] = "catalog"
    /\ \/ Return(t, "not_in_catalog") /\ UNCHANGED row
       \/ \E r \in Rows :
            /\ r.shown \in {r.build, None}
            /\ \/ /\ op[t].pin # None /\ r.shown \notin {None, op[t].pin}
                  /\ Return(t, "version_mismatch")
                  /\ UNCHANGED row
               \/ /\ op[t].pin = None \/ r.shown \in {None, op[t].pin}
                  /\ row' = [row EXCEPT ![t] = r]
                  /\ Goto(t, "install")
    /\ UNCHANGED <<package, job, op, polls, ghosts>>

Starts(t) == job' = [job EXCEPT ![t] = "running"]

\* DSM has answered the install call: a job, with a task to poll or without; a
\* licence, with or without a job (the code does not ask), which ends the call unless
\* accept_eula was passed (read only here, and so left open); or an error of the
\* 1000 series.
InstallAnswered(t) ==
    /\ pc[t] = "install"
    /\ \/ Starts(t) /\ \E next \in {"status", "verify"} : Goto(t, next)
       \/ Goto(t, "verify") /\ UNCHANGED job
       \/ Return(t, "eula_required") /\ (Starts(t) \/ UNCHANGED job)
       \/ Return(t, "online_install_failed") /\ UNCHANGED job
    /\ UNCHANGED <<package, op, row, polls, ghosts>>

\* The same for the uninstall call.
UninstallAnswered(t) ==
    /\ pc[t] = "uninstall"
    /\ Starts(t)
    /\ Goto(t, "status") \/ Return(t, "uninstalled")
    /\ UNCHANGED <<package, op, row, polls, ghosts>>

\* Mutant of Raises: a call that was cut off is made once more.
RaisesAgain(t) ==
    /\ pc[t] \in {"get", "catalog", "install", "uninstall", "verify"}
    /\ \/ Return(t, "error") \/ Goto(t, pc[t])
    /\ \/ UNCHANGED job
       \/ pc[t] \in {"install", "uninstall"} /\ Starts(t)
    /\ UNCHANGED <<package, op, row, polls, ghosts>>

\* The call raises: an error code, a dead session, a timeout.  A change that
\* was asked for may have been started.
Raises(t) ==
    /\ pc[t] \in {"get", "catalog", "install", "uninstall", "verify"}
    /\ Return(t, "error")
    /\ \/ UNCHANGED job
       \/ pc[t] \in {"install", "uninstall"} /\ Starts(t)
    /\ UNCHANGED <<package, op, row, polls, ghosts>>

-------------------------------------------------------------------------------
(* _poll_install_task                                                      *)

\* The poll loop is left, in whatever way: nobody looks at its last answer.
PollOver(t) ==
    IF op[t].tool = "install" THEN Goto(t, "verify") ELSE Return(t, "uninstalled")

\* The task is over ("finished", or a final word), or cannot be queried.
StatusFinal(t) ==
    /\ pc[t] = "status"
    /\ PollOver(t)
    /\ polls' = [polls EXCEPT ![t] = 0]
    /\ UNCHANGED <<package, job, op, row, ghosts>>

\* Mutant of StatusPending: the count starts over where the loop should end.
StatusPendingRestarts(t) ==
    /\ pc[t] = "status"
    /\ Goto(t, "status")
    /\ polls' = [polls EXCEPT ![t] = (@ + 1) % MaxPolls]
    /\ UNCHANGED <<package, job, op, row, ghosts>>

\* The task still runs, or answers something else: wait, and ask again until
\* the time is over, and the count with it.
StatusPending(t) ==
    /\ pc[t] = "status"
    /\ \/ polls[t] + 1 < MaxPolls /\ Goto(t, "status")
       \/ polls[t] + 1 = MaxPolls /\ PollOver(t)
    /\ polls' = [polls EXCEPT ![t] = (@ + 1) % MaxPolls]
    /\ UNCHANGED <<package, job, op, row, ghosts>>

\* Package.get again; its answer goes into data.version, data.installed is True.
VerifyAnswered(t) ==
    /\ pc[t] = "verify"
    /\ Return(t, "installed")
    /\ UNCHANGED <<package, job, op, row, polls, ghosts>>

-------------------------------------------------------------------------------
(* DSM and the people in its Package Center                                *)

JobFinishes(t) ==
    /\ job[t] = "running"
    /\ job' = [job EXCEPT ![t] = "finished"]
    /\ package' = IF op[t].tool = "uninstall" THEN None ELSE row[t].build
    /\ UNCHANGED <<pc, op, row, polls, result, ghosts>>

JobFails(t) ==
    /\ job[t] = "running"
    /\ job' = [job EXCEPT ![t] = "failed"]
    /\ UNCHANGED <<package, pc, op, row, polls, result, ghosts>>

PackageCenter ==
    /\ package' \in Builds
    /\ package' # package
    /\ alone' = [t \in Tasks |-> alone[t] /\ ~Active(t)]
    /\ UNCHANGED <<job, pc, op, row, polls, result, misled>>

Continue(t) ==
    \/ InstallChecked(t) \/ CatalogAnswered(t) \/ InstallAnswered(t)
    \/ UninstallChecked(t) \/ UninstallAnswered(t)
    \/ StatusFinal(t) \/ StatusPending(t) \/ VerifyAnswered(t) \/ Raises(t)

Next ==
    \/ \E t \in Tasks : Begin(t) \/ Continue(t) \/ JobFinishes(t) \/ JobFails(t)
    \/ PackageCenter

Spec == Init /\ [][Next]_vars

\* Every HTTP call ends, and so does every sleep.  Nothing is assumed of jobs.
FairSpec == Spec /\ \A t \in Tasks : WF_vars(Continue(t))

-------------------------------------------------------------------------------
(* Properties                                                              *)

Returns(t, how) == pc[t] # "done" /\ pc'[t] = "done" /\ result'[t] = how

\* packages_install does no upgrades: the job of a call that nobody overlapped, and
\* that was not misled about what is installed, installs where nothing is, also when
\* it ends long after the call has given up polling.
NothingReplaced ==
    [][\A t \in Tasks :
         op[t].tool = "install" /\ alone[t] /\ ~misled[t]
           /\ job[t] = "running" /\ job'[t] = "finished" => package = None]_vars

\* A call with a pinned version that nobody overlapped or misled, when it reports an
\* install and its row showed a version, has not installed another build (if it has
\* installed anything).
PinHonoured ==
    [][\A t \in Tasks :
         op[t].tool = "install" /\ alone[t] /\ ~misled[t] /\ Returns(t, "installed") =>
           \/ op[t].pin = None \/ row[t].shown = None
           \/ package' \in {None, op[t].pin}]_vars

Promise == INSTANCE PackageJobs WITH
    found  <- {t \in Tasks : pc[t] \in {"catalog", "install", "uninstall", "status", "verify"}},
    build  <- [t \in Tasks |-> IF job[t] = "none" \/ op[t].tool = "uninstall" THEN None
                               ELSE row[t].build],
    answer <- result,
    misled <- {t \in Tasks : misled[t]}

\* All that PackageJobs promises: a call starts one job at most, and none if it
\* answers with a refusal, which is true when it is said, unless the call was misled.
ImplementsPackageJobs == Promise!Spec

\* Every call ends, whether or not DSM's job ever does: the poll loop is
\* bounded.
CallsReturn == \A t \in Tasks : pc[t] \notin {"new", "done"} ~> pc[t] = "done"
===============================================================================
