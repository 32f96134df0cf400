# TLA+ verification of synology-mcp

synology-mcp is an MCP server: one asyncio process that offers tools ("add an
SSH key", "install a package") and carries them out on Synology NAS hosts over
two transports, DSM's web API (httpx) and SSH (paramiko).  The tools hold no
locks.  Several tool calls run interleaved in one event loop, share one cached
web session and one cached SSH client per host, and change a NAS that other
people change, too.  What is hard in this program is therefore

- what another call, or the NAS, does between two awaits;
- commands whose answer is lost, or which run twice, or still run after the
  tool has given up on them;
- multi-step changes that stop in the middle, and their rollback;
- probes that fail and read like an answer ("no keys", "no data", "off");
- jobs that go on after the call that started them.

The modules in this directory model those things, TLC checks them on small
instances, and TLAPS proves their safety properties for all values of the
constants.  `PROJECT.json` lists components, runs, mutants, hazards, theorems,
and for each definition the source lines it stands for.  Paths below are
relative to `src/src/synology_mcp/` unless they begin with `src/`.

## Inventory

| component | state it keeps | operations | interacts with | correct when |
|---|---|---|---|---|
| SSH transport, `transport/ssh.py` | the cached paramiko client of a host | `run` (with one retry), `close`, connect | every tool with an SSH step; sshd | a call ends; a dead client is not handed on; at most two executions |
| Sessions and authentication, `auth.py`, `session.py`, `_helpers.py` | `HostState.session` per host | `call_dsm`, `auth_login`, `auth_logout`, `auth_whoami`, shutdown | every tool with a web step; DSM's session table | requests carry a session; the password is sent rarely; sessions are not left behind |
| HTTP transport, `transport/http.py`, `errors.py` | an httpx client per host | `call`, the mapping of DSM codes to exceptions | sessions | codes raise the documented exceptions |
| Authorized keys tools, `ssh.py` | none; the file on the NAS | add, remove | SSH transport, User Home, sessions | no key is lost, doubled or half written |
| User Home tools, `user_home.py` | none; web flag, synoinfo, link on the NAS | tri-check, enable (4 steps, rollback), disable (safety rail) | both transports | enable means on; rollback restores; the rail holds |
| Packages tools, `packages.py` | none; packages and jobs on the NAS | install, uninstall, poll loop; list and status with concurrent probes | both transports | no upgrade, no wrong build, every call ends; the fan-out is bounded, a row's status is true |
| Shares tools, `shares.py` | none; share table and directories on the NAS | create, delete (safety rail); list, ACL, snapshots | both transports | no share with data goes unforced; create never reconfigures |
| SSH port tool, `ssh.py` | none; terminal settings on the NAS | `ssh_set_port` | both transports; sshd, what else listens | a taken port is refused; other settings stay; what was answered stays set |
| Admin group tool, `ssh.py` | none; the group on the NAS | `ssh_enable_user_ssh` | web API; who may log in | "enabled" is true |
| Snapshot replication tools, `snapshot_replication.py` | none | list plans, plan status, activity: web API with fallback to two databases | both transports; DSM's lazy loading | what is there is reported, what is reported was there, a failed query shows |
| RAID tools, `raid.py` | none | parsing of `/proc/mdstat`, hardware info | both transports, network tools | each array once, with its own state and disks |
| Network tools, `network.py` | none | list and get of interfaces: web view merged with sysfs | both transports | a stale cache never wins over sysfs; a contradiction is told |
| Configuration, `config.py` | immutable after start | load, precedence of file and environment | all | each setting from the first source that makes it |
| MCP server, `server.py` | the `AppContext` | registration, `_safe`, start, shutdown | all | |

## Modules

| module | models | EXTENDS, INSTANCE |
|---|---|---|
| `RemoteExec` | what `DSMSshClient.run` promises: abstract specification | |
| `SshTransport` | `transport/ssh.py` | `Promise == INSTANCE RemoteExec` |
| `SessionAuth` | `auth.py`, `session.py`, `call_dsm`, as far as the cached session goes | |
| `KeyLines` | the lines of a key file | |
| `KeyFile` | what the two key tools promise: abstract specification | `KeyLines` |
| `AuthorizedKeys` | the two key tools and the file system behind them | `KeyLines`; `Abstract == INSTANCE KeyFile` |
| `UserHome` | enable, disable and the tri-check | |
| `PackageJobs` | what install and uninstall promise: abstract specification | |
| `Packages` | install, uninstall, poll loop, DSM's jobs | `Promise == INSTANCE PackageJobs` |
| `Shares` | create and delete | |
| `SshAccess` | `ssh_set_port` and `ssh_enable_user_ssh`, sshd and its settings | |
| `PackagesList` | `packages_list` and `packages_status`: their coroutines, slots and channels | |
| `SnapshotReplication` | the three replication queries | |
| `Network` | the two network tools, and `raid_hardware_info` | |
| `Mdstat` | `raid_state` and `parse_mdstat` | |
| `Configuration` | the settings of a host, as operators | |
| `Settings` | a server that loads the file and looks hosts up; what its settings mean | `Configuration` |
| `MCQueries` | instances of what only reads, for TLC | `Settings`, `Mdstat`, `Network`, `SnapshotReplication` |
| `MC<M>` | instances of `<M>` for TLC | `<M>` |
| `<M>Proofs` | theorems about `<M>` | `<M>`, `TLAPS` |
| `SessionAuthProofs` | theorems about `SessionAuth` and about `Settings`, from which a session is opened | `SessionAuth`, `Settings`, `TLAPS` |
| `QueriesProofs` | theorems about the four modules of tools that only read | `PackagesList`, `SnapshotReplication`, `Network`, `Mdstat`, `TLAPS` |

A definition named after a mutant (`RecoverThrice`, `FindKeysSudoLax`, ...) is
not part of any specification.  It is a plausible bug of the definition that
follows it; with the bug in place, the property named with it in `PROJECT.json`
must fail.

### SshTransport, RemoteExec

One `DSMSshClient`, several coroutines in `run`.  `cache` is `self._client`,
`client[c]` and `attempt[c]` are locals of `run`, `pc[c]` is the executor job
the coroutine awaits: connecting, opening a channel, reading.  Everything
between two awaits is one action, because the event loop switches nowhere else.
`Call` is the way through `_ensure_client` to the first await; `Connected` and
`ConnectFailed` are the ends of `_connect_sync`; `Execute`, `Reply`, `Cut` those
of `_exec_command_sync`; `ChannelError` and `ReadTimeout` are the exceptions
`run` handles, `ChannelRefused` the one that comes on a live link (sshd refuses the
channel, or is slow to open it), and `Recover` what it does about them (`close()`, and the second
attempt or the error).  `ClosedUnderCall` is the exception it does not handle:
`exec_command` on a client without a transport.  `LinkLost` is the network.  `calm`
is a history variable: the last call has had neither company nor a fault.
`StaleClientHarmless` says that the end of such a call does not depend on what others
left in the cache before it, which is the point of the one retry.

`RemoteExec` has none of that: a call is busy or not, its command may be
executed twice while it is busy, and a success has executed it at least once.
`SshTransport` implements it under `busy <- [c |-> pc[c] # "idle"]`.
`AuthorizedKeys` models `run` at that level: `Retry` is the second execution.

### SessionAuth

The session of one host.  `session` is `HostState.session`, `sid[t]` the session
in a task's locals, `pc[t]` the HTTP call it awaits.  `StartCall`, `StartLogin`,
`StartWhoami`, `StartLogout` are the tools up to their first await;
`LoginStored` assigns the cache before the version query is awaited, as
`perform_login` does; `VersionAnswered`, `ApiAnswered`, `LogoutAnswered` and the
failing variants are the rest.  External: DSM's session table, `dsm`.
`NoResurrection` says that a session that has left the cache never comes back
into it; `NoOrphanWhenClean` that use without overlap and lost answers leaves none
behind but those that were cached when an `auth_login` began (`replaced`).
`DeadSessionInvalidated` is what the documents say of a session DSM has ended; it
does not hold, in a run of its own.

### AuthorizedKeys

`ssh_add_authorized_key` and `ssh_remove_authorized_key` on one user's file.
The file system is modelled down to inodes: `> tmp` creates or truncates,
`base64 -d` writes through the descriptor opened before, `mv` renames whatever
has that name by now.  `Execs` are the first and second execution of each task's
write command; they go on when the tool has returned.  `readable` is whether the
account can read the file: `cat ... || true` makes an unreadable file an empty
one, and `_ensure_ssh_dir` is what keeps an add from acting on that.  A line is a
key, a comment, or something the key parser refuses.  `Overlap` says whether
calls, and executions of one command, may overlap.

`KeyFile` has a file, calls and answers, and no commands: a call changes the
file at one moment (`Apply`) and at most once, even after it has answered with
an error; "ok" is said after its change and while the file is as asked for,
"unchanged" and "refused" by calls that have changed nothing and never will.
Without `Overlap`, `AuthorizedKeys` implements it: the moment is the rename that
first puts the call's payload in place (`Applied`), and every other step, the
second rename of a repeated command included, leaves the abstract state alone.

### UserHome

Three places say whether User Home is on: `web`, `synoinfo`, `link`.  A call
reads them one by one (`GetAnswered`, `ReadSynoinfo`, `ReadHomes`), and a probe
that fails reads as off.  `WriteSynoinfo`, `Relink`, `SetOn`, `PrepareFolder`
are the steps of the enable, each of which may fail before, after or in the
middle of its change; `Restore` is `_restore_symlink` with the failure envelope.
A link command that times out, or its retry, is given up on and may go on
running on the NAS (`transport/ssh.py:131`): `late` are the ones that may, and
`RunLate` is one that does, before or after the rollback, removing the link or
making it.  Where `rm -f` and `ln -s` of both commands mix, the rollback's `ln`
finds a link, makes its own inside of the folder, and reports success; so
`EnableMeansOn` and `RollbackRestores` ask that no command of the call is late at
its end.  A late step 1 writes "yes" again, and a late `set` of step 3 is not modelled.
`FindKeys` and `SetOff` are the disable.  `KeyChange` is anybody adding or
removing keys.  `Visible` are the users whose file the enumeration's glob
matches: the login shell expands it, before sudo, and may see less than all.
External: DSM's own rule that `set enable=true` is ignored while synoinfo says
no (module docstring of `user_home.py`), and that turning off may clear the
other places.

### Packages

One package.  `job[t]` is what DSM has started for a call; it runs, finishes or
fails by itself.  `InstallChecked`, `CatalogAnswered`, `InstallAnswered`,
`StatusFinal`, `StatusPending`, `VerifyAnswered` are `packages_install` in
order; `UninstallChecked`, `UninstallAnswered` and the same poll loop are
`packages_uninstall`.  A catalog row may show no version, and then the pin is
not compared.  The status call may answer for another call's job (DSM names the
task after the package) or fail, so that the loop may end at any time.
`PackageCenter` is other people.  `_get_installed_package` takes a success without
data or without an id, and an error 102, 103 or 104, for "not installed", also of a
package that is there; `Misleads` is that, and the history `misled` remembers whom it
befell.  An answer with a licence ends the call, with or without a job at DSM: the
code does not ask.

`PackageJobs` has no HTTP calls, rows or polls: a call that has found the package
as it needs it (`Look`) has DSM start one job at most (`Start`), a refusal is true
when it is said and its call never has a job (`Refusal`), and the package changes
when a job ends or by other people.  A call that is misled may look at an installed package
and start a job, or be the one "not_installed" that is false; it still has one job at most.
`Packages` implements it in every overlap: `found` are
the calls past their check, `build` is the build of the row a job was asked for with.

### Shares

One share name.  `filled` are the volumes where a directory of that name holds
data.  `CreateListed` compares with what is there; `DeleteListed`,
`ProbeAnswered`, `ProbeFails`, `Deleted` are the delete with its rail.  An empty
directory may measure more than 0 (`du -sb` counts directory blocks on ext4), so
the rail may refuse too much; a failing probe reads as an absent directory, so
it may also refuse too little.  External: DSM's share table, which refuses a
taken name.

### SshAccess

`terminal` are DSM's terminal settings (SSH on, and its port; the fields that are
not modelled are passed on the same way), `sshd` is where sshd listens, which
follows them late (`SshdReloads`) or not at all if something else has the port.
`GetAnswered`, `ProbeAnswered` (by `ss`, then by `netstat`), `SetAnswered`,
`VerifyAnswered` are `ssh_set_port` in order; "verified" is the end of a call that
has logged in at the port, and of one that has read it as set already; `ProbeFails` and `ProbeCut` are a
probe with no answer, and with part of one.  `conn` is the cached client: it
connects at the configured port, whatever the port is now, and only while the
account is an administrator (`Reachable`).  `WhoAnswered`, `CheckAnswered`,
`AddAnswered` are `ssh_enable_user_ssh`.  `ControlPanel`, `OthersListen`,
`AdminsChange`, `LinkLost` are other people and faults; `stable`, `held` and
`faulty` are histories of them.

### PackagesList

One coroutine per row of a call, `pc[r]`, and one semaphore per call, `free[c]`.
All commands are channels of the one cached connection: `Await` opens the next
one, and if sshd already has `MaxSessions` of them the channel is refused, `run`
closes the client, and every other channel dies (`dead`).  What a dead channel
means for its row is `OnoffProbed`'s choice of an exit status, or `Escapes`: the
exception that is no `DSMSshError` and that `asyncio.gather` passes on while the
other coroutines go on without anybody waiting for them.  `TimesOut` is a probe that
is not answered in time: its `run` closes the client under all the other channels and
goes on with the next one, which is not dead.  An `is_onoff` that fails for another
reason than that the package is off reads as stopped, too (`packages.py:154`);
`quiet` is the history of calls that none of this befell.  `path`, `started` and
`docker` are the probes outside the semaphore.

### SnapshotReplication

One call, as the tools only read.  `PlansAnswered`, `GetAnswered` and
`ActivityAnswered` are the web API, which knows the plans once DSM has `hydrated`
them; `PlansQueried`, `SharesQueried`, `PlanQueried`, `ReplicasQueried`,
`SizesQueried` the queries of the two databases, and `QueryFails` each one's
failure with what its caller makes of it.  `Change` is DSM's plans and replicas.
That the events of the web API's activity are the rows of `snap_replica.db`, too, once
DSM has loaded them, is an assumption on DSM: the code takes either as they come.
`ever` and `steady` record what was there at some moment, and all the time.

### Network

One call.  The web API answers from a cache of any age, so that `WebAnswered` is a
view of any links; `SysfsRead(i)` reads as much of interface `i` as can be read and
merges it (`MergedIface`, `Mismatch`): what is not "up" for sysfs becomes down, also
the "unknown" of virtual interfaces, and a speed that is not positive is none.
`raid_hardware_info` is a call of this module because its NIC table is the list
of `network.py`; it drops the table without a word if that list raises
(`Raises`).  `LinkChanges` is the cable; `been[i]` what the link has been.

### Mdstat, Configuration, Settings

In `Mdstat` the tool `raid_state` lists arrays, any of `Listings` each time.  A line
of `/proc/mdstat` is a record of what the parser's regular expressions tell apart;
`Listing` is how the kernel prints arrays, `Entry` and `parse_mdstat` are the
parser, `Expected` is what there is to report, and `Misread` and `Omitted` name
where the two differ.  Any marks may follow a disk, also several, a journal's or
DSM's (E); the E that DSM also writes into the status (`[UE]`) is left out.  Lists are put together by `Joined`, a recursive function.
`Configuration` is pure operators. In it a variable is the sequence of its words, so
that names which run together do so here, too; `Overlay`, `ParsedHost`, `Merged`,
`get_host` are the code. In `Settings` a server loads the file (`Load`, or it does not
start) and answers any number of lookups (`Lookup`); `Said` and `Meant` are the
reference, in terms of who set what and not of the names it is set with. `Borrows`
says that a name another host's variable was set with is one of this host's, too.

## What the runs check

States are distinct states; each run takes at most about three minutes on two workers.
`queries` puts together what only reads: the components have nothing to do with each
other, and in a behaviour one of them moves while the others wait in one initial state.

| run | instance | states | shows |
|---|---|---|---|
| `ssh_transport` | 2 callers, 3 clients, 2 faults | 134,509 | `CacheNotClosed`, `StaleClientHarmless`, `QuietWithoutFaults`, `ImplementsRemoteExec`, `EveryCallReturns` |
| `session_auth` | 2 tasks, 3 sessions | 625,019 | `InFlightCarriesSession`, `NoOrphanWhenClean`, `NoResurrection`, `ToolsReturn` |
| `authorized_keys` | 2 tasks, 2 keys, 3 first files, no overlap | 82,952 | `NoTornWrites`, `LinesKept`, `OrderKept`, `SuccessIsTrue`, `ImplementsKeyFile` |
| `user_home` | 2 calls, 2 volumes, 1 user | 4,683,839 | `EnableMeansOn`, `RollbackRestores`, `RailHolds` |
| `packages` | 2 calls, 2 versions, 2 polls | 960,439 | `NothingReplaced`, `PinHonoured`, `ImplementsPackageJobs`, `CallsReturn` |
| `shares` | 2 calls, 2 volumes, 2 flag settings | 519,586 | `RailHolds`, `CreateKeepsOrMakes` |
| `ssh_access` | 2 calls, ports 22 and 1024, 2 acts or faults | 2,763,129 | `TakenRefused`, `AnsweredHolds`, `SettingsKept` |
| `packages_list` | 2 calls, 3 packages, 1 slot, 2 channels, 1 event | 3,608,242 | `FanOutBounded`, `StatusHonest` |
| `queries` | one of: 3 hosts, 2 variables, a file with 1 host; 2 arrays of 1 or 2 disks; a network call, 2 interfaces, 2 speeds, 1 change; a replication call, 2 plans, 2 shares, 2 replicas, limits 1 and 3, 2 changes | 5,154,350 | `Layered`; `ArraysReported`; `LinkTrue`, `MismatchTold`; `AnswersTrue`, `AnswersComplete`, `NotFoundIsTrue` |

Some runs check `TypeOK`, too; those of `SshTransport`, `SessionAuth`, `AuthorizedKeys`,
`Packages`, `SnapshotReplication` and `Network` are proved and not run.  Deadlock is checked in
`ssh_transport`, where calls never stop coming.  Elsewhere a behaviour ends when
all calls are done, or the process is down.

Bounds.  Two callers, with two or three of what they share, are the smallest
instances in which each hazard of the list happens: a connect race needs two
callers and three clients (one cached, one per caller); closing each other's
clients needs two faults; a session abandoned by a second login needs two
sessions, and a third shows what comes after.  Two polls stand for the 150 of
the code (300 s / 2 s): one that goes round and one that ends the loop.  The calls and builds of `Packages` are
interchangeable and what is called never changes, so that `MCSpec` begins with one
of the choices that differ in names only.  In
`AuthorizedKeys` the first files are none, one with a comment and a line that
does not parse around a key, and one with a key twice.  In `PackagesList` one slot
and two channels stand for the 6 of the code and the 10 of sshd: a call by itself
fits (a slot and a docker probe), two calls do not.  In `SshAccess` port 22 needs
`allow_default` and 1024 is the least port that does not; either may be the one
asked for, set, or taken, and the configured one is 22.  Two acts are enough for a
port to be taken and the link to fail in one call.  The limit 1 cuts the activity,
3 does not.  The three host names of `MCQueries` collide in both ways two names
can (a longer prefix, and another separator); two variables are a field's first and
second alias, or the same one of two hosts.  The arrays of `/proc/mdstat` are every
combination of mode, level, seven sorts of marks, missing member and action for two neighbours;
they are read in one environment only, since the parser does not depend on it.
Where a theorem exists, the bounds do not matter for the property it states.

`alone`, `misled`, `calm`, `clean`, `replaced`, `stable`, `held`, `quiet`, `ever`, `been` and `steady` are history
variables.  Properties that need a call to be
undisturbed say so by them, and are still checked in behaviours where other calls
come before and after, and where jobs and executions of earlier calls are over.
`QuietWithoutFaults`, both `RailHolds`, `CacheNotClosed`,
`InFlightCarriesSession`, `NoResurrection`, `FanOutBounded` and everything about
the queries need no such hypothesis.

Fairness.  `EveryCallReturns` assumes weak fairness of `Progress(c)`: connecting
has a timeout, and so has each read of the channel.  `recv_exit_status`
(`transport/ssh.py:163`) has none of its own: that the executor thread ends relies
there on sshd, or on Paramiko noticing that the transport is gone, and is assumed.  `ToolsReturn`
and `CallsReturn` assume it of `Continue(t)`: httpx has a timeout on each call,
sleeps end.  Nothing is assumed of the network, of DSM's jobs, or of failures.

### Documented behaviour that does not hold

| run | property | what TLC finds |
|---|---|---|
| `authorized_keys_torn` | `NoTornWrites`, with `Overlap` | two writers, or a write and its own retry, share one temporary name; one renames the file the other has just truncated (`ssh.py:261` says "no torn writes") |
| `session_dead` | `DeadSessionInvalidated` | a call that DSM answers with 107 or 119 leaves the dead session cached, and later calls fail until an explicit login (`session.py:9` and `src/DESIGN.md:86` say it is invalidated, `src/DESIGN.md:158` that a re-login and a retry follow: there is neither) |
| `network_down` | `NullIfDown` | a link that sysfs says is down, with the speed -1, is shown with the speed of the web API's cache, without a warning (`src/DESIGN.md:387` says "null if down", and the comment at `network.py:135` that -1 means down) |

Found while modelling, and without a run of their own:

- One lost link and two callers are enough for "SSH channel error after
  reconnect", which `transport/ssh.py:8` and `src/DESIGN.md:641` say callers do not see: one
  closes the client the other has just reconnected, on that one's last attempt.
- The connect race (`transport/ssh.py:99`) leaves two clients open; the one
  that is not cached is never closed.
- `exec_command` on a client closed by another caller raises AttributeError,
  which neither `run` nor the tools' `except DSMSshError` handle
  (`ClosedUnderCall`).  A channel that dies under the read is exit status -1
  without a retry (`Cut`).
- A shutdown logs no session out (`Shutdown` leaves `dsm` alone), although
  `src/DESIGN.md` says "best-effort logout on every cached session".  A logout
  that is answered late drops a session another task has stored meanwhile.
  `auth_login` abandons the session it replaces.  The backoff of
  `src/DESIGN.md` "Retry policy" does not exist in `DSMHttpClient.call`.
- With `Overlap`, `LinesKept` and `SuccessIsTrue` fail as well: lost updates.
  Removing a key drops comment lines, too (`LinesKept` excludes them), and from a
  file that cannot be read it reports that there was nothing to remove
  (`SuccessIsTrue` excludes it).
- `user_home_disable` answers "already disabled" and leaves the flag on when a
  probe failed or the signals disagree.  With `confirm_destroy_keys=True` the
  enumeration is made although the docstring says it is skipped.
  "symlink restored" is reported although the link could not be restored
  (`user_home.py:339, 346, 362`), or is made anew later by a step 2 that was given
  up on and still ran.  When the enumeration of keys fails without a
  word of sudo it reads as "no users", and an unconfirmed disable goes on
  (`user_home.py:12` promises the refusal).
- A probe of `shares_delete` that fails lets the delete go on without force;
  `RailHolds` names that exception (`unanswered`).
- A second install while the job of an earlier one still runs starts a second
  job; `NothingReplaced` speaks of calls that nobody, and no such job, overlaps, and
  that were not told by mistake that nothing is installed (`misled`,
  `packages.py:566, 580`): such an install goes on over the installed build.
  `installed: true` is said although the job failed or has not ended: the
  verification's answer is not looked at (`packages.py:906`, `src/DESIGN.md:221`).
- `ssh_set_port` loses a change of the settings made between its read and its
  write, and sends `enable_ssh=false` after an answer without data.  "Already on
  this port" is answered as verified without a login (the docstring says so), of
  a port where nobody may listen: SSH may be off, or the change not taken over.
  A verified change may have been logged in to at a listener that sshd gives up
  on its next reload.  `AnsweredHolds` is therefore about the settings, and
  nothing here says that a verified port can be logged in to.  Without `ss` the probe
  reads an empty list as a free port; the fallback to `netstat` (`ssh.py:757`) is
  reached only by a `DSMSshError`.  After the change the configured port is still
  the old one, so that the next reconnect fails.
- `packages_list` has 7 probes out, not 6: the docker probe is made outside the
  semaphore (`packages.py:259`).  Two lists at once exceed sshd's channels and
  close each other's client; after `gather` has raised, the other coroutines go on.
  A probe that times out closes the shared client under all others.  The exit
  status -1 of a dead channel reads as "stopped" (`packages.py:154`), as does any
  other failure of `is_onoff`.
- `snapshot_replication_plan_status` answers "not found" when its query failed,
  and does not show the warning.  The limit of the activity keeps rows without a
  time before those that have one.
- When sysfs does not answer, the web API's old speed is shown without a warning.
  An interface whose state the kernel does not know ("unknown", as of a working
  tunnel) is shown as down (`network.py:144`), whatever the web API says.
- `raid_hardware_info` shows no interfaces without a warning when the list raises.
- `parse_mdstat` takes the first disk of an inactive array for its level and omits
  one with a single disk, loses a flag after `(W)` or another mark it does not know, and such marks themselves, takes the "(auto-read-only)" of
  a linear array for its level, shows a delayed resync as clean, and any check or reshape as resyncing.
- Two hosts share variables when one name is the other's prefix or they differ in
  the separator (`NAS_SSH_PORT`).  An empty first alias in the file hides the later
  ones.  A bad number in the file is a ValueError, not a ConfigError; the string
  "false" in the file is true; a misspelt `verify_tls` in the environment is false.

## What is proved

The proof modules prove, for every finite or infinite set of calls, keys,
volumes and so on that the named assumptions of the modules allow:

| module | theorems |
|---|---|
| `SshTransportProofs` | `TypeCorrect`, `CacheNeverClosed`, `RaceIsHarmless`, `StaleClientsHarmless`, `RunImplementsRemoteExec` |
| `SessionAuthProofs` | `TypeCorrect`, `InFlightAlwaysCarriesSession`, `LoginsBounded`, `CleanLeavesNoOrphan`, `NeverResurrected`; of `Settings`: `AlwaysLayered` |
| `AuthorizedKeysProofs` | `NeverTorn`, `TypeCorrect`, `NothingLost`, `SameOrder`, `SuccessTrue`, `KeysImplementKeyFile` |
| `UserHomeProofs` | `TypeCorrect`, `FlagAlwaysLast`, `EnableAlwaysMeansOn`, `RollbackAlwaysRestores`, `RailAlwaysHolds` |
| `PackagesProofs` | `TypeCorrect`, `NothingEverReplaced`, `PinAlwaysHonoured`, `PackagesImplementPackageJobs` |
| `SharesProofs` | `TypeCorrect`, `RailAlwaysHolds`, `CreateAlwaysKeepsOrMakes` |
| `SshAccessProofs` | `TypeCorrect`, `TakenAlwaysRefused`, `SettingsAlwaysKept`, `AnsweredAlwaysHolds` |
| `QueriesProofs` | `TypeCorrect`, `FanOutAlwaysBounded`, `StatusAlwaysHonest`; of `SnapshotReplication`: `ReplicationTyped`, `ReplicationAlwaysTrue`, `ReplicationAlwaysComplete`, `ReplicationNotFoundTrue`; of `Network`: `LinkAlwaysTrue`, `MismatchAlwaysTold`; of `Mdstat`: `AlwaysReported` |

Every invariant and every action property of a passing run is the property of one
of these theorems.

The arguments:

- **SshTransport.** `TypeOK` is not inductive.  That nobody executes a command a
  third time needs that executions stay within the attempts made
  (`RunsWithinAttempts`) and that an open or reading call has a client.  With
  that, each step is a step of `RemoteExec` or a stutter, and the refinement
  follows.  That a cached client is not closed holds because the only place that
  closes is the one that empties the cache.  `CalmCall` follows a call without company
  or fault: it starts on a client nobody closed, finds a lost one before the command
  runs, and its second attempt is on a client nobody is there to close.
- **SessionAuth.** A task's local session is one DSM has issued, from the moment
  it is stored (`InFlightCarriesSession` is part of the invariant).  For
  `NoOrphanWhenClean` the invariant `Clean` describes the one task that may be
  active: each live session is the cached one, that task's own, or was replaced.  For
  `NoResurrection` the invariant `GrantedFresh` says that a session that has just
  been granted has not been in the cache, and is no other task's.
- **AuthorizedKeys.** All but `TypeCorrect` assume `~Overlap`.  `OneAtATime`: one task,
  or one execution, at work.  `Ordered`: executions start with the call's write,
  the second after the first.  `Apart`: the inode that is written is never that of
  the user's file.  `Whole`: it is empty when opened, and then holds the payload.
  So what is renamed is complete.  For the lines, `Based` says
  what a payload has to do with the file: as long as a call may still write
  (`Pending`), either the file is its payload already, so that a second execution
  changes nothing, or the payload is what the call makes of the file as it is
  (`Makes`).  `FileSteps` follows: the file changes in one way only, from what a
  payload was made of to that payload.
  What `Keep` computes of a file of any length is proved by induction over the
  sequence, stated with sets instead of predicates: a set that has `<<>>` and, with
  `s`, every `Append(s, x)` has every sequence (`SeqInductionSet`, from the order of
  the naturals being well-founded).  `KeepLines` is that `Keep` drops what it is told
  to and nothing else, `KeepAgree` and `KeepAll` that it keeps order and copies.
  For `KeyFile` the invariant needs `Once` besides: a call that may still write has
  either changed the file, which then is its payload, or has not, and the file is
  still the one it decided on; "ok" is only to be said after that change; and a call
  that says "unchanged" or "refused" has sent nothing.  `MoveImplements` is then one
  question, whether the rename is the call's first.  `KeepTwice` says that to drop some
  lines and then others is to drop both: a remove does it in two, `Apply` in one.
- **Settings.** The state is simple: a server answers with a file that loads, and as
  `get_host` does (`SettingsInv`).  What is to prove is what `get_host` computes
  (`GetHostLayers`).  `VariableIs`: two names that begin with the host's words are
  equal only if their aliases are, so that, where nothing is borrowed, each of the
  host's variables has the value it was set to.  `FirstOfFirst` and `FirstOne`: the
  code's search and the reference find the same alias.  `OverlayIs`, `TableIs` and
  `DefaultsAre` are the layers, `MergedIs` puts them together.
  `SettingsAssumption` says what a setting is: a variable has one value, and in
  the file a boolean is a TOML boolean (the string "false" is true to the code), and
  [defaults] has only what may have a default.
- **UserHome.** `Early` are the places of a call that has no link command behind it,
  and so no late one.  The invariant `IInv` says, for a call that nobody overlaps, what it knows
  at each of its steps: what the tri-check has seen on is on, what a step has
  established is still so, and what no step has touched is as in `start`.
  `AloneIsAlone` makes it inductive: while such a call runs, no other does, so
  every step is its own.  `RailHolds` needs no solitude: `Rail` says that users
  with steady keys are users with keys, and that a call past its enumeration has
  none of them in sight unless confirmed or unanswered.
- **Packages.** `Fresh`: an install that is alone and not misled finds nothing installed until
  its job is done, and then the build of its row.  `Pinned`: that row is one the pin allows.
  For `PackageJobs` no solitude is needed.  `RightTool` says that a call has no job before
  the request for it is out, `Spoken` that it has answered if and only if it is
  done, and that an uninstall that polls has a job.  The lemmas `GoesOn`, `Looks`,
  `Answers` and `Begins` each map a kind of step, and `StepImplements` says of every
  action which kind it is: above all that `Raises` at a request may be a `Start`
  whose answer was lost, which ends the call.
- **Shares.** `Kept`: a share that was kept is full and is the one the probe
  measures, so that an answered probe stops the delete.  `Unchanged`: alone, the
  share is the one found at the beginning.
- **SshAccess.** `FaultSeen`: out of reach of SSH is recorded.  `HeldInv`: a port
  that has been held throughout, without a fault, and with `ss`, is not written, since the probe
  saw it.  `Own`: while nobody else writes, the settings are those that were read,
  or the call's own, also after the call.
- **SnapshotReplication.** `RepHistory`: `steady` is part of the tables, and the
  tables are part of `ever`.  `RepFound` is about the calls that make two queries:
  between them, the rows of the first were all there at some moment, and none that
  stayed is missing, unless a warning says that the query failed.  With that the
  three properties are inductive themselves.  That an activity shorter than its
  limit was not cut is an argument about cardinalities.
- **Network.** `Told(i)`: what is to be shown of an interface was so at some moment,
  or its file could not be read; a link without a speed is shown with none or the web
  view's; and a speed the web view contradicts is in `flagged`.  `NetReading` says so of each interface whose files
  have been read, hence of all that are shown.
- **PackagesList.** `Counted`: free slots and coroutines in a slot add up, which is
  an argument about cardinalities.  `RoomForOne`: a call that is by itself has at
  most `Slots` channels in slots and one docker probe, hence never runs into
  `MaxSessions`, and none of its channels is dead (`Quiet`).
- **Mdstat.** The induction is over the arrays of a listing, with `Joined` known
  through its equations (`JoinedIs`, `JoinedNext`), which themselves take an
  induction over the naturals, as the equation of a recursive function has to be
  shown.  `EntryKept`: an array's lines end in a blank one, so that what is printed
  after it changes no entry before.  `EntryIs` and `MadeRight`: by itself, an
  array is read as `Right` asks, for each kind of lines it may have.  `ParseNext` and
  `ReportedNext`: one array more is one entry more, or none if it is omitted.

Assumptions are named and stand in the module that declares the constants:
disjointness of null values and of kinds of lines, at least one more client identity
than callers (`ConnsAssumption`), `MaxPolls` and the limits of an activity positive,
finite sets of callers, packages and replicas, room for `Slots + 1` channels in a
connection (`MaxSessionsAssumption`), and no disk that is named like a RAID level
(`MdstatAssumption`).

Only model-checked: liveness (`EveryCallReturns`, `ToolsReturn`, `CallsReturn`), as
fairness and ENABLED are out of the prover's reach.  `KeysImplementKeyFile` and its
neighbours are about calls that do not overlap; with `Overlap` they are false.

## What is not modelled

- `shares_list`, ACL and snapshot configuration; `raid_list_volumes` and
  `raid_list_disks`: one or two web calls whose fields are renamed.
- Server: tool registration, and the error envelope of `_safe`, which changes no
  state.  HTTP: the building of requests.
- Configuration: TOML's syntax, and tables of a wrong type, which are refused.
- `/proc/mdstat`: sizes, percentages and speeds.  Network: MAC, MTU, addresses.
- In what is modelled: host keys and keepalive, TLS, tokens and cookies, OTP
  codes, the DSM version's effect on parameters, quoting, the texts of warnings.
- Several hosts: nothing is shared between hosts but the process.

## Plan

Done, in this order: SSH transport and its abstract promise; sessions; authorized
keys; User Home; packages; shares; SSH port and admin group; the concurrent list of
packages; replication queries; interfaces; `parse_mdstat` and the settings; proofs
of all of these; `KeyFile` and `PackageJobs`.

Next:

1. A composition of `SessionAuth` with one multi-call tool (enable, install): what a
   session that dies between two web calls leaves behind.
2. `PackagesList` over `SshTransport`: the client that is closed under a channel is
   the one of `Await`'s abstraction.
