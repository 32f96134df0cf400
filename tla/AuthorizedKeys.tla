---------------------------- MODULE AuthorizedKeys ----------------------------
(***************************************************************************)
(* ssh_add_authorized_key and ssh_remove_authorized_key of ssh.py on one   *)
(* user's authorized_keys file: read the file with one remote command,     *)
(* compute the new contents here, replace the file with another.  Other    *)
(* tool calls run between the two, and DSMSshClient.run executes a command *)
(* up to two times (RemoteExec), the first execution possibly still        *)
(* running on the NAS when the second starts or when the tool has given up.*)
(*                                                                         *)
(* A task is one tool call.  KeyLines says what a line is.                 *)
(* External: the file system of the NAS, with its two names, the inodes    *)
(* behind them, and the shell commands of the write.                       *)
(***************************************************************************)
EXTENDS KeyLines

CONSTANTS
    Tasks,           \* tool calls
    Overlap,         \* whether tool calls, or executions of a command, overlap
    None             \* no inode

\* An execution of a task's write command: the first, or run()'s retry.
Execs == Tasks \X {1, 2}

\* An execution that creates the temporary file creates an inode of its own.
Original == <<None, 0>>
Inodes == Execs \cup {Original}

ASSUME OverlapAssumption == Overlap \in BOOLEAN
ASSUME NoneAssumption == None \notin Tasks /\ None \notin Inodes

VARIABLES
    data,            \* data[i]: contents of inode i
    ak,              \* the inode called authorized_keys
    tmp,             \* the inode called authorized_keys.synology-mcp.tmp, or None
    readable,        \* the login account may read (and touch) authorized_keys
    pc,              \* pc[t]: "new", the remote command t awaits, or "done"
    op,              \* op[t]: the tool and its key argument
    payload,         \* payload[t]: the contents t writes
    step,            \* step[p]: how far execution p of a write has come
    fd,              \* fd[p]: the inode p's redirection has opened
    result,          \* result[t]: what t returned
    initial          \* history: the first contents of the file

nas   == <<data, ak, tmp, readable>>
execs == <<step, fd>>
vars  == <<nas, pc, op, payload, execs, result, initial>>

File == data[ak]
TypeOK ==
    /\ data     \in [Inodes -> Seq(Lines)]
    /\ ak       \in Inodes
    /\ tmp      \in Inodes \cup {None}
    /\ readable \in BOOLEAN
    /\ pc       \in [Tasks -> {"new", "ensure", "read", "write", "rm", "done"}]
    /\ op       \in [Tasks -> [tool : {"add", "remove"}, key : Keys]]
    /\ payload  \in [Tasks -> Seq(Lines)]
    /\ step     \in [Execs -> {"none", "sent", "opened", "filled", "ok", "failed"}]
    /\ fd       \in [Execs -> Inodes \cup {None}]
    /\ result   \in [Tasks -> {"none", "ok", "unchanged", "refused", "error"}]
    /\ initial  \in Seq(Lines)

Init ==
    /\ initial \in InitialFiles
    /\ data     = [i \in Inodes |-> IF i = Original THEN initial ELSE <<>>]
    /\ ak       = Original
    /\ tmp      = None
    /\ readable \in BOOLEAN
    /\ pc       = [t \in Tasks |-> "new"]
    /\ op       \in [Tasks -> [tool : {"add", "remove"}, key : Keys]]
    /\ payload  = [t \in Tasks |-> <<>>]
    /\ step     = [p \in Execs |-> "none"]
    /\ fd       = [p \in Execs |-> None]
    /\ result   = [t \in Tasks |-> "none"]

-------------------------------------------------------------------------------
(* The tools                                                               *)

Goto(t, next) == pc' = [pc EXCEPT ![t] = next]

Return(t, how) ==
    /\ Goto(t, "done")
    /\ result' = [result EXCEPT ![t] = how]

\* Executions that still run on the NAS.
Running == {p \in Execs : step[p] \in {"sent", "opened", "filled"}}

Alone(t) == /\ Running = {}
            /\ \A u \in Tasks \ {t} : pc[u] \in {"new", "done"}

\* The call starts and passes the cross-user gate and, for an add, the User
\* Home tri-check.  A remove makes no check of User Home and no directory.
Begin(t) ==
    /\ pc[t] = "new"
    /\ Overlap \/ Alone(t)
    /\ Goto(t, IF op[t].tool = "add" THEN "ensure" ELSE "read")
    /\ UNCHANGED <<nas, op, payload, execs, result, initial>>

\* cross_user_not_supported, or precondition (User Home not enabled); or the
\* calls behind these checks fail.
Refuse(t) ==
    /\ pc[t] = "new"
    /\ \E how \in {"refused", "error"} : Return(t, how)
    /\ UNCHANGED <<nas, op, payload, execs, initial>>

\* Mutant of EnsureSshDir: a failing touch or chmod goes unnoticed.
EnsureLax(t) ==
    /\ pc[t] = "ensure"
    /\ Goto(t, "read")
    /\ UNCHANGED <<nas, op, payload, execs, result, initial>>

\* _ensure_ssh_dir: mkdir, chmod, touch, chmod.  touch and chmod fail on a
\* file that belongs to someone else.
EnsureSshDir(t) ==
    /\ pc[t] = "ensure"
    /\ readable
    /\ Goto(t, "read")
    /\ UNCHANGED <<nas, op, payload, execs, result, initial>>

\* A command before the write fails: the exception leaves the tool.
CommandFails(t) ==
    /\ pc[t] \in {"ensure", "read"}
    /\ Return(t, "error")
    /\ UNCHANGED <<nas, op, payload, execs, initial>>

\* _split_authorized_keys
Split(s) == Keep(s, Keys \cup Garbage)

\* Mutant of NewEntries: a remove stops at the first copy.
NewEntriesFirstOnly(t, entries) ==
    IF op[t].tool = "add" THEN Append(entries, op[t].key)
    ELSE LET i == CHOOSE j \in DOMAIN entries :
                    /\ entries[j] = op[t].key
                    /\ \A h \in 1..(j - 1) : entries[h] # op[t].key
         IN  SubSeq(entries, 1, i - 1) \o SubSeq(entries, i + 1, Len(entries))

\* What the two tools make of the entries; a line that does not parse matches
\* no fingerprint.
NewEntries(t, entries) ==
    IF op[t].tool = "add" THEN Append(entries, op[t].key)
                          ELSE Keep(entries, Lines \ {op[t].key})

\* Mutant of NothingToDo: an add does not look for the key.
NothingToDoUnchecked(t, entries) == op[t].tool = "remove" /\ ~In(op[t].key, entries)

\* The key is there already, or there is nothing to remove.
NothingToDo(t, entries) == In(op[t].key, entries) <=> op[t].tool = "add"

\* _read_authorized_keys answers: "cat ... || true" makes a file that cannot
\* be read an empty one.  The tool decides and sends the write.
ReadAnswered(t) ==
    LET entries == IF readable THEN Split(File) ELSE <<>> IN
    /\ pc[t] = "read"
    /\ \/ /\ NothingToDo(t, entries)
          /\ Return(t, "unchanged")
          /\ UNCHANGED <<payload, step>>
       \/ /\ ~NothingToDo(t, entries)
          /\ payload' = [payload EXCEPT ![t] = NewEntries(t, entries)]
          /\ step'    = [step EXCEPT ![<<t, 1>>] = "sent"]
          /\ Goto(t, "write")
          /\ UNCHANGED result
    /\ UNCHANGED <<nas, op, fd, initial>>

\* run()'s retry: the first execution ended without its answer getting here,
\* never started, or still runs.
Retry(t) ==
    /\ pc[t] = "write"
    /\ step[<<t, 2>>] = "none"
    /\ Overlap \/ <<t, 1>> \notin Running
    /\ step' = [step EXCEPT ![<<t, 2>>] = "sent"]
    /\ UNCHANGED <<nas, pc, op, payload, fd, result, initial>>

\* The execution run() awaits.
Awaited(t) == <<t, IF step[<<t, 2>>] = "none" THEN 1 ELSE 2>>

\* Mutant of WriteAnswered: the status is that of base64, not of mv.
AnsweredByFill(t) ==
    /\ pc[t] = "write"
    /\ step[Awaited(t)] \in {"filled", "ok"}
    /\ Return(t, "ok")
    /\ UNCHANGED <<nas, op, payload, execs, initial>>

\* The write's exit status arrives.
WriteAnswered(t) ==
    /\ pc[t] = "write"
    /\ step[Awaited(t)] = "ok"
    /\ Return(t, "ok")
    /\ UNCHANGED <<nas, op, payload, execs, initial>>

\* A non-zero status, or -1 because the channel died while the command runs:
\* the temporary file is removed next.
WriteRefused(t) ==
    /\ pc[t] = "write"
    /\ step[Awaited(t)] # "ok"
    /\ Goto(t, "rm")
    /\ UNCHANGED <<nas, op, payload, execs, result, initial>>

\* run() itself raises: no answer, whatever happened on the NAS.
WriteUnanswered(t) ==
    /\ pc[t] = "write"
    /\ Return(t, "error")
    /\ UNCHANGED <<nas, op, payload, execs, initial>>

\* rm -f of the temporary file, or its failure, which is suppressed.
Cleanup(t) ==
    /\ pc[t] = "rm"
    /\ tmp' \in {None, tmp}
    /\ Return(t, "error")
    /\ UNCHANGED <<data, ak, readable, op, payload, execs, initial>>

-------------------------------------------------------------------------------
(* The write command on the NAS                                            *)

\* A write from the start of a file: what was longer stays behind.
Overlay(s, old) == IF old = <<>> THEN s ELSE s \o SubSeq(old, Len(s) + 1, Len(old))

\* Mutant of OpenTmp: authorized_keys is written in place.
OpenInPlace(p) ==
    /\ step[p] = "sent"
    /\ step' = [step EXCEPT ![p] = "opened"]
    /\ fd'   = [fd EXCEPT ![p] = ak]
    /\ data' = [data EXCEPT ![ak] = <<>>]
    /\ UNCHANGED <<ak, tmp, readable, pc, op, payload, result, initial>>

\* "> tmp": creates the file, or truncates the one that is there.
OpenTmp(p) ==
    LET i == IF tmp = None THEN p ELSE tmp IN
    /\ step[p] = "sent"
    /\ step' = [step EXCEPT ![p] = "opened"]
    /\ fd'   = [fd EXCEPT ![p] = i]
    /\ tmp'  = i
    /\ data' = [data EXCEPT ![i] = <<>>]
    /\ UNCHANGED <<ak, readable, pc, op, payload, result, initial>>

\* base64 -d writes the decoded payload.
FillTmp(p) ==
    /\ step[p] = "opened"
    /\ step' = [step EXCEPT ![p] = "filled"]
    /\ data' = [data EXCEPT ![fd[p]] = Overlay(payload[p[1]], @)]
    /\ UNCHANGED <<ak, tmp, readable, pc, op, payload, fd, result, initial>>

\* chmod and mv, in the order of the command, on whatever tmp names by now.
MoveTmp(p) ==
    /\ step[p] = "filled"
    /\ tmp # None
    /\ step' = [step EXCEPT ![p] = "ok"]
    /\ ak'   = tmp
    /\ tmp'  = None
    /\ readable' = TRUE
    /\ UNCHANGED <<data, pc, op, payload, fd, result, initial>>

\* The command never starts, or stops: the disk is full, or there is no tmp
\* to move.
CommandStops(p) ==
    /\ \/ step[p] \in {"sent", "opened"}
       \/ step[p] = "filled" /\ tmp = None
    /\ step' = [step EXCEPT ![p] = "failed"]
    /\ UNCHANGED <<nas, pc, op, payload, fd, result, initial>>

-------------------------------------------------------------------------------

Next ==
    \/ \E t \in Tasks :
         \/ Begin(t) \/ Refuse(t) \/ EnsureSshDir(t) \/ CommandFails(t)
         \/ ReadAnswered(t) \/ Retry(t)
         \/ WriteAnswered(t) \/ WriteRefused(t) \/ WriteUnanswered(t) \/ Cleanup(t)
    \/ \E p \in Execs : OpenTmp(p) \/ FillTmp(p) \/ MoveTmp(p) \/ CommandStops(p)

Spec == Init /\ [][Next]_vars

-------------------------------------------------------------------------------
(* Properties.  The first is checked as the code states it, with Overlap;  *)
(* all hold without: then each tool call runs by itself, and a repeated    *)
(* execution starts once the one before it has ended, but executions are   *)
(* still lost, repeated, cut, and applied after the tool has given up.     *)

\* ssh.py, _write_authorized_keys: "Atomically replace `authorized_keys` ...
\* (single rename, no torn writes)".  The file always holds what it started
\* with or the whole contents some task sent: never a part, never a mixture.
NoTornWrites ==
    File = initial \/ \E t \in Tasks : step[<<t, 1>>] # "none" /\ File = payload[t]

\* A line disappears only because a remove names it, or because it is a
\* comment; an unreadable file, a lost answer or a repeated write loses none.
LinesKept ==
    [][\A l \in Lines \ Comments : In(l, File) /\ ~In(l, File') =>
         \E t \in Tasks : pc[t] # "new" /\ op[t] = [tool |-> "remove", key |-> l]]_vars

\* The lines that stay keep their order, and their number of copies: a write
\* that is executed twice adds nothing twice.
OrderKept ==
    [][Keep(Split(File'), Range(File)) = Keep(Split(File), Range(File'))]_vars

\* A tool that reports success is right about the file at that moment: the
\* key is there after an add, and gone, in all its copies, after a remove.
SuccessIsTrue ==
    [][\A t \in Tasks :
         pc[t] \in {"read", "write"} /\ result'[t] \in {"ok", "unchanged"} /\ readable =>
           (In(op[t].key, File') <=> op[t].tool = "add")]_vars

\* An execution of t's command has replaced the file.
Applied(t) == \E k \in {1, 2} : step[<<t, k>>] = "ok"

Abstract == INSTANCE KeyFile WITH
                file    <- File,
                applied <- {t \in Tasks : Applied(t)},
                answer  <- result

\* All that KeyFile promises: a call changes the file at one moment and at most
\* once, though run() executes its command up to twice, and what it answers is true
\* of the file.
ImplementsKeyFile == Abstract!Spec
===============================================================================
