-------------------------------- MODULE KeyFile --------------------------------
(***************************************************************************)
(* What ssh_add_authorized_key and ssh_remove_authorized_key promise their *)
(* callers, without commands, executions or temporary files: a call changes*)
(* the file at one moment and at most once, whatever is lost or repeated on*)
(* the way; "ok" and "unchanged" are said only when the file is as asked   *)
(* for; and a call that ends in an error may have changed the file, may    *)
(* still change it, or never does.                                         *)
(***************************************************************************)
EXTENDS KeyLines

CONSTANT Tasks       \* tool calls

VARIABLES
    file,            \* the lines of authorized_keys
    readable,        \* the login account may read it
    op,              \* op[t]: the tool and its key argument
    applied,         \* the calls that have changed the file
    answer           \* answer[t]: what t returned

vars == <<file, readable, op, applied, answer>>

Init ==
    /\ file \in InitialFiles
    /\ readable \in BOOLEAN
    /\ op \in [Tasks -> [tool : {"add", "remove"}, key : Keys]]
    /\ applied = {}
    /\ answer = [t \in Tasks |-> "none"]

Entries == Keys \cup Garbage

\* The file is as t's caller wants it.
AsAsked(t) == In(op[t].key, file) <=> op[t].tool = "add"

\* An add puts the key after the other entries, a remove takes all its copies
\* away; both drop the comments.
Apply(t) ==
    /\ answer[t] \in {"none", "error"}
    /\ t \notin applied /\ ~ AsAsked(t)
    /\ \/ op[t].tool = "add"    /\ file' = Append(Keep(file, Entries), op[t].key)
       \/ op[t].tool = "remove" /\ file' = Keep(file, Entries \ {op[t].key})
    /\ readable' = TRUE
    /\ applied' = applied \cup {t}
    /\ UNCHANGED <<op, answer>>

\* A call that ends.  What it says of a file it may not read is worth nothing.
Answer(t, how) ==
    /\ answer[t] = "none"
    /\ how = "ok" => t \in applied /\ AsAsked(t)
    /\ how \in {"unchanged", "refused"} => t \notin applied
    /\ how = "unchanged" /\ readable => AsAsked(t)
    /\ answer' = [answer EXCEPT ![t] = how]
    /\ UNCHANGED <<file, readable, op, applied>>

Next == \E t \in Tasks :
    \/ Apply(t)
    \/ \E how \in {"ok", "unchanged", "refused", "error"} : Answer(t, how)

Spec == Init /\ [][Next]_vars
===============================================================================
