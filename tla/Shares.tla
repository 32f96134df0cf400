-------------------------------- MODULE Shares --------------------------------
(***************************************************************************)
(* shares_create and shares_delete of shares.py for one share name.  Each  *)
(* lists the shares, decides, and asks DSM for the change; the delete also *)
(* measures the share's directory over SSH in between.  Other calls, and   *)
(* people who use the share, act between any two of these.                 *)
(*                                                                         *)
(* External: DSM's share table and the directories on the volumes.  DSM    *)
(* refuses to create a share whose name is taken.  It leaves the directory *)
(* of a deleted share where it was, and takes over one it finds.           *)
(***************************************************************************)

CONSTANTS
    Tasks,           \* tool calls
    Volumes,         \* volumes a share may be on
    Flags,           \* encryption and recycle bin, as far as the tools compare them
    None             \* no share

ASSUME NoneAssumption == None \notin [volume : Volumes, flags : Flags]

VARIABLES
    share,           \* the share's configuration, or None
    filled,          \* the volumes where a directory of that name holds data
    pc,              \* pc[t]: "new", the remote call t awaits, or "done"
    op,              \* op[t]: the call t makes
    found,           \* found[t]: the row t found in the list
    result,          \* result[t]: how the call ended
    before,          \* history: before[t], the share when t began
    alone,           \* history: nobody else changed the share while t ran
    kept,            \* history: the share has been as before[t], with data in it,
                     \* ever since t began
    unanswered       \* history: t's probe had no answer

ghosts == <<before, alone, kept, unanswered>>
vars   == <<share, filled, pc, op, found, result, ghosts>>

Configs == [volume : Volumes, flags : Flags]
Ops == [tool : {"create"}, config : Configs] \cup [tool : {"delete"}, force : BOOLEAN]

TypeOK ==
    /\ share  \in Configs \cup {None}
    /\ filled \in SUBSET Volumes
    /\ pc     \in [Tasks -> {"new", "list", "probe", "create", "delete", "done"}]
    /\ op     \in [Tasks -> Ops]
    /\ found  \in [Tasks -> Configs \cup {None}]
    /\ result \in [Tasks -> {"none", "exists", "different", "created", "not_found",
                             "not_empty", "deleted", "error"}]
    /\ before \in [Tasks -> Configs \cup {None}]
    /\ alone  \in [Tasks -> BOOLEAN]
    /\ kept   \in [Tasks -> BOOLEAN]
    /\ unanswered \in [Tasks -> BOOLEAN]
    \* what the probe measures, and the delete names, has been found
    /\ \A t \in Tasks : pc[t] \in {"probe", "delete"} => found[t] # None

\* The share holds data.
Full == share # None /\ share.volume \in filled

Init ==
    /\ share  \in Configs \cup {None}
    /\ filled \in SUBSET Volumes
    /\ pc     = [t \in Tasks |-> "new"]
    /\ op     \in [Tasks -> Ops]
    /\ found  = [t \in Tasks |-> None]
    /\ result = [t \in Tasks |-> "none"]
    /\ before = [t \in Tasks |-> None]
    /\ alone  = [t \in Tasks |-> TRUE]
    /\ kept   = [t \in Tasks |-> FALSE]
    /\ unanswered = [t \in Tasks |-> FALSE]

-------------------------------------------------------------------------------

Goto(t, next) == pc' = [pc EXCEPT ![t] = next] /\ UNCHANGED result

Return(t, how) ==
    /\ pc' = [pc EXCEPT ![t] = "done"]
    /\ result' = [result EXCEPT ![t] = how]

\* What a change of the share does to the histories of all but those who made it.
Disturbs(who) ==
    /\ alone' = [u \in Tasks |-> alone[u] /\ u \in who]
    /\ kept'  = [u \in Tasks |-> kept[u] /\ Full' /\ share' = share]
    /\ UNCHANGED <<before, unanswered>>

Begin(t) ==
    /\ pc[t] = "new"
    /\ Goto(t, "list")
    /\ before' = [before EXCEPT ![t] = share]
    /\ alone'  = [alone EXCEPT ![t] = TRUE]
    /\ kept'   = [kept EXCEPT ![t] = Full]
    /\ UNCHANGED <<share, filled, op, found, unanswered>>

\* A create of a reserved name, or with parameters that are not valid, ends
\* before it has looked at anything.
Refuse(t) ==
    /\ pc[t] = "new"
    /\ op[t].tool = "create"
    /\ Return(t, "error")
    /\ UNCHANGED <<share, filled, op, found, ghosts>>

\* Mutant of CreateListed: a share of that name will do.
CreateListedByName(t) ==
    /\ pc[t] = "list"
    /\ op[t].tool = "create"
    /\ found' = [found EXCEPT ![t] = share]
    /\ IF share = None THEN Goto(t, "create") ELSE Return(t, "exists")
    /\ UNCHANGED <<share, filled, op, ghosts>>

\* shares_create: what is there already is compared with what is asked for.
CreateListed(t) ==
    /\ pc[t] = "list"
    /\ op[t].tool = "create"
    /\ found' = [found EXCEPT ![t] = share]
    /\ \/ share = None /\ Goto(t, "create")
       \/ share = op[t].config /\ Return(t, "exists")
       \/ share \notin {None, op[t].config} /\ Return(t, "different")
    /\ UNCHANGED <<share, filled, op, ghosts>>

\* Mutant of DeleteListed: it does not mind a list without the share.
DeleteListedUnfound(t) ==
    /\ pc[t] = "list"
    /\ op[t].tool = "delete"
    /\ found' = [found EXCEPT ![t] = share]
    /\ Goto(t, IF op[t].force THEN "delete" ELSE "probe")
    /\ UNCHANGED <<share, filled, op, ghosts>>

\* shares_delete: the safety rail comes next, unless the delete is forced.
DeleteListed(t) ==
    /\ pc[t] = "list"
    /\ op[t].tool = "delete"
    /\ found' = [found EXCEPT ![t] = share]
    /\ \/ share = None /\ Return(t, "not_found")
       \/ share # None /\ Goto(t, IF op[t].force THEN "delete" ELSE "probe")
    /\ UNCHANGED <<share, filled, op, ghosts>>

\* Mutant of ProbeAnswered: one volume is measured, not the share's.
ProbeAnsweredElsewhere(t) ==
    /\ pc[t] = "probe"
    /\ \E v \in Volumes : IF v \in filled THEN Return(t, "not_empty") ELSE Goto(t, "delete")
    /\ UNCHANGED <<share, filled, op, found, ghosts>>

\* _share_directory_size_bytes: the size of the directory on the volume found.
\* A directory with data has a size above 0.  One without may have one, too (its
\* own blocks on ext4, files du counts); or none, or not be there.
ProbeAnswered(t) ==
    /\ pc[t] = "probe"
    /\ \/ Return(t, "not_empty")
       \/ found[t].volume \notin filled /\ Goto(t, "delete")
    /\ UNCHANGED <<share, filled, op, found, ghosts>>

\* No sudo, no channel, no volume in the row: no output, which reads as "the
\* path doesn't exist", and the delete goes on.
ProbeFails(t) ==
    /\ pc[t] = "probe"
    /\ Goto(t, "delete")
    /\ unanswered' = [unanswered EXCEPT ![t] = TRUE]
    /\ UNCHANGED <<share, filled, op, found, before, alone, kept>>

\* DSM creates the share; the answer arrives, or is lost.
Created(t) ==
    /\ pc[t] = "create"
    /\ share = None
    /\ share' = op[t].config
    /\ \E how \in {"created", "error"} : Return(t, how)
    /\ UNCHANGED <<filled, op, found>>
    /\ Disturbs({t})

\* DSM deletes what has that name now.
Deleted(t) ==
    /\ pc[t] = "delete"
    /\ share # None
    /\ share' = None
    /\ \E how \in {"deleted", "error"} : Return(t, how)
    /\ UNCHANGED <<filled, op, found>>
    /\ Disturbs({t})

\* An HTTP call fails, or the client was closed under the probe.
Raises(t) ==
    /\ pc[t] \in {"list", "probe", "create", "delete"}
    /\ Return(t, "error")
    /\ UNCHANGED <<share, filled, op, found, ghosts>>

-------------------------------------------------------------------------------

\* People write to the share, empty it, or work on a volume over SSH.
FilesChange ==
    /\ filled' \in SUBSET Volumes
    /\ filled' # filled
    /\ UNCHANGED <<share, pc, op, found, result, before, alone, unanswered>>
    /\ kept' = [t \in Tasks |-> kept[t] /\ Full']

\* The share is created, deleted or replaced in DSM's own interface.
ControlPanel ==
    /\ share' \in Configs \cup {None}
    /\ share' # share
    /\ UNCHANGED <<filled, pc, op, found, result>>
    /\ Disturbs({})

Next ==
    \/ \E t \in Tasks :
         \/ Begin(t) \/ Refuse(t) \/ CreateListed(t) \/ DeleteListed(t)
         \/ ProbeAnswered(t) \/ ProbeFails(t) \/ Created(t) \/ Deleted(t) \/ Raises(t)
    \/ FilesChange
    \/ ControlPanel

Spec == Init /\ [][Next]_vars

-------------------------------------------------------------------------------
(* Properties                                                              *)

\* The safety rail of shares_delete, under any interleaving: a delete that is
\* not forced never takes away a share that has held data, in that place, ever
\* since the call began, unless its probe had no answer.
RailHolds ==
    [][\A t \in Tasks :
         pc[t] = "delete" /\ pc'[t] = "done" /\ share # None /\ share' = None =>
           op[t].force \/ unanswered[t] \/ ~kept[t]]_vars

\* shares_create, when nobody else changed the share meanwhile: a success means
\* the share exists as asked for, and whatever else it answers, a share that was
\* there has not been touched.
CreateKeepsOrMakes ==
    [][\A t \in Tasks :
         op[t].tool = "create" /\ alone[t] /\ pc[t] \notin {"new", "done"} /\ pc'[t] = "done" =>
           /\ result'[t] \in {"created", "exists"} => share' = op[t].config
           /\ before[t] # None => share' = before[t]]_vars
===============================================================================
