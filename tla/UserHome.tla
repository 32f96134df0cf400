------------------------------- MODULE UserHome -------------------------------
(***************************************************************************)
(* user_home_enable and user_home_disable of user_home.py.  Three places   *)
(* on the NAS say whether User Home is on: the web API's flag, the key     *)
(* userHomeEnable of /etc/synoinfo.conf, and the link /var/services/homes. *)
(* The tools read and write them one remote command at a time, other tool  *)
(* calls run in between, and every command may fail.  An SSH probe that    *)
(* fails reads as "off"; a change that fails may have been made, and a     *)
(* link command that was given up on may still run.                        *)
(*                                                                         *)
(* External: the three places and what DSM does to them.  DSM 7.3 ignores  *)
(* set enable=true while synoinfo does not say yes; set enable=false may   *)
(* clear the two other places as well.                                     *)
(***************************************************************************)
EXTENDS Naturals

CONSTANTS
    Tasks,           \* tool calls
    Volumes,         \* volumes the homes share may be on
    Users,           \* users who may have a non-empty authorized_keys
    Visible,         \* the users whose file the enumeration's glob matches
    None             \* no link

ASSUME VisibleAssumption == Visible \subseteq Users
ASSUME NoneAssumption == None \notin Volumes

VARIABLES
    web,             \* the flag SYNO.Core.User.Home get reports
    synoinfo,        \* userHomeEnable=yes
    link,            \* the volume /var/services/homes leads to, or None
    late,            \* late[t]: where the link commands t gave up on, and that may run, lead
    keys,            \* the users with keys, reachable through the link
    pc,              \* pc[t]: "new", the command t awaits, or "done"
    op,              \* op[t]: the call t makes
    seen,            \* seen[t]: the tri-check's answers so far were all "on"
    previous,        \* previous[t]: previous_symlink
    target,          \* target[t]: the volume picked
    result,          \* result[t]: how the call ended
    start,           \* history: start[t], flag and link when t began
    alone,           \* history: no other call overlapped t
    steady,          \* history: the users who had keys ever since t began
    unanswered       \* history: t's enumeration ended without an answer

places == <<web, synoinfo, link, late>>
call   == <<op, seen, previous, target>>
ghosts == <<start, alone, steady, unanswered>>
vars   == <<places, keys, pc, call, result, ghosts>>

Ops == [tool : {"enable"}, user : BOOLEAN] \cup [tool : {"disable"}, confirm : BOOLEAN]

Targets == Volumes \cup {None}

\* The read probes of both tools, the steps of the enable, the disable's two.
Places == {"new", "get", "synoinfo", "homes", "previous", "volume", "step1", "step2",
           "step3", "step4", "restore", "find", "off", "done"}

Results == {"none", "ok", "partial", "already", "refused", "failed", "rolled_back",
            "not_rolled_back", "error"}

TypeOK ==
    /\ web \in BOOLEAN /\ synoinfo \in BOOLEAN /\ link \in Targets
    /\ late     \in [Tasks -> SUBSET Volumes]
    /\ keys     \in SUBSET Users
    /\ pc       \in [Tasks -> Places]
    /\ op       \in [Tasks -> Ops]
    /\ seen     \in [Tasks -> BOOLEAN]
    /\ previous \in [Tasks -> Targets]
    /\ target   \in [Tasks -> Targets]
    /\ result   \in [Tasks -> Results]
    /\ start    \in [Tasks -> [web : BOOLEAN, link : Targets]]
    /\ alone    \in [Tasks -> BOOLEAN]
    /\ steady   \in [Tasks -> SUBSET Users]
    /\ unanswered \in [Tasks -> BOOLEAN]
    \* Tools only ever link to a volume they picked or found.
    /\ \A t \in Tasks : pc[t] \in {"step2", "step3", "step4"} => target[t] # None

Init ==
    /\ web \in BOOLEAN /\ synoinfo \in BOOLEAN /\ link \in Targets
    /\ late     = [t \in Tasks |-> {}]
    /\ keys     \in SUBSET Users
    /\ pc       = [t \in Tasks |-> "new"]
    /\ op       \in [Tasks -> Ops]
    /\ seen     = [t \in Tasks |-> TRUE]
    /\ previous = [t \in Tasks |-> None]
    /\ target   = [t \in Tasks |-> None]
    /\ result   = [t \in Tasks |-> "none"]
    /\ start    = [t \in Tasks |-> [web |-> web, link |-> link]]
    /\ alone    = [t \in Tasks |-> TRUE]
    /\ steady   = [t \in Tasks |-> {}]
    /\ unanswered = [t \in Tasks |-> FALSE]

-------------------------------------------------------------------------------

Goto(t, next) == pc' = [pc EXCEPT ![t] = next] /\ UNCHANGED result

Return(t, how) ==
    /\ pc' = [pc EXCEPT ![t] = "done"]
    /\ result' = [result EXCEPT ![t] = how]

Running(t) == pc[t] \notin {"new", "done"}

Begin(t) ==
    /\ pc[t] = "new"
    /\ Goto(t, "get")
    /\ start'  = [start EXCEPT ![t] = [web |-> web, link |-> link]]
    /\ steady' = [steady EXCEPT ![t] = keys]
    /\ alone'  = [u \in Tasks |-> IF u = t THEN ~\E v \in Tasks : Running(v)
                                  ELSE alone[u] /\ ~Running(u)]
    /\ UNCHANGED <<places, keys, call, unanswered>>

\* A read raises out of the tool: the web API failed, or the client was closed
\* under the call, or the disable's enumeration had no answer at all.
Raises(t) ==
    /\ pc[t] \in {"get", "synoinfo", "homes", "previous", "volume", "find"}
    /\ Return(t, "error")
    /\ UNCHANGED <<places, keys, call, ghosts>>

-------------------------------------------------------------------------------
(* user_home_is_enabled, which both tools begin with                       *)

See(t, says) == seen' = [seen EXCEPT ![t] = @ /\ says]

GetAnswered(t) ==
    /\ pc[t] = "get"
    /\ See(t, web)
    /\ Goto(t, "synoinfo")
    /\ UNCHANGED <<places, keys, op, previous, target, ghosts>>

\* _read_synoinfo_user_home: FALSE when synogetkeyvalue and grep both fail.
ReadSynoinfo(t) ==
    /\ pc[t] = "synoinfo"
    /\ \E says \in {synoinfo, FALSE} : See(t, says)
    /\ Goto(t, "homes")
    /\ UNCHANGED <<places, keys, op, previous, target, ghosts>>

\* user_home_disable, when the tri-check says that User Home is off.
AlreadyOff(t) == ~seen'[t] /\ Return(t, "already")

\* _read_homes_symlink ends the tri-check: enabled when all three agree.
ReadHomes(t) ==
    /\ pc[t] = "homes"
    /\ \E says \in {link, None} : See(t, says # None)
    /\ \/ op[t].tool = "enable"  /\ Goto(t, "previous")
       \/ op[t].tool = "disable" /\ seen'[t]  /\ Goto(t, "find")
       \/ op[t].tool = "disable" /\ AlreadyOff(t)
    /\ UNCHANGED <<places, keys, op, previous, target, ghosts>>

-------------------------------------------------------------------------------
(* user_home_enable                                                        *)

\* _readlink_raw: None when the link is missing, or the command fails.
ReadPrevious(t) ==
    /\ pc[t] = "previous"
    /\ \E says \in {link, None} : previous' = [previous EXCEPT ![t] = says]
    /\ Goto(t, "volume")
    /\ UNCHANGED <<places, keys, op, seen, target, ghosts>>

\* Steps 1 to 3 are over, or skipped: step 4 prepares a user's folder.
Prepare(t) == IF op[t].user THEN Goto(t, "step4") ELSE Return(t, "ok")

\* Mutant of PickVolume: no volume is picked when the probe finds none.
PickVolumeOrNone(t) ==
    /\ pc[t] = "volume"
    /\ \E v \in Targets : target' = [target EXCEPT ![t] = v]
    /\ IF seen[t] THEN Prepare(t) ELSE Goto(t, "step1")
    /\ UNCHANGED <<places, keys, op, seen, previous, ghosts>>

\* _pick_volume_for_homes: configured, found, or /volume1 when the probe fails.
PickVolume(t) ==
    /\ pc[t] = "volume"
    /\ \E v \in Volumes : target' = [target EXCEPT ![t] = v]
    /\ IF seen[t] THEN Prepare(t) ELSE Goto(t, "step1")
    /\ UNCHANGED <<places, keys, op, seen, previous, ghosts>>

\* Mutant of WriteSynoinfo: the exit status is not looked at.
WriteSynoinfoUnchecked(t) ==
    /\ pc[t] = "step1"
    /\ synoinfo' \in {synoinfo, TRUE}
    /\ Goto(t, "step2")
    /\ UNCHANGED <<web, link, late, keys, call, ghosts>>

\* Step 1.  A failure is reported, an exception of another kind escapes.
WriteSynoinfo(t) ==
    /\ pc[t] = "step1"
    /\ \/ synoinfo' = TRUE /\ Goto(t, "step2")
       \/ synoinfo' \in {synoinfo, TRUE} /\ Return(t, "failed")
       \/ synoinfo' \in {synoinfo, TRUE} /\ Return(t, "error")
    /\ UNCHANGED <<web, link, late, keys, call, ghosts>>

\* rm -f link && ln -s v link, ended anywhere, or done with its answer lost.
Interrupted(v) == link' \in {link, None, v}

\* An execution of such a command timed out, the first or its retry, and has not ended.
MayGiveUp(t, v) == late' \in {late, [late EXCEPT ![t] = @ \cup {v}]}

\* Step 2.  The rollback is for a DSMSshError and a bad exit status; another
\* exception escapes, with no rollback.
Relink(t) ==
    /\ pc[t] = "step2"
    /\ \/ link' = target[t] /\ Goto(t, "step3")
       \/ Interrupted(target[t]) /\ Goto(t, "restore")
       \/ Interrupted(target[t]) /\ Return(t, "error")
    /\ MayGiveUp(t, target[t])
    /\ UNCHANGED <<web, synoinfo, keys, call, ghosts>>

\* Step 3: set enable=true, and every exception leads to the rollback.
SetOn(t) ==
    /\ pc[t] = "step3"
    /\ \/ web' = (web \/ synoinfo) /\ Prepare(t)
       \/ web' \in {web, web \/ synoinfo} /\ Goto(t, "restore")
    /\ UNCHANGED <<synoinfo, link, late, keys, call, ghosts>>

\* Step 4 never fails the tool, but for an exception of another kind.
PrepareFolder(t) ==
    /\ pc[t] = "step4"
    /\ \E how \in {"ok", "partial", "error"} : Return(t, how)
    /\ UNCHANGED <<places, keys, call, ghosts>>

\* Mutant of Restore: back to the volume picked, not to the one before.
RestoreTarget(t) ==
    /\ pc[t] = "restore"
    /\ link' = target[t]
    /\ Return(t, "rolled_back")
    /\ UNCHANGED <<web, synoinfo, late, keys, call, ghosts>>

\* _restore_symlink and the failure envelope, whose data.error says "symlink
\* restored" whichever way this goes.  When step 2 still runs, its ln may come before
\* this one's, which then links inside of the folder, and succeeds.
Restore(t) ==
    /\ pc[t] = "restore"
    /\ \/ /\ previous[t] = None
          /\ Return(t, "not_rolled_back")
          /\ UNCHANGED <<link, late>>
       \/ /\ previous[t] # None
          /\ link' \in {previous[t]} \cup late[t]
          /\ MayGiveUp(t, previous[t])
          /\ Return(t, "rolled_back")
       \/ /\ previous[t] # None
          /\ Interrupted(previous[t])
          /\ MayGiveUp(t, previous[t])
          /\ \E how \in {"not_rolled_back", "error"} : Return(t, how)
    /\ UNCHANGED <<web, synoinfo, keys, call, ghosts>>

-------------------------------------------------------------------------------
(* user_home_disable                                                       *)

\* The gates of user_home_disable: nothing is refused of a call that was confirmed.
Refused(t) == ~op[t].confirm /\ Return(t, "refused")

\* Mutant of FindKeys: as before 2026-05-26, no sudo reads as no keys.
FindKeysSudoLax(t) ==
    /\ pc[t] = "find"
    /\ \/ Goto(t, "off")
       \/ Refused(t)
    /\ UNCHANGED <<places, keys, call, ghosts>>

\* _list_users_with_authorized_keys and the two gates.  find lists the files
\* the glob matched; sudo refuses; or the command ends with a bad status and no
\* word of sudo (-1 on a lost channel), which leaves an empty list.
FindKeys(t) ==
    /\ pc[t] = "find"
    /\ \/ /\ op[t].confirm \/ keys \cap Visible = {}
          /\ Goto(t, "off")
          /\ UNCHANGED unanswered
       \/ Refused(t) /\ UNCHANGED unanswered
       \/ /\ unanswered' = [unanswered EXCEPT ![t] = TRUE]
          /\ Goto(t, "off")
    /\ UNCHANGED <<places, keys, call, start, alone, steady>>

\* set enable=false, then the answer; or a failure, the flag perhaps changed.
SetOff(t) ==
    /\ pc[t] = "off"
    /\ \/ /\ web' = FALSE
          /\ synoinfo' \in {synoinfo, FALSE}
          /\ link' \in {link, None}
          /\ \E how \in {"ok", "error"} : Return(t, how)
       \/ Return(t, "error") /\ UNCHANGED <<web, synoinfo, link>>
    /\ UNCHANGED <<late, keys, call, ghosts>>

-------------------------------------------------------------------------------

\* A link command that t has given up on runs: it removes the link, or makes it, and
\* ends or has been sent a second time.  For other calls it is somebody who acts.
RunLate(t) ==
    \E v \in late[t] :
      /\ \/ link' \in {None, v} /\ UNCHANGED late
         \/ link' = v /\ late' = [late EXCEPT ![t] = @ \ {v}]
      /\ alone' = [u \in Tasks |-> alone[u] /\ (u = t \/ ~Running(u))]
      /\ UNCHANGED <<web, synoinfo, keys, pc, call, result, start, steady, unanswered>>

\* The key tools, and users, while somebody looks: a file becomes non-empty,
\* or empty.
KeyChange(u) ==
    /\ keys' \in {keys \cup {u}, keys \ {u}}
    /\ keys' # keys
    /\ steady' = [t \in Tasks |-> steady[t] \cap keys']
    /\ UNCHANGED <<places, pc, call, result, start, alone, unanswered>>

Next ==
    \/ \E t \in Tasks :
         \/ Begin(t) \/ Raises(t) \/ GetAnswered(t) \/ ReadSynoinfo(t) \/ ReadHomes(t)
         \/ ReadPrevious(t) \/ PickVolume(t) \/ WriteSynoinfo(t) \/ Relink(t) \/ SetOn(t)
         \/ PrepareFolder(t) \/ Restore(t) \/ FindKeys(t) \/ SetOff(t)
         \/ RunLate(t)
    \/ \E u \in Users : KeyChange(u)

Spec == Init /\ [][Next]_vars

-------------------------------------------------------------------------------
(* Properties                                                              *)

Returns(t, hows) == pc[t] # "done" /\ pc'[t] = "done" /\ result'[t] \in hows

\* user_home_enable's promise: when it reports success, step 4 aside, no other
\* call overlapped it (alone) and no link command of its own still runs (late),
\* User Home is on in all three places, although DSM ignores the flag while
\* synoinfo says no, a probe may have lied, and a link command may have run late.
EnableMeansOn ==
    [][\A t \in Tasks :
         op[t].tool = "enable" /\ alone[t] /\ late'[t] = {} /\ Returns(t, {"ok", "partial"}) =>
           web' /\ synoinfo' /\ link' # None]_vars

\* A rollback that reports success puts the link back where it was when the call
\* began, wherever the step before stopped, and also when its command ran late, as
\* long as no other call overlapped this one (alone) and no command of step 2 still
\* runs beside the rollback (late): one that does may have the last word.
RollbackRestores ==
    [][\A t \in Tasks :
         alone[t] /\ late[t] = {} /\ Returns(t, {"rolled_back"}) => link' = start[t].link]_vars

\* The order of the steps: an enable that found the flag off does not turn it
\* on, not even for the time of the call, before the two other places are on, as
\* long as no other call overlaps it and no link command of its own runs late.
FlagLast ==
    \A t \in Tasks :
      op[t].tool = "enable" /\ alone[t] /\ late[t] = {} /\ Running(t) /\ ~start[t].web =>
        (web => synoinfo /\ link # None)

\* The safety rail of user_home_disable: a call that was not confirmed turns
\* User Home off only when nobody it could have seen kept keys throughout, or
\* when its enumeration ended without an answer.
RailHolds ==
    [][\A t \in Tasks :
         pc[t] = "off" /\ pc'[t] = "done" /\ web /\ ~web' =>
           op[t].confirm \/ unanswered[t] \/ steady[t] \cap Visible = {}]_vars
===============================================================================
