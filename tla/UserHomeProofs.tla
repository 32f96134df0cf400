---------------------------- MODULE UserHomeProofs -----------------------------
(***************************************************************************)
(* Proofs about UserHome for any set of calls, volumes and users.          *)
(***************************************************************************)
EXTENDS UserHome, TLAPS

\* One step of one call.
Step(t) ==
    \/ Begin(t) \/ Raises(t) \/ GetAnswered(t) \/ ReadSynoinfo(t) \/ ReadHomes(t)
    \/ ReadPrevious(t) \/ PickVolume(t) \/ WriteSynoinfo(t) \/ Relink(t) \/ SetOn(t)
    \/ PrepareFolder(t) \/ Restore(t) \/ FindKeys(t) \/ SetOff(t)

\* Each tool stays in its own half of the program.
EnableOnly  == {"previous", "volume", "step1", "step2", "step3", "step4", "restore"}
DisableOnly == {"find", "off"}

\* Where no link command has been given up on yet.
Early == {"new", "get", "synoinfo", "homes", "previous", "volume", "step1", "step2", "find", "off"}

RightTool(t) ==
    /\ pc[t] \in EnableOnly  => op[t].tool = "enable"
    /\ pc[t] \in DisableOnly => op[t].tool = "disable"
    /\ pc[t] \in {"step1", "restore"} => target[t] # None
    /\ pc[t] \in Early => late[t] = {}

Typed == TypeOK /\ \A t \in Tasks : RightTool(t)

\* The start: nothing called yet.
LEMMA InitTyped == Init => Typed
  BY DEF Init, Typed, TypeOK, RightTool, EnableOnly, DisableOnly, Targets, Places, Results

\* The next-state relation is a step of a call, a late link command, or a change of
\* somebody's keys.
LEMMA NextSteps ==
  Next <=> \/ \E t \in Tasks : Step(t)
           \/ \E t \in Tasks : RunLate(t)
           \/ \E u \in Users : KeyChange(u)
  BY DEF Next, Step

\* A call may be at p: the tool and the volume picked allow it.
Allowed(t, p) ==
    /\ p \in EnableOnly  => op[t].tool = "enable"
    /\ p \in DisableOnly => op[t].tool = "disable"
    /\ p \in {"step1", "step2", "step3", "step4", "restore"} => target'[t] # None
    /\ p \in Early => late'[t] = {}

\* A call goes on to a place it may be at, or returns.
Moves(t) ==
    \/ \E p \in Places : Allowed(t, p) /\ Goto(t, p)
    \/ \E r \in Results : Return(t, r)

\* A call changes its own locals and the places on the NAS, within their types.
Local(t) ==
    /\ web' \in BOOLEAN /\ synoinfo' \in BOOLEAN /\ link' \in Targets
    /\ seen' \in [Tasks -> BOOLEAN] /\ unanswered' \in [Tasks -> BOOLEAN]
    /\ previous' \in [Tasks -> Targets] /\ target' \in [Tasks -> Targets]
    /\ late' \in [Tasks -> SUBSET Volumes]
    /\ \A u \in Tasks : u # t => target'[u] = target[u] /\ late'[u] = late[u]
    /\ UNCHANGED <<keys, op, start, alone, steady>>

LEMMA MoveTyped ==
  ASSUME Typed, NEW t \in Tasks, Moves(t), Local(t)
  PROVE  Typed'
<1>1. PICK p \in Places : /\ pc' = [pc EXCEPT ![t] = p]
                          /\ Allowed(t, p)
  BY Zenon DEF Moves, Goto, Return, Places, Allowed, EnableOnly, DisableOnly, Early
<1>2. result' \in [Tasks -> Results] /\ pc' \in [Tasks -> Places]
  BY <1>1 DEF Moves, Goto, Return, Typed, TypeOK
<1>3. pc'[t] = p /\ \A u \in Tasks : u # t => pc'[u] = pc[u]
  BY <1>1 DEF Typed, TypeOK
<1>4. \A u \in Tasks : RightTool(u)'
  BY <1>1, <1>3 DEF Local, Allowed, Typed, RightTool
<1>5. \A u \in Tasks : pc'[u] \in {"step2", "step3", "step4"} => target'[u] # None
  BY <1>1, <1>3 DEF Local, Allowed, Typed, TypeOK
<1> QED
  BY <1>2, <1>4, <1>5 DEF Local, Typed, TypeOK

\* A link command that is given up on is one of the call's.
LEMMA GivenUp ==
  ASSUME TypeOK, NEW t \in Tasks, NEW v \in Volumes, MayGiveUp(t, v)
  PROVE  late' \in [Tasks -> SUBSET Volumes] /\ \A u \in Tasks : u # t => late'[u] = late[u]
  BY DEF TypeOK, MayGiveUp

\* No step of a call but Begin touches more than its own locals and the NAS.
LEMMA StepLocal ==
  ASSUME Typed, NEW t \in Tasks, Step(t), ~Begin(t)
  PROVE  Local(t)
<1> USE DEF Typed, TypeOK, Local, Targets, places, call, ghosts
<1>2. CASE Raises(t)
  BY <1>2 DEF Raises
<1>3. CASE GetAnswered(t)
  BY <1>3 DEF GetAnswered, See
<1>4. CASE ReadSynoinfo(t)
  BY <1>4 DEF ReadSynoinfo, See
<1>5. CASE ReadHomes(t)
  BY <1>5 DEF ReadHomes, See, AlreadyOff
<1>6. CASE ReadPrevious(t)
  BY <1>6 DEF ReadPrevious
<1>7. CASE PickVolume(t)
  BY <1>7 DEF PickVolume
<1>8. CASE WriteSynoinfo(t)
  BY <1>8 DEF WriteSynoinfo
<1>9. CASE Relink(t)
  <2>1. target[t] \in Volumes
    BY <1>9 DEF Relink
  <2>2. late' \in [Tasks -> SUBSET Volumes] /\ \A u \in Tasks : u # t => late'[u] = late[u]
    BY <1>9, <2>1, GivenUp DEF Relink
  <2> QED
    BY <1>9, <2>2 DEF Relink, Interrupted
<1>10. CASE SetOn(t)
  BY <1>10 DEF SetOn
<1>11. CASE PrepareFolder(t)
  BY <1>11 DEF PrepareFolder
<1>12. CASE Restore(t)
  <2>1. late' \in [Tasks -> SUBSET Volumes] /\ \A u \in Tasks : u # t => late'[u] = late[u]
    BY <1>12, GivenUp DEF Restore
  <2>2. link' \in Targets
    BY <1>12 DEF Restore, Interrupted
  <2> QED
    BY <1>12, <2>1, <2>2 DEF Restore
<1>13. CASE FindKeys(t)
  BY <1>13 DEF FindKeys, Refused
<1>14. CASE SetOff(t)
  BY <1>14 DEF SetOff
<1> QED
  BY <1>2, <1>3, <1>4, <1>5, <1>6, <1>7, <1>8, <1>9, <1>10, <1>11, <1>12, <1>13, <1>14
     DEF Step

\* Where the steps of a call lead.
LEMMA StepMoves ==
  ASSUME Typed, NEW t \in Tasks, Step(t), ~Begin(t)
  PROVE  Moves(t)
<1>1. /\ pc[t] \in EnableOnly  => op[t].tool = "enable"
      /\ pc[t] \in DisableOnly => op[t].tool = "disable"
      /\ pc[t] \in {"step1", "step2", "step3", "step4", "restore"} => target[t] # None
      /\ pc[t] \in Early => late[t] = {}
      /\ target \in [Tasks -> Targets]
  BY DEF Typed, TypeOK, RightTool
<1> USE <1>1 DEF Moves, Allowed, EnableOnly, DisableOnly, Early, Places, Results, places, call
<1>2. CASE Raises(t)
  BY <1>2 DEF Raises
<1>3. CASE GetAnswered(t)
  BY <1>3 DEF GetAnswered
<1>4. CASE ReadSynoinfo(t)
  BY <1>4 DEF ReadSynoinfo
<1>5. CASE ReadHomes(t)
  BY <1>5 DEF ReadHomes, AlreadyOff
<1>6. CASE ReadPrevious(t)
  BY <1>6 DEF ReadPrevious
<1>7. CASE PickVolume(t)
  BY <1>7, NoneAssumption DEF PickVolume, Prepare
<1>8. CASE WriteSynoinfo(t)
  BY <1>8 DEF WriteSynoinfo
<1>9. CASE Relink(t)
  BY <1>9 DEF Relink
<1>10. CASE SetOn(t)
  BY <1>10 DEF SetOn, Prepare
<1>11. CASE PrepareFolder(t)
  BY <1>11 DEF PrepareFolder
<1>12. CASE Restore(t)
  BY <1>12 DEF Restore
<1>13. CASE FindKeys(t)
  BY <1>13 DEF FindKeys, Refused
<1>14. CASE SetOff(t)
  BY <1>14 DEF SetOff
<1> QED
  BY <1>2, <1>3, <1>4, <1>5, <1>6, <1>7, <1>8, <1>9, <1>10, <1>11, <1>12, <1>13, <1>14
     DEF Step

\* Every step of a call preserves the types.
LEMMA StepTyped ==
  ASSUME Typed, NEW t \in Tasks, Step(t)
  PROVE  Typed'
<1>1. CASE Begin(t)
  BY <1>1 DEF Begin, Goto, Typed, TypeOK, RightTool, EnableOnly, DisableOnly, Early,
              Places, Running, places, call
<1>2. CASE ~Begin(t)
  BY <1>2, StepLocal, StepMoves, MoveTyped
<1> QED
  BY <1>1, <1>2

\* A change of keys touches no call.
LEMMA KeyChangeTyped ==
  ASSUME Typed, NEW u \in Users, KeyChange(u)
  PROVE  Typed'
  BY DEF KeyChange, Typed, TypeOK, RightTool, EnableOnly, DisableOnly, places, call

\* Nor does a late link command.
LEMMA RunLateTyped ==
  ASSUME Typed, NEW t \in Tasks, RunLate(t)
  PROVE  Typed'
<1>1. PICK v \in late[t] : /\ link' \in {None, v}
                           /\ late' \in {late, [late EXCEPT ![t] = @ \ {v}]}
  BY DEF RunLate
<1>2. /\ UNCHANGED <<web, synoinfo, keys, pc, op, seen, previous, target, result, start, steady,
                     unanswered>>
      /\ alone' \in [Tasks -> BOOLEAN]
  BY DEF RunLate, call, Typed, TypeOK, Running
<1>3. late' \in [Tasks -> SUBSET Volumes] /\ \A u \in Tasks : late[u] = {} => late'[u] = {}
  BY <1>1 DEF Typed, TypeOK
<1>4. link' \in Targets
  BY <1>1 DEF Typed, TypeOK, Targets
<1> QED
  BY <1>2, <1>3, <1>4 DEF Typed, TypeOK, RightTool

\* The types, with what makes them inductive.
LEMMA TypedAlways == Spec => []Typed
<1>1. Typed /\ [Next]_vars => Typed'
  <2> SUFFICES ASSUME Typed, [Next]_vars PROVE Typed'
    OBVIOUS
  <2>1. CASE UNCHANGED vars
    BY <2>1 DEF vars, places, call, ghosts, Typed, TypeOK, RightTool,
                EnableOnly, DisableOnly
  <2> QED
    BY <2>1, NextSteps, StepTyped, RunLateTyped, KeyChangeTyped
<1> QED
  BY InitTyped, <1>1, PTL DEF Spec

\* In every reachable state the variables have their types, and no call links
\* /var/services/homes to a volume it has not picked.
THEOREM TypeCorrect == Spec => []TypeOK
<1>1. Typed => TypeOK
  BY DEF Typed
<1> QED
  BY <1>1, TypedAlways, PTL

-------------------------------------------------------------------------------
(* What a call that nobody overlapped knows at each of its steps           *)

\* Alone means alone.
AloneIsAlone ==
    \A t, u \in Tasks : alone[t] /\ Running(t) /\ Running(u) => t = u

\* The tri-check read "on" only where it is on.
SeenIsOn(t) ==
    seen[t] =>
      /\ pc[t] \in {"synoinfo", "homes", "previous", "volume"} => web
      /\ pc[t] \in {"homes", "previous", "volume"} => synoinfo
      /\ pc[t] \in {"previous", "volume"} => link # None

\* What the steps of the enable have established.
StepsDone(t) ==
    /\ pc[t] \in {"step2", "step3", "step4"} => synoinfo
    /\ pc[t] \in {"step3", "step4"} /\ late[t] = {} => link # None
    /\ pc[t] = "step4" => web
    /\ pc[t] = "restore" /\ web =>
         start[t].web \/ (synoinfo /\ (late[t] = {} => link # None))

\* Nothing has moved before the step that moves it.
Unmoved(t) ==
    /\ pc[t] \in {"get", "synoinfo", "homes", "previous", "volume", "step1", "step2",
                  "step3"} => web = start[t].web
    /\ pc[t] \in {"get", "synoinfo", "homes", "previous", "volume", "step1", "step2"}
         => link = start[t].link
    /\ pc[t] \in {"volume", "step1", "step2", "step3", "restore"}
         => previous[t] \in {None, start[t].link}

Knows(t) == op[t].tool = "enable" /\ alone[t] /\ Running(t)
              => SeenIsOn(t) /\ StepsDone(t) /\ Unmoved(t)

\* The inductive invariant behind the properties of user_home_enable.
IInv == Typed /\ AloneIsAlone /\ \A t \in Tasks : Knows(t)

\* A step other than Begin is a step of a running call, and moves no other.
LEMMA StepOfRunning ==
  ASSUME Typed, NEW t \in Tasks, Step(t), ~Begin(t)
  PROVE  /\ Running(t)
         /\ alone' = alone /\ op' = op /\ start' = start
         /\ \A u \in Tasks : u # t => pc'[u] = pc[u]
<1>1. Running(t)
  BY DEF Step, Running, Raises, GetAnswered, ReadSynoinfo, ReadHomes, ReadPrevious,
         PickVolume, WriteSynoinfo, Relink, SetOn, PrepareFolder, Restore, FindKeys, SetOff
<1>2. \A u \in Tasks : u # t => pc'[u] = pc[u]
  BY StepMoves DEF Moves, Goto, Return, Typed, TypeOK
<1> QED
  BY <1>1, <1>2, StepLocal
     DEF Local, Step, Raises, GetAnswered, ReadSynoinfo, ReadHomes, ReadPrevious,
         PickVolume, WriteSynoinfo, Relink, SetOn, PrepareFolder, Restore, FindKeys,
         SetOff, Refused, ghosts

\* A call that begins finds out who runs, and spoils their solitude.
LEMMA BeginAlone ==
  ASSUME Typed, NEW t \in Tasks, Begin(t)
  PROVE  /\ \A u \in Tasks : u # t => pc'[u] = pc[u] /\ (alone'[u] <=> alone[u] /\ ~Running(u))
         /\ pc'[t] = "get" /\ ~Running(t)
         /\ alone'[t] <=> ~\E v \in Tasks : Running(v)
  BY DEF Begin, Goto, Typed, TypeOK, Running

\* Alone stays alone.
LEMMA StepAlone ==
  ASSUME Typed, AloneIsAlone, NEW t \in Tasks, Step(t)
  PROVE  AloneIsAlone'
<1>1. CASE Begin(t)
  BY <1>1, BeginAlone DEF AloneIsAlone, Running
<1>2. CASE ~Begin(t)
  BY <1>2, StepOfRunning DEF AloneIsAlone, Running
<1> QED
  BY <1>1, <1>2

\* And a late command spoils the solitude of all but its own call, which knows of it.
LEMMA RunLateKnows ==
  ASSUME IInv, NEW t \in Tasks, RunLate(t)
  PROVE  IInv'
<1>1. /\ UNCHANGED <<web, synoinfo, keys, pc, op, seen, previous, target, result, start>>
      /\ \A u \in Tasks : alone'[u] <=> alone[u] /\ (u = t \/ ~Running(u))
  BY DEF RunLate, call
<1>2. AloneIsAlone'
  BY <1>1 DEF IInv, AloneIsAlone, Running
<1>3. ASSUME NEW u \in Tasks, u # t PROVE Knows(u)'
  BY <1>1, <1>3 DEF Knows, Running
<1>4. Knows(t)'
  <2>1. pc[t] \notin Early /\ late \in [Tasks -> SUBSET Volumes]
    BY DEF RunLate, IInv, Typed, TypeOK, RightTool
  <2>2. late'[t] = {} => link' # None
    BY <2>1, NoneAssumption DEF RunLate
  <2> QED
    BY <1>1, <2>1, <2>2 DEF IInv, Knows, SeenIsOn, StepsDone, Unmoved, Running, Early
<1> QED
  BY <1>2, <1>3, <1>4, RunLateTyped DEF IInv

\* What a call alone knows, no other call can change.
LEMMA OthersKnow ==
  ASSUME IInv, NEW t \in Tasks, Step(t), NEW u \in Tasks, u # t
  PROVE  Knows(u)'
<1> SUFFICES ASSUME alone'[u], Running(u)'
             PROVE  FALSE
  BY DEF Knows
<1>1. CASE Begin(t)
  BY <1>1, BeginAlone DEF IInv, Running
<1>2. CASE ~Begin(t)
  BY <1>2, StepOfRunning DEF IInv, AloneIsAlone, Running
<1> QED
  BY <1>1, <1>2

\* Each step of a call keeps what it knows true, and learns what it says.
LEMMA StepKnows ==
  ASSUME IInv, NEW t \in Tasks, Step(t)
  PROVE  Knows(t)'
<1> SUFFICES ASSUME op'[t].tool = "enable", alone'[t], Running(t)'
             PROVE  (SeenIsOn(t) /\ StepsDone(t) /\ Unmoved(t))'
  BY DEF Knows
<1> USE DEF SeenIsOn, StepsDone, Unmoved
<1>1. CASE Begin(t)
  BY <1>1 DEF Begin, Goto, IInv, Typed, TypeOK, places, call
<1>2. CASE ~Begin(t)
  <2>1. /\ op[t].tool = "enable"
        /\ SeenIsOn(t) /\ StepsDone(t) /\ Unmoved(t)
    BY <1>2, StepOfRunning DEF IInv, Knows
  <2>2. /\ pc \in [Tasks -> Places] /\ seen \in [Tasks -> BOOLEAN]
        /\ previous \in [Tasks -> Targets] /\ target \in [Tasks -> Targets]
        /\ web \in BOOLEAN /\ synoinfo \in BOOLEAN /\ start[t].web \in BOOLEAN
        /\ pc[t] \in DisableOnly => op[t].tool = "disable"
        /\ pc[t] \in {"step1", "step2", "step3", "step4", "restore"} => target[t] # None
        /\ pc[t] \in Early => late[t] = {}
    BY DEF IInv, Typed, TypeOK, RightTool
  <2> USE <2>1, <2>2 DEF Goto, places, call, ghosts
  <2>3. ASSUME NEW how, Return(t, how) PROVE FALSE
    BY <2>3 DEF Return, Running
  <2>4. CASE Raises(t)
    BY <2>3, <2>4 DEF Raises
  <2>5. CASE GetAnswered(t)
    BY <2>5 DEF GetAnswered, See
  <2>6. CASE ReadSynoinfo(t)
    <3>1. PICK says \in {synoinfo, FALSE} : seen' = [seen EXCEPT ![t] = @ /\ says]
      BY <2>6 DEF ReadSynoinfo, See
    <3>2. seen'[t] => seen[t] /\ says
      BY <3>1
    <3>3. says => synoinfo
      BY <3>1
    <3> QED
      BY <2>6, <3>2, <3>3 DEF ReadSynoinfo
  <2>7. CASE ReadHomes(t)
    BY <2>7 DEF ReadHomes, See, AlreadyOff
  <2>8. CASE ReadPrevious(t)
    BY <2>8 DEF ReadPrevious
  <2>9. CASE PickVolume(t)
    BY <2>9, <2>3 DEF PickVolume, Prepare
  <2>10. CASE WriteSynoinfo(t)
    BY <2>10, <2>3 DEF WriteSynoinfo
  <2>11. CASE Relink(t)
    <3>1. CASE link' = target[t] /\ Goto(t, "step3")
      BY <2>11, <3>1 DEF Relink
    <3>2. CASE Goto(t, "restore")
      <4>1. pc[t] = "step2" /\ web' = web /\ start' = start /\ previous' = previous
        BY <2>11 DEF Relink
      <4>2. pc'[t] = "restore"
        BY <3>2
      <4>3. web' => start'[t].web
        BY <4>1
      <4>4. previous'[t] \in {None, start'[t].link}
        BY <4>1
      <4>5. SeenIsOn(t)'
        BY <4>2
      <4>6. StepsDone(t)'
        BY <4>2, <4>3
      <4>7. Unmoved(t)'
        BY <4>2, <4>4
      <4> QED
        BY <4>5, <4>6, <4>7
    <3> QED
      BY <2>11, <2>3, <3>1, <3>2 DEF Relink
  <2>12. CASE SetOn(t)
    BY <2>12, <2>3 DEF SetOn, Prepare
  <2>13. CASE PrepareFolder(t)
    BY <2>13, <2>3 DEF PrepareFolder
  <2>14. CASE Restore(t)
    BY <2>14, <2>3 DEF Restore
  <2>15. CASE FindKeys(t) \/ SetOff(t)
    BY <2>15 DEF FindKeys, SetOff, DisableOnly
  <2> QED
    BY <1>2, <2>4, <2>5, <2>6, <2>7, <2>8, <2>9, <2>10, <2>11, <2>12, <2>13, <2>14,
       <2>15 DEF Step
<1> QED
  BY <1>1, <1>2

\* The inductive invariant holds throughout.
LEMMA IInvAlways == Spec => []IInv
<1>1. Init => IInv
  BY InitTyped DEF Init, IInv, AloneIsAlone, Knows, Running
<1>2. IInv /\ [Next]_vars => IInv'
  <2> SUFFICES ASSUME IInv, [Next]_vars PROVE IInv'
    OBVIOUS
  <2>1. ASSUME NEW t \in Tasks, Step(t) PROVE IInv'
    BY <2>1, StepTyped, StepAlone, OthersKnow, StepKnows DEF IInv
  <2>4. ASSUME NEW t \in Tasks, RunLate(t) PROVE IInv'
    BY <2>4, RunLateKnows
  <2>2. ASSUME NEW u \in Users, KeyChange(u) PROVE IInv'
    BY <2>2, KeyChangeTyped
       DEF KeyChange, IInv, AloneIsAlone, Knows, SeenIsOn, StepsDone, Unmoved, Running,
           places, call
  <2>3. CASE UNCHANGED vars
    BY <2>3 DEF vars, places, call, ghosts, IInv, Typed, TypeOK, RightTool, EnableOnly,
                DisableOnly, AloneIsAlone, Knows, SeenIsOn, StepsDone, Unmoved, Running
  <2> QED
    BY <2>1, <2>2, <2>3, <2>4, NextSteps
<1> QED
  BY <1>1, <1>2, PTL DEF Spec

\* An enable that found the flag off turns it on last, unless another call overlaps it
\* or a link command of its own runs late.
THEOREM FlagAlwaysLast == Spec => []FlagLast
<1>1. IInv => FlagLast
  <2> SUFFICES ASSUME IInv, NEW t \in Tasks, op[t].tool = "enable", alone[t], late[t] = {},
                      Running(t), ~start[t].web, web
               PROVE  synoinfo /\ link # None
    BY DEF FlagLast
  <2>1. /\ pc[t] \in Places /\ pc[t] \notin DisableOnly
        /\ StepsDone(t) /\ Unmoved(t)
    BY DEF IInv, Typed, TypeOK, RightTool, Knows, DisableOnly
  <2> QED
    BY <2>1 DEF Places, DisableOnly, StepsDone, Unmoved, Running
<1> QED
  BY <1>1, IInvAlways, PTL

\* Whoever returns is the actor.
LEMMA Actor ==
  ASSUME Typed, Next, NEW t \in Tasks, pc[t] # "done", pc'[t] = "done"
  PROVE  Step(t) /\ ~Begin(t)
<1>1. ASSUME NEW u \in Tasks, Step(u), u # t PROVE FALSE
  BY <1>1, StepOfRunning, BeginAlone
<1>2. ASSUME NEW u \in Users, KeyChange(u) PROVE FALSE
  BY <1>2 DEF KeyChange
<1>4. ASSUME NEW u \in Tasks, RunLate(u) PROVE FALSE
  BY <1>4 DEF RunLate
<1>3. ~Begin(t)
  BY BeginAlone
<1> QED
  BY <1>1, <1>2, <1>3, <1>4, NextSteps

\* An enable that reports success, that no other call overlapped, and none of whose
\* link commands still runs, leaves User Home on in all three places.
THEOREM EnableAlwaysMeansOn == Spec => EnableMeansOn
<1>1. ASSUME IInv, Next, NEW t \in Tasks, op[t].tool = "enable", alone[t],
             late'[t] = {}, Returns(t, {"ok", "partial"})
      PROVE  web' /\ synoinfo' /\ link' # None
  <2>1. /\ pc \in [Tasks -> Places] /\ result \in [Tasks -> Results]
        /\ pc[t] \in DisableOnly => op[t].tool = "disable"
        /\ Running(t) => SeenIsOn(t) /\ StepsDone(t)
    BY <1>1 DEF IInv, Typed, TypeOK, RightTool, Knows
  <2>2. Step(t) /\ ~Begin(t) /\ Running(t)
    BY <1>1, Actor, StepOfRunning DEF IInv, Returns
  <2>3. ASSUME NEW p, Goto(t, p), p # "done" PROVE FALSE
    BY <1>1, <2>1, <2>3 DEF Goto, Returns
  <2>4. ASSUME NEW r, Return(t, r) PROVE r \in {"ok", "partial"}
    BY <1>1, <2>1, <2>4 DEF Return, Returns
  <2> USE <1>1, <2>1, <2>2, <2>3, <2>4 DEF places, SeenIsOn, StepsDone, DisableOnly
  <2>5. CASE Raises(t)
    BY <2>5 DEF Raises
  <2>6. CASE GetAnswered(t)
    BY <2>6 DEF GetAnswered
  <2>7. CASE ReadSynoinfo(t)
    BY <2>7 DEF ReadSynoinfo
  <2>8. CASE ReadHomes(t)
    BY <2>8 DEF ReadHomes, AlreadyOff
  <2>9. CASE ReadPrevious(t)
    BY <2>9 DEF ReadPrevious
  <2>10. CASE PickVolume(t)
    BY <2>10 DEF PickVolume, Prepare
  <2>11. CASE WriteSynoinfo(t)
    <3>1. Goto(t, "step2") \/ Return(t, "failed") \/ Return(t, "error")
      BY <2>11 DEF WriteSynoinfo
    <3> QED
      BY <3>1
  <2>12. CASE Relink(t)
    BY <2>12 DEF Relink
  <2>13. CASE SetOn(t)
    BY <2>13 DEF SetOn, Prepare
  <2>14. CASE PrepareFolder(t)
    BY <2>14 DEF PrepareFolder
  <2>15. CASE Restore(t)
    BY <2>15 DEF Restore
  <2>16. CASE FindKeys(t)
    BY <2>16 DEF FindKeys, Refused
  <2>17. CASE SetOff(t)
    BY <2>17 DEF SetOff
  <2> QED
    BY <2>5, <2>6, <2>7, <2>8, <2>9, <2>10, <2>11, <2>12, <2>13, <2>14, <2>15, <2>16, <2>17
       DEF Step
<1>2. IInv /\ [Next]_vars =>
        [\A t \in Tasks :
           op[t].tool = "enable" /\ alone[t] /\ late'[t] = {} /\ Returns(t, {"ok", "partial"}) =>
             web' /\ synoinfo' /\ link' # None]_vars
  BY <1>1
<1> QED
  BY <1>2, IInvAlways, PTL DEF Spec, EnableMeansOn

\* A rollback that reports success restores the link, whatever failed before, unless
\* another call overlapped it or a command of step 2 still runs.
THEOREM RollbackAlwaysRestores == Spec => RollbackRestores
<1>1. ASSUME IInv, Next, NEW t \in Tasks, alone[t], late[t] = {}, Returns(t, {"rolled_back"})
      PROVE  link' = start[t].link
  <2>1. Step(t) /\ ~Begin(t) /\ Running(t)
    BY <1>1, Actor, StepOfRunning DEF IInv, Returns
  <2>2. /\ pc \in [Tasks -> Places] /\ result \in [Tasks -> Results]
        /\ pc[t] \in EnableOnly => op[t].tool = "enable"
        /\ op[t].tool = "enable" => Unmoved(t)
    BY <1>1, <2>1 DEF IInv, Typed, TypeOK, RightTool, Knows
  <2>3. ASSUME NEW p, Goto(t, p), p # "done" PROVE FALSE
    BY <1>1, <2>2, <2>3 DEF Goto, Returns
  <2>4. ASSUME NEW r, Return(t, r) PROVE r = "rolled_back"
    BY <1>1, <2>2, <2>4 DEF Return, Returns
  <2>5. Restore(t)
    BY <2>1, <2>3, <2>4
       DEF Step, Raises, GetAnswered, ReadSynoinfo, ReadHomes, ReadPrevious, PickVolume,
           Prepare, WriteSynoinfo, Relink, SetOn, PrepareFolder, FindKeys, SetOff,
           AlreadyOff, Refused
  <2>6. pc[t] = "restore" /\ link' \in {previous[t]} \cup late[t] /\ previous[t] # None
    BY <2>4, <2>5 DEF Restore
  <2> QED
    BY <1>1, <2>2, <2>6 DEF Unmoved, EnableOnly
<1>2. IInv /\ [Next]_vars =>
        [\A t \in Tasks :
           alone[t] /\ late[t] = {} /\ Returns(t, {"rolled_back"}) => link' = start[t].link]_vars
  BY <1>1
<1> QED
  BY <1>2, IInvAlways, PTL DEF Spec, RollbackRestores

-------------------------------------------------------------------------------
(* The safety rail of user_home_disable, under any interleaving            *)

\* Nobody counts as steady without a key; and beyond an unconfirmed call's
\* enumeration, nobody whose keys it could see does.
Rail ==
    \A t \in Tasks :
      /\ Running(t) => steady[t] \subseteq keys
      /\ pc[t] = "off" => op[t].confirm \/ unanswered[t] \/ steady[t] \cap Visible = {}

\* The rail holds throughout.
LEMMA RailAlways == Spec => []Rail
<1>1. Init => Rail
  BY DEF Init, Rail, Running
<1>2. ASSUME Typed, Rail, NEW t \in Tasks, Step(t) PROVE Rail'
  <2>1. CASE Begin(t)
    BY <1>2, <2>1, BeginAlone DEF Begin, Typed, TypeOK, Rail, Running, call
  <2>2. CASE ~Begin(t)
    <3>1. /\ keys' = keys /\ steady' = steady /\ op' = op
          /\ Running(t) /\ \A u \in Tasks : u # t => pc'[u] = pc[u]
      BY <1>2, <2>2, StepOfRunning, StepLocal DEF Local
    <3>2. /\ \A u \in Tasks : u # t => unanswered'[u] = unanswered[u]
          /\ pc'[t] = "off" =>
               op[t].confirm \/ unanswered'[t] \/ keys \cap Visible = {}
      <4>1. CASE FindKeys(t)
        BY <1>2, <4>1 DEF FindKeys, Refused, Goto, Return, Typed, TypeOK
      <4>2. CASE ~FindKeys(t)
        BY <1>2, <2>2, <4>2
           DEF Typed, TypeOK, Step, Raises, GetAnswered, ReadSynoinfo, ReadHomes,
               ReadPrevious, PickVolume, Prepare, WriteSynoinfo, Relink, SetOn,
               PrepareFolder, Restore, SetOff, AlreadyOff, Goto, Return, ghosts
      <4> QED
        BY <4>1, <4>2
    <3> QED
      BY <1>2, <3>1, <3>2 DEF Rail, Running
  <2> QED
    BY <2>1, <2>2
<1>3. ASSUME Typed, Rail, NEW u \in Users, KeyChange(u) PROVE Rail'
  BY <1>3 DEF KeyChange, Typed, TypeOK, Rail, Running, call
<1>6. ASSUME Rail, NEW t \in Tasks, RunLate(t) PROVE Rail'
  BY <1>6 DEF RunLate, Rail, Running, call
<1>4. Rail /\ UNCHANGED vars => Rail'
  BY DEF Rail, Running, vars, call, ghosts
<1>5. Typed /\ Rail /\ [Next]_vars => Rail'
  BY <1>2, <1>3, <1>4, <1>6, NextSteps
<1> QED
  BY <1>1, <1>5, TypedAlways, PTL DEF Spec

\* No call that was not confirmed turns User Home off under users whose keys it
\* could have seen from its beginning on, unless its enumeration went unanswered.
THEOREM RailAlwaysHolds == Spec => RailHolds
<1>1. ASSUME Rail, NEW t \in Tasks, pc[t] = "off"
      PROVE  op[t].confirm \/ unanswered[t] \/ steady[t] \cap Visible = {}
  BY <1>1 DEF Rail
<1>2. Rail /\ [Next]_vars =>
        [\A t \in Tasks :
           pc[t] = "off" /\ pc'[t] = "done" /\ web /\ ~web' =>
             op[t].confirm \/ unanswered[t] \/ steady[t] \cap Visible = {}]_vars
  BY <1>1
<1> QED
  BY <1>2, RailAlways, PTL DEF Spec, RailHolds
=============================================================================
