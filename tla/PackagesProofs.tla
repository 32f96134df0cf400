---------------------------- MODULE PackagesProofs -----------------------------
(***************************************************************************)
(* Proofs about Packages for any set of calls and versions, and any bound  *)
(* on the polls: an install replaces nothing, a pin is honoured, and the   *)
(* tools implement PackageJobs.                                            *)
(***************************************************************************)
EXTENDS Packages, TLAPS

USE DEF ghosts

\* One step of one call, or of its job.
Step(t) == Begin(t) \/ Continue(t) \/ JobFinishes(t) \/ JobFails(t)

\* Each tool stays in its own half of the program, and has no job until it has
\* asked for one.
RightTool(t) ==
    /\ pc[t] \in {"catalog", "install", "verify"} => op[t].tool = "install"
    /\ pc[t] = "uninstall" => op[t].tool = "uninstall"
    /\ pc[t] \in {"new", "get", "catalog", "install", "uninstall"} => job[t] = "none"

\* The row an install goes by is one the pin allows.
Pinned(t) ==
    op[t].tool = "install" /\ pc[t] \in {"install", "status", "verify"} =>
      /\ row[t] \in Rows
      /\ row[t].shown \in {row[t].build, None}
      /\ op[t].pin = None \/ row[t].shown \in {None, op[t].pin}

Typed == TypeOK /\ \A t \in Tasks : RightTool(t) /\ Pinned(t)

\* Alone means alone.
AloneIsAlone == \A t, u \in Tasks : alone[t] /\ Active(t) /\ Active(u) => t = u

\* An install that is alone and was not misled finds nothing installed, until its job
\* is done; and what is there afterwards is the job's.
Fresh(t) ==
    op[t].tool = "install" /\ alone[t] /\ ~misled[t] =>
      /\ pc[t] \in {"catalog", "install"} \/ job[t] = "running" => package = None
      /\ pc[t] \in {"status", "verify"} => package \in {None, row[t].build}

\* The inductive invariant.
IInv == Typed /\ AloneIsAlone /\ \A t \in Tasks : Fresh(t)

\* The start: nothing called yet.
LEMMA InitIInv == Init => IInv
  BY MaxPollsAssumption
     DEF Init, IInv, Typed, TypeOK, RightTool, Pinned, AloneIsAlone, Active, Fresh

\* Every step of a call keeps the types, the tool, and the pin.
LEMMA StepTyped ==
  ASSUME Typed, NEW t \in Tasks, Step(t)
  PROVE  Typed'
<1> USE DEF Typed, TypeOK, RightTool, Pinned, Goto, Return, Refusals
<1>1. CASE Begin(t)
  <2>1. alone' \in [Tasks -> BOOLEAN]
    BY <1>1 DEF Begin, Active
  <2>2. UNCHANGED <<package, job, op, row, polls, misled>> /\ pc[t] = "new"
    BY <1>1 DEF Begin
  <2>3. (Return(t, "denylist") \/ Goto(t, "get"))
    BY <1>1 DEF Begin
  <2> QED
    BY <2>1, <2>2, <2>3
<1>2. CASE InstallChecked(t)
  <2>1. misled' \in [Tasks -> BOOLEAN]
    BY <1>2 DEF InstallChecked, Misleads
  <2>2. /\ UNCHANGED <<package, job, op, row, polls, alone>> /\ pc[t] = "get" /\ op[t].tool = "install"
        /\ \/ Goto(t, "catalog") \/ Return(t, "noop") \/ Return(t, "upgrade_required")
    BY <1>2 DEF InstallChecked
  <2> QED
    BY <2>1, <2>2
<1>3. CASE CatalogAnswered(t)
  <2>1. CASE Return(t, "not_in_catalog") /\ UNCHANGED row
    BY <1>3, <2>1 DEF CatalogAnswered
  <2>2. CASE Return(t, "version_mismatch") /\ UNCHANGED row
    BY <1>3, <2>2 DEF CatalogAnswered
  <2>3. ASSUME NEW r \in Rows, r.shown \in {r.build, None},
               op[t].pin = None \/ r.shown \in {None, op[t].pin},
               row' = [row EXCEPT ![t] = r], Goto(t, "install")
        PROVE  Typed'
    <3>1. row'[t] = r /\ r # None /\ row' \in [Tasks -> Rows \cup {None}]
      BY <1>3, <2>3, RowsAssumption DEF CatalogAnswered, Rows, Builds
    <3> QED
      BY <1>3, <2>3, <3>1 DEF CatalogAnswered
  <2> QED
    BY <1>3, <2>1, <2>2, <2>3 DEF CatalogAnswered
<1>4. CASE InstallAnswered(t)
  BY <1>4 DEF InstallAnswered, Starts
<1>5. CASE UninstallChecked(t)
  <2>1. misled' \in [Tasks -> BOOLEAN]
    BY <1>5 DEF UninstallChecked, Misleads
  <2>2. /\ UNCHANGED <<package, job, op, row, polls, alone>> /\ pc[t] = "get" /\ op[t].tool = "uninstall"
        /\ Goto(t, "uninstall") \/ Return(t, "not_installed")
    BY <1>5 DEF UninstallChecked
  <2> QED
    BY <2>1, <2>2
<1>6. CASE UninstallAnswered(t)
  BY <1>6 DEF UninstallAnswered, Starts
<1>7. CASE StatusFinal(t)
  BY <1>7, MaxPollsAssumption DEF StatusFinal, PollOver
<1>8. CASE StatusPending(t)
  BY <1>8, MaxPollsAssumption DEF StatusPending, PollOver
<1>9. CASE VerifyAnswered(t)
  BY <1>9 DEF VerifyAnswered
<1>10. CASE Raises(t)
  BY <1>10 DEF Raises, Starts
<1>11. CASE JobFinishes(t)
  <2>1. package' \in Builds
    BY <1>11 DEF JobFinishes, Builds, Rows, Ops
  <2> QED
    BY <1>11, <2>1 DEF JobFinishes
<1>12. CASE JobFails(t)
  BY <1>12 DEF JobFails
<1> QED
  BY <1>1, <1>2, <1>3, <1>4, <1>5, <1>6, <1>7, <1>8, <1>9, <1>10, <1>11, <1>12
     DEF Step, Continue

\* Nor do the people in the Package Center break them.
LEMMA PackageCenterTyped == ASSUME Typed, PackageCenter PROVE Typed'
  BY DEF PackageCenter, Typed, TypeOK, RightTool, Pinned

\* A step other than Begin is one of an active call, and changes no other.
LEMMA StepOfActive ==
  ASSUME Typed, NEW t \in Tasks, Step(t), ~Begin(t)
  PROVE  /\ Active(t) /\ alone' = alone /\ op' = op
         /\ \A u \in Tasks : u # t => pc'[u] = pc[u] /\ job'[u] = job[u]
  BY DEF Typed, TypeOK, Step, Continue, Active, InstallChecked, CatalogAnswered,
         InstallAnswered, UninstallChecked, UninstallAnswered, StatusFinal, StatusPending,
         PollOver, VerifyAnswered, Raises, JobFinishes, JobFails, Goto, Return, Starts, Misleads

\* A call that begins finds out who is active, and spoils their solitude.
LEMMA BeginAlone ==
  ASSUME Typed, NEW t \in Tasks, Begin(t)
  PROVE  /\ \A u \in Tasks : u # t => pc'[u] = pc[u] /\ (alone'[u] <=> alone[u] /\ ~Active(u))
         /\ alone'[t] <=> \A v \in Tasks : ~Active(v)
         /\ job' = job /\ ~Active(t)
  BY DEF Begin, Goto, Return, Typed, TypeOK, RightTool, Active

\* Alone stays alone.
LEMMA StepAlone ==
  ASSUME Typed, AloneIsAlone, NEW t \in Tasks, Step(t)
  PROVE  AloneIsAlone'
<1>1. CASE Begin(t)
  BY <1>1, BeginAlone DEF AloneIsAlone, Active
<1>2. CASE ~Begin(t)
  BY <1>2, StepOfActive DEF AloneIsAlone, Active
<1> QED
  BY <1>1, <1>2

\* Each step of a call keeps what it has found, or made, true.
LEMMA StepFresh ==
  ASSUME IInv, NEW t \in Tasks, Step(t)
  PROVE  Fresh(t)'
<1>1. /\ DOMAIN pc = Tasks /\ DOMAIN job = Tasks /\ DOMAIN row = Tasks
      /\ DOMAIN misled = Tasks /\ RightTool(t) /\ Fresh(t)
  BY DEF IInv, Typed, TypeOK
<1> USE <1>1 DEF RightTool, Fresh, Goto, Return
<1>2. CASE Begin(t)
  BY <1>2 DEF Begin
<1>3. CASE InstallChecked(t) \/ UninstallChecked(t)
  BY <1>3 DEF InstallChecked, UninstallChecked, Misleads
<1>4. CASE CatalogAnswered(t)
  BY <1>4 DEF CatalogAnswered
<1>5. CASE InstallAnswered(t)
  BY <1>5 DEF InstallAnswered, Starts
<1>6. CASE UninstallAnswered(t)
  BY <1>6 DEF UninstallAnswered
<1>7. CASE StatusFinal(t) \/ StatusPending(t)
  BY <1>7 DEF StatusFinal, StatusPending, PollOver
<1>8. CASE VerifyAnswered(t)
  BY <1>8 DEF VerifyAnswered
<1>9. CASE Raises(t)
  BY <1>9 DEF Raises, Starts
<1>10. CASE JobFinishes(t)
  BY <1>10 DEF JobFinishes
<1>11. CASE JobFails(t)
  BY <1>11 DEF JobFails
<1> QED
  BY <1>2, <1>3, <1>4, <1>5, <1>6, <1>7, <1>8, <1>9, <1>10, <1>11 DEF Step, Continue

\* And no step of another call can touch it.
LEMMA OthersFresh ==
  ASSUME IInv, NEW t \in Tasks, Step(t), NEW u \in Tasks, u # t
  PROVE  Fresh(u)'
<1> SUFFICES ASSUME alone'[u], Active(u)' PROVE FALSE
  BY DEF Fresh, Active
<1>1. CASE Begin(t)
  BY <1>1, BeginAlone DEF IInv, Active
<1>2. CASE ~Begin(t)
  BY <1>2, StepOfActive DEF IInv, AloneIsAlone, Active
<1> QED
  BY <1>1, <1>2

\* The inductive invariant holds throughout.
LEMMA IInvAlways == Spec => []IInv
<1>1. IInv /\ [Next]_vars => IInv'
  <2> SUFFICES ASSUME IInv, [Next]_vars PROVE IInv'
    OBVIOUS
  <2>1. ASSUME NEW t \in Tasks, Step(t) PROVE IInv'
    BY <2>1, StepTyped, StepAlone, StepFresh, OthersFresh DEF IInv
  <2>2. CASE PackageCenter
    <3>1. /\ UNCHANGED <<job, pc, op, row, misled>>
          /\ \A t \in Tasks : alone'[t] <=> alone[t] /\ ~Active(t)
      BY <2>2 DEF PackageCenter
    <3>2. AloneIsAlone' /\ \A t \in Tasks : Fresh(t)'
      BY <3>1 DEF AloneIsAlone, Fresh, Active
    <3> QED
      BY <2>2, <3>2, PackageCenterTyped DEF IInv
  <2>3. CASE UNCHANGED vars
    BY <2>3 DEF vars, IInv, Typed, TypeOK, RightTool, Pinned, AloneIsAlone, Active, Fresh
  <2> QED
    BY <2>1, <2>2, <2>3 DEF Next, Step
<1> QED
  BY InitIInv, <1>1, PTL DEF Spec

\* In every reachable state the variables have their types, the polls stay
\* under their bound, and a job that installs has a row of the catalog.
THEOREM TypeCorrect == Spec => []TypeOK
<1>1. IInv => TypeOK
  BY DEF IInv, Typed
<1> QED
  BY <1>1, IInvAlways, PTL

\* The job of an install that nobody overlapped, and that was not misled about what is
\* installed, never replaces a build, also when it ends after the call.
THEOREM NothingEverReplaced == Spec => NothingReplaced
<1>1. IInv /\ [Next]_vars =>
        [\A t \in Tasks :
           op[t].tool = "install" /\ alone[t] /\ ~misled[t]
             /\ job[t] = "running" /\ job'[t] = "finished" => package = None]_vars
  BY DEF IInv, Fresh
<1> QED
  BY <1>1, IInvAlways, PTL DEF Spec, NothingReplaced

\* A pin is honoured whenever the catalog shows a version, by a call that nobody
\* overlapped or misled.
THEOREM PinAlwaysHonoured == Spec => PinHonoured
<1>1. ASSUME IInv, Next, NEW t \in Tasks, op[t].tool = "install", alone[t],
             ~misled[t], Returns(t, "installed")
      PROVE  \/ op[t].pin = None \/ row[t].shown = None
             \/ package' \in {None, op[t].pin}
  <2>1. /\ DOMAIN pc = Tasks /\ DOMAIN result = Tasks
        /\ Pinned(t) /\ Fresh(t)
    BY <1>1 DEF IInv, Typed, TypeOK
  <2>2. VerifyAnswered(t)
    <3>1. ASSUME NEW u \in Tasks, Step(u), u # t PROVE pc'[t] = pc[t]
      BY <1>1, <3>1, StepOfActive, BeginAlone DEF IInv
    <3>2. ~PackageCenter
      BY <1>1 DEF PackageCenter, Returns
    <3>3. Step(t)
      BY <1>1, <3>1, <3>2 DEF Next, Step, Returns
    <3>4. ASSUME NEW r, Return(t, r) PROVE r = "installed"
      BY <1>1, <2>1, <3>4 DEF Return, Returns
    <3>5. ASSUME NEW p, Goto(t, p) PROVE p = "done"
      BY <1>1, <2>1, <3>5 DEF Goto, Returns
    <3> QED
      BY <1>1, <3>3, <3>4, <3>5
         DEF Step, Begin, Continue, InstallChecked, CatalogAnswered, InstallAnswered,
             UninstallChecked, UninstallAnswered, StatusFinal, StatusPending, PollOver,
             Raises, JobFinishes, JobFails, Returns
  <2> QED
    BY <1>1, <2>1, <2>2 DEF VerifyAnswered, Pinned, Fresh
<1>2. IInv /\ [Next]_vars =>
        [\A t \in Tasks :
           op[t].tool = "install" /\ alone[t] /\ ~misled[t] /\ Returns(t, "installed") =>
             \/ op[t].pin = None \/ row[t].shown = None
             \/ package' \in {None, op[t].pin}]_vars
  BY <1>1
<1> QED
  BY <1>2, IInvAlways, PTL DEF Spec, PinHonoured
-------------------------------------------------------------------------------
(* The abstract specification                                              *)

\* The pc of a call that has found the package as it needs it.
Seeing == {"catalog", "install", "uninstall", "status", "verify"}

\* A call that has answered is done, and an uninstall that polls has a job.
Spoken(t) ==
    /\ result[t] = "none" <=> pc[t] # "done"
    /\ pc[t] = "status" /\ op[t].tool = "uninstall" => job[t] # "none"

JInv == IInv /\ \A t \in Tasks : Spoken(t)

LEMMA StepSpoken ==
  ASSUME JInv, NEW t \in Tasks, Step(t), NEW u \in Tasks
  PROVE  Spoken(u)'
<1>1. /\ TypeOK /\ RightTool(t) /\ Spoken(u)
  BY DEF JInv, IInv, Typed
<1>2. UNCHANGED op
  BY <1>1 DEF Step, Continue, Begin, InstallChecked, CatalogAnswered,
         InstallAnswered, UninstallChecked, UninstallAnswered, StatusFinal, StatusPending,
         VerifyAnswered, Raises, JobFinishes, JobFails
<1>3. CASE u # t
  <2>1. pc'[u] = pc[u] /\ job'[u] = job[u] /\ result'[u] = result[u]
    BY <1>1, <1>3 DEF TypeOK, Step, Continue, Begin, InstallChecked, CatalogAnswered,
         InstallAnswered, UninstallChecked, UninstallAnswered, StatusFinal, StatusPending,
         PollOver, VerifyAnswered, Raises, JobFinishes, JobFails, Goto, Return, Starts
  <2> QED
    BY <1>1, <1>2, <2>1 DEF Spoken
<1>4. CASE u = t
  <2> USE DEF TypeOK, Goto, Return, RightTool, Spoken
  <2>1. CASE Begin(t)
    BY <1>1, <1>2, <1>4, <2>1 DEF Begin
  <2>2. CASE InstallChecked(t)
    BY <1>1, <1>2, <1>4, <2>2 DEF InstallChecked, Misleads
  <2>3. CASE CatalogAnswered(t)
    BY <1>1, <1>2, <1>4, <2>3 DEF CatalogAnswered
  <2>4. CASE InstallAnswered(t)
    BY <1>1, <1>2, <1>4, <2>4 DEF InstallAnswered, Starts
  <2>5. CASE UninstallChecked(t)
    BY <1>1, <1>2, <1>4, <2>5 DEF UninstallChecked
  <2>6. CASE UninstallAnswered(t)
    BY <1>1, <1>2, <1>4, <2>6 DEF UninstallAnswered, Starts
  <2>7. CASE StatusFinal(t)
    BY <1>1, <1>2, <1>4, <2>7 DEF StatusFinal, PollOver
  <2>8. CASE StatusPending(t)
    BY <1>1, <1>2, <1>4, <2>8 DEF StatusPending, PollOver
  <2>9. CASE VerifyAnswered(t)
    BY <1>1, <1>2, <1>4, <2>9 DEF VerifyAnswered
  <2>10. CASE Raises(t)
    BY <1>1, <1>2, <1>4, <2>10 DEF Raises, Starts
  <2>11. CASE JobFinishes(t) \/ JobFails(t)
    BY <1>1, <1>2, <1>4, <2>11 DEF JobFinishes, JobFails
  <2> QED
    BY <2>1, <2>2, <2>3, <2>4, <2>5, <2>6, <2>7, <2>8, <2>9, <2>10, <2>11 DEF Step, Continue
<1> QED
  BY <1>3, <1>4

LEMMA JInvAlways == Spec => []JInv
<1>1. Init => \A t \in Tasks : Spoken(t)
  BY DEF Init, Spoken
<1>2. JInv /\ IInv' /\ [Next]_vars => JInv'
  <2> SUFFICES ASSUME JInv, IInv', [Next]_vars, NEW u \in Tasks PROVE Spoken(u)'
    BY DEF JInv
  <2>1. ASSUME NEW t \in Tasks, Step(t) PROVE Spoken(u)'
    BY <2>1, StepSpoken
  <2>2. CASE PackageCenter
    BY <2>2 DEF PackageCenter, JInv, Spoken
  <2>3. CASE UNCHANGED vars
    BY <2>3 DEF vars, JInv, Spoken
  <2> QED
    BY <2>1, <2>2, <2>3 DEF Next, Step
<1>3. IInv /\ (\A t \in Tasks : Spoken(t)) => JInv
  BY DEF JInv
<1>4. Init => JInv
  BY <1>1, <1>3, InitIInv
<1> QED
  BY <1>2, <1>4, IInvAlways, PTL DEF Spec

\* The abstract state.
Finders == {t \in Tasks : pc[t] \in Seeing}
Fooled  == {t \in Tasks : misled[t]}
Leaves  == [t \in Tasks |-> IF job[t] = "none" \/ op[t].tool = "uninstall" THEN None
                            ELSE row[t].build]

\* A call that goes on and asks for nothing is not seen; a row is not, before a job.
LEMMA GoesOn ==
  ASSUME JInv, NEW t \in Tasks, NEW next, Goto(t, next), UNCHANGED <<package, job, op, misled>>,
         pc[t] \in Seeing <=> next \in Seeing,
         \A u \in Tasks : job[u] # "none" => row'[u] = row[u]
  PROVE  UNCHANGED Promise!vars
<1>1. DOMAIN pc = Tasks
  BY DEF JInv, IInv, Typed, TypeOK
<1>2. Finders' = Finders
  BY <1>1 DEF Finders, Goto
<1>3. Leaves' = Leaves
  BY DEF Leaves
<1>4. UNCHANGED result
  BY DEF Goto
<1> QED
  BY <1>2, <1>3, <1>4 DEF Promise!vars, Finders, Leaves, Fooled, Seeing

\* A call is misled.
LEMMA IsMisled ==
  ASSUME TypeOK, NEW t \in Tasks, Misleads(t)
  PROVE  Fooled' = Fooled \cup {t}
BY DEF Misleads, Fooled, TypeOK

\* One that has found the package as it needs it has looked, and so has an install
\* that was misled.
LEMMA Looks ==
  ASSUME JInv, NEW t \in Tasks, NEW next, Goto(t, next), UNCHANGED <<package, job, op, row>>,
         pc[t] = "get", next \in Seeing,
         \/ (op[t].tool = "install" <=> package = None) /\ UNCHANGED misled
         \/ op[t].tool = "install" /\ Misleads(t)
  PROVE  Promise!Look(t)
<1>1. DOMAIN pc = Tasks /\ result[t] = "none" /\ job[t] = "none"
  BY DEF JInv, IInv, Typed, TypeOK, Spoken, RightTool
<1>2. Finders' = Finders \cup {t}
  BY <1>1 DEF Finders, Goto
<1>3. Leaves' = Leaves /\ UNCHANGED result
  BY DEF Leaves, Goto
<1>4. \/ (op[t].tool = "install" <=> package = None) /\ UNCHANGED Fooled
      \/ op[t].tool = "install" /\ package # None /\ Fooled' = Fooled \cup {t}
  BY IsMisled DEF Fooled, Misleads, JInv, IInv, Typed
<1> QED
  BY <1>1, <1>2, <1>3, <1>4 DEF Promise!Look, Promise!Misleads, Finders, Leaves, Fooled, Seeing

\* One that ends without asking for anything has answered.
LEMMA Answers ==
  ASSUME JInv, NEW t \in Tasks, NEW how, Return(t, how), UNCHANGED <<package, job, op, row>>,
         pc[t] # "done",
         \/ /\ \/ Promise!Refusal(t, how) /\ job[t] = "none"
               \/ how = "uninstalled" /\ op[t].tool = "uninstall" /\ job[t] # "none"
               \/ how \in {"installed", "eula_required"} /\ op[t].tool = "install"
               \/ how = "error"
            /\ UNCHANGED misled
         \/ /\ how = "not_installed" /\ op[t].tool = "uninstall" /\ job[t] = "none"
            /\ Misleads(t)
  PROVE  Promise!Answer(t, how)
<1>1. DOMAIN pc = Tasks /\ result[t] = "none"
  BY DEF JInv, IInv, Typed, TypeOK, Spoken
<1>2. Finders' = Finders \ {t}
  BY <1>1 DEF Finders, Return, Seeing
<1>3. Leaves' = Leaves
  BY DEF Leaves
<1>4. \/ UNCHANGED misled /\ UNCHANGED Fooled
      \/ Misleads(t) /\ package # None /\ Fooled' = Fooled \cup {t}
  BY IsMisled DEF Fooled, Misleads, JInv, IInv, Typed
<1>5. \/ /\ \/ Promise!Refusal(t, how) /\ job[t] = "none"
            \/ how = "uninstalled" /\ op[t].tool = "uninstall" /\ job[t] # "none"
            \/ how \in {"installed", "eula_required"} /\ op[t].tool = "install"
            \/ how = "error"
         /\ UNCHANGED Fooled
      \/ /\ how = "not_installed" /\ op[t].tool = "uninstall" /\ job[t] = "none"
         /\ package # None /\ Fooled' = Fooled \cup {t}
  BY <1>4, IsMisled DEF Misleads, Fooled, JInv, IInv, Typed
<1> QED
  BY <1>1, <1>2, <1>3, <1>5
     DEF Promise!Answer, Promise!Misleads, Return, Finders, Leaves, Fooled, Seeing

\* One that DSM starts a job for.
LEMMA Begins ==
  ASSUME JInv, NEW t \in Tasks, NEW how, Starts(t), UNCHANGED <<package, op, row, misled>>,
         pc[t] \in {"install", "uninstall"},
         \/ how = "none" /\ \E next \in {"status", "verify"} : Goto(t, next)
         \/ how \in {"uninstalled", "eula_required", "error"} /\ Return(t, how),
         how = "uninstalled" => op[t].tool = "uninstall",
         how = "eula_required" => op[t].tool = "install"
  PROVE  Promise!Start(t, how)
<1>1. /\ DOMAIN pc = Tasks /\ DOMAIN job = Tasks /\ result[t] = "none" /\ job[t] = "none"
      /\ result = [u \in Tasks |-> result[u]]
      /\ op[t].tool \in {"install", "uninstall"}
      /\ pc[t] = "install" <=> op[t].tool = "install"
      /\ op[t].tool = "install" => row[t] \in Rows
  BY DEF JInv, IInv, Typed, TypeOK, Spoken, RightTool, Pinned, Ops
<1>2. Finders' = IF how = "none" THEN Finders ELSE Finders \ {t}
  BY <1>1 DEF Finders, Goto, Return, Seeing
<1>3. t \in Finders
  BY DEF Finders, Seeing
<1>4. result' = [result EXCEPT ![t] = how]
  <2>1. [result EXCEPT ![t] = "none"] = result
    BY <1>1
  <2> QED
    BY <2>1 DEF Goto, Return
<1> DEFINE b == IF op[t].tool = "uninstall" THEN None ELSE row[t].build
<1>5. Leaves' = [Leaves EXCEPT ![t] = b]
  BY <1>1 DEF Leaves, Starts
<1>6. b \in Promise!Builds /\ (op[t].tool = "install" <=> b # None)
  BY <1>1, NoneAssumption DEF Rows, Promise!Builds
<1>7. \E c \in Promise!Builds : (op[t].tool = "install" <=> c # None)
                               /\ Leaves' = [Leaves EXCEPT ![t] = c]
  BY <1>5, <1>6
<1> QED
  BY <1>1, <1>2, <1>3, <1>4, <1>7 DEF Promise!Start, Starts, Finders, Leaves, Fooled, Seeing

\* Every step of a call, or of its job, is one of PackageJobs or none.
LEMMA StepImplements ==
  ASSUME JInv, NEW t \in Tasks, Step(t)
  PROVE  Promise!Next \/ UNCHANGED Promise!vars
<1>1. /\ TypeOK /\ RightTool(t) /\ Spoken(t) /\ op[t] \in Ops
      /\ op[t].tool \in {"install", "uninstall"}
  BY DEF JInv, IInv, Typed, TypeOK, Ops
<1>2. ASSUME NEW how \in Promise!Outcomes, Promise!Answer(t, how) PROVE Promise!Next
  BY <1>2 DEF Promise!Next
<1>3. ASSUME NEW how \in {"none", "uninstalled", "eula_required", "error"}, Promise!Start(t, how)
      PROVE  Promise!Next
  BY <1>3 DEF Promise!Next
<1>4. \A how \in Refusals \cup {"installed", "uninstalled", "error"} : how \in Promise!Outcomes
  BY DEF Refusals, Promise!Outcomes
<1>5. CASE Begin(t)
  <2>1. CASE Return(t, "denylist") /\ op[t].tool = "uninstall" /\ Protected /\ ~op[t].force
    <3>1. Promise!Refusal(t, "denylist") /\ job[t] = "none" /\ pc[t] # "done"
      BY <1>1, <1>5, <2>1 DEF Promise!Refusal, Begin, RightTool
    <3> QED
      BY <1>2, <1>4, <1>5, <2>1, <3>1, Answers DEF Begin, Refusals
  <2>2. CASE Goto(t, "get")
    BY <1>5, <2>2, GoesOn DEF Begin, Seeing
  <2> QED
    BY <1>5, <2>1, <2>2 DEF Begin
<1>6. CASE InstallChecked(t)
  <2>0. job[t] = "none" /\ pc[t] = "get" /\ UNCHANGED <<package, job, op, row>> /\ op[t].tool = "install"
    BY <1>1, <1>6 DEF InstallChecked, RightTool
  <2>1. CASE (Misleads(t) \/ (package = None /\ UNCHANGED misled)) /\ Goto(t, "catalog")
    <3>1. Promise!Look(t)
      BY <2>0, <2>1, Looks DEF Seeing
    <3> QED
      BY <3>1 DEF Promise!Next
  <2>2. CASE package # None /\ op[t].pin \in {None, package} /\ Return(t, "noop") /\ UNCHANGED misled
    <3>1. Promise!Refusal(t, "noop")
      BY <2>0, <2>2 DEF Promise!Refusal
    <3> QED
      BY <1>2, <1>4, <2>0, <2>2, <3>1, Answers DEF Refusals
  <2>3. CASE package # None /\ op[t].pin \notin {None, package} /\ Return(t, "upgrade_required")
          /\ UNCHANGED misled
    <3>1. Promise!Refusal(t, "upgrade_required")
      BY <2>0, <2>3 DEF Promise!Refusal
    <3> QED
      BY <1>2, <1>4, <2>0, <2>3, <3>1, Answers DEF Refusals
  <2>4. \/ Misleads(t) /\ Goto(t, "catalog")
        \/ package = None /\ Goto(t, "catalog") /\ UNCHANGED misled
        \/ package # None /\ op[t].pin \in {None, package} /\ Return(t, "noop") /\ UNCHANGED misled
        \/ /\ package # None /\ op[t].pin \notin {None, package} /\ Return(t, "upgrade_required")
           /\ UNCHANGED misled
    BY <1>6, Zenon DEF InstallChecked
  <2> QED
    BY <2>1, <2>2, <2>3, <2>4, Zenon
<1>7. CASE UninstallChecked(t)
  <2>0. job[t] = "none" /\ pc[t] = "get" /\ UNCHANGED <<package, job, op, row>> /\ op[t].tool = "uninstall"
    BY <1>1, <1>7 DEF UninstallChecked, RightTool
  <2>1. CASE package = None /\ Return(t, "not_installed") /\ UNCHANGED misled
    <3>1. Promise!Refusal(t, "not_installed")
      BY <2>0, <2>1 DEF Promise!Refusal
    <3> QED
      BY <1>2, <1>4, <2>0, <2>1, <3>1, Answers DEF Refusals
  <2>2. CASE package # None /\ Goto(t, "uninstall") /\ UNCHANGED misled
    <3>1. Promise!Look(t)
      BY <2>0, <2>2, Looks DEF Seeing
    <3> QED
      BY <3>1 DEF Promise!Next
  <2>3. CASE Misleads(t) /\ Return(t, "not_installed")
    BY <1>2, <1>4, <2>0, <2>3, Answers DEF Refusals
  <2> QED
    BY <1>7, <2>1, <2>2, <2>3 DEF UninstallChecked
<1>8. CASE CatalogAnswered(t)
  <2>0. job[t] = "none" /\ pc[t] = "catalog" /\ UNCHANGED <<package, job, op, misled>> /\ op[t].tool = "install"
    BY <1>1, <1>8 DEF CatalogAnswered, RightTool
  <2>1. CASE Return(t, "not_in_catalog") /\ UNCHANGED row
    <3>1. Promise!Refusal(t, "not_in_catalog")
      BY <2>0 DEF Promise!Refusal
    <3> QED
      BY <1>2, <1>4, <2>0, <2>1, <3>1, Answers DEF Refusals
  <2>2. CASE op[t].pin # None /\ Return(t, "version_mismatch") /\ UNCHANGED row
    <3>1. Promise!Refusal(t, "version_mismatch")
      BY <2>0, <2>2 DEF Promise!Refusal
    <3> QED
      BY <1>2, <1>4, <2>0, <2>2, <3>1, Answers DEF Refusals
  <2>3. CASE Goto(t, "install") /\ \E r \in Rows : row' = [row EXCEPT ![t] = r]
    <3>1. \A u \in Tasks : job[u] # "none" => row'[u] = row[u]
      BY <1>1, <2>0, <2>3 DEF TypeOK
    <3> QED
      BY <2>0, <2>3, <3>1, GoesOn DEF Seeing
  <2> QED
    BY <1>8, <2>1, <2>2, <2>3 DEF CatalogAnswered
<1>9. CASE InstallAnswered(t)
  <2>0. job[t] = "none" /\ pc[t] = "install" /\ UNCHANGED <<package, op, row, misled>> /\ op[t].tool = "install"
    BY <1>1, <1>9 DEF InstallAnswered, RightTool
  <2>1. CASE Starts(t) /\ \E next \in {"status", "verify"} : Goto(t, next)
    BY <1>3, <2>0, <2>1, Begins
  <2>2. CASE Goto(t, "verify") /\ UNCHANGED job
    BY <2>0, <2>2, GoesOn DEF Seeing
  <2>3. CASE Return(t, "eula_required") /\ UNCHANGED job
    BY <1>2, <1>4, <2>0, <2>3, Answers DEF Refusals
  <2>5. CASE Return(t, "eula_required") /\ Starts(t)
    BY <1>3, <2>0, <2>5, Begins
  <2>4. CASE Return(t, "online_install_failed") /\ UNCHANGED job
    <3>1. Promise!Refusal(t, "online_install_failed")
      BY <2>0 DEF Promise!Refusal
    <3> QED
      BY <1>2, <1>4, <2>0, <2>4, <3>1, Answers DEF Refusals
  <2> QED
    BY <1>9, <2>1, <2>2, <2>3, <2>4, <2>5 DEF InstallAnswered
<1>10. CASE UninstallAnswered(t)
  <2>0. /\ pc[t] = "uninstall" /\ UNCHANGED <<package, op, row, misled>> /\ op[t].tool = "uninstall"
        /\ Starts(t) /\ (Goto(t, "status") \/ Return(t, "uninstalled"))
    BY <1>1, <1>10 DEF UninstallAnswered, RightTool
  <2> QED
    BY <1>3, <2>0, Begins
<1>11. CASE StatusFinal(t) \/ StatusPending(t)
  <2>0. pc[t] = "status" /\ UNCHANGED <<package, job, op, row, misled>>
    BY <1>11 DEF StatusFinal, StatusPending
  <2>1. CASE Goto(t, "status") \/ Goto(t, "verify")
    BY <2>0, <2>1, GoesOn DEF Seeing
  <2>2. CASE op[t].tool # "install" /\ Return(t, "uninstalled")
    BY <1>1, <1>2, <1>4, <2>0, <2>2, Answers DEF Spoken
  <2> QED
    BY <1>11, <2>1, <2>2 DEF StatusFinal, StatusPending, PollOver
<1>12. CASE VerifyAnswered(t)
  <2>0. /\ pc[t] = "verify" /\ UNCHANGED <<package, job, op, row, misled>> /\ op[t].tool = "install"
        /\ Return(t, "installed")
    BY <1>1, <1>12 DEF VerifyAnswered, RightTool
  <2> QED
    BY <1>2, <1>4, <2>0, Answers
<1>13. CASE Raises(t)
  <2>0. pc[t] # "done" /\ Return(t, "error") /\ UNCHANGED <<package, op, row, misled>>
    BY <1>13 DEF Raises
  <2>1. CASE UNCHANGED job
    BY <1>2, <1>4, <2>0, <2>1, Answers
  <2>2. CASE pc[t] \in {"install", "uninstall"} /\ Starts(t)
    BY <1>3, <2>0, <2>2, Begins
  <2> QED
    BY <1>13, <2>1, <2>2 DEF Raises
<1>14. CASE JobFinishes(t) \/ JobFails(t)
  <2>1. job[t] = "running" /\ UNCHANGED <<pc, op, row, result, misled>>
    BY <1>14 DEF JobFinishes, JobFails
  <2>2. Finders' = Finders
    BY <2>1 DEF Finders
  <2>3. Leaves' = Leaves
    <3>1. \A u \in Tasks : job'[u] = "none" <=> job[u] = "none"
      BY <1>1, <1>14 DEF JobFinishes, JobFails, TypeOK
    <3> QED
      BY <2>1, <3>1 DEF Leaves
  <2>4. Leaves[t] = IF op[t].tool = "uninstall" THEN None ELSE row[t].build
    BY <2>1 DEF Leaves
  <2>5. \/ job' = [job EXCEPT ![t] = "finished"] /\ package' = Leaves[t]
        \/ job' = [job EXCEPT ![t] = "failed"] /\ UNCHANGED package
    BY <1>14, <2>4 DEF JobFinishes, JobFails
  <2>6. Promise!Ends(t)
    BY <2>1, <2>2, <2>3, <2>5 DEF Promise!Ends, Finders, Leaves, Fooled, Seeing
  <2> QED
    BY <2>6 DEF Promise!Next
<1> QED
  BY <1>5, <1>6, <1>7, <1>8, <1>9, <1>10, <1>11, <1>12, <1>13, <1>14 DEF Step, Continue

\* The package tools implement PackageJobs for any calls and versions and any bound of
\* the polls: no call starts a second job, whatever its answers were, and one that
\* answers with a refusal has none.
THEOREM PackagesImplementPackageJobs == Spec => ImplementsPackageJobs
<1>1. Init => Promise!Init
  <2> SUFFICES ASSUME Init PROVE Promise!Init
    OBVIOUS
  <2>1. Finders = {}
    BY DEF Init, Finders, Seeing
  <2>2. Leaves = [t \in Tasks |-> None]
    BY DEF Init, Leaves
  <2> QED
    BY <2>1, <2>2 DEF Init, Promise!Init, Finders, Leaves, Fooled, Seeing, Builds, Promise!Builds, Ops
<1>2. JInv /\ [Next]_vars => [Promise!Next]_(Promise!vars)
  <2> SUFFICES ASSUME JInv, [Next]_vars PROVE Promise!Next \/ UNCHANGED Promise!vars
    OBVIOUS
  <2>1. ASSUME NEW t \in Tasks, Step(t) PROVE Promise!Next \/ UNCHANGED Promise!vars
    BY <2>1, StepImplements
  <2>2. CASE PackageCenter
    <3>1. Finders' = Finders /\ Leaves' = Leaves
      BY <2>2 DEF PackageCenter, Finders, Leaves
    <3>2. Promise!Others
      BY <2>2, <3>1 DEF PackageCenter, Promise!Others, Builds, Promise!Builds, Finders, Leaves, Fooled, Seeing
    <3> QED
      BY <3>2 DEF Promise!Next
  <2>3. CASE UNCHANGED vars
    <3>1. Finders' = Finders /\ Leaves' = Leaves
      BY <2>3 DEF vars, Finders, Leaves
    <3> QED
      BY <2>3, <3>1 DEF vars, Promise!vars, Finders, Leaves, Fooled, Seeing
  <2> QED
    BY <2>1, <2>2, <2>3 DEF Next, Step
<1> QED
  BY <1>1, <1>2, JInvAlways, PTL DEF Spec, ImplementsPackageJobs, Promise!Spec
===============================================================================
