----------------------------- MODULE SharesProofs ------------------------------
(***************************************************************************)
(* Proofs about Shares for any set of calls, volumes and flags.            *)
(***************************************************************************)
EXTENDS Shares, TLAPS

\* One step of one call.
Step(t) ==
    \/ Begin(t) \/ Refuse(t) \/ CreateListed(t) \/ DeleteListed(t)
    \/ ProbeAnswered(t) \/ ProbeFails(t) \/ Created(t) \/ Deleted(t) \/ Raises(t)

\* Each tool stays in its own half of the program.
RightTool(t) ==
    /\ pc[t] = "create" => op[t].tool = "create"
    /\ pc[t] \in {"probe", "delete"} => op[t].tool = "delete"

\* A share that was kept is full and the one t began with; what the probe of
\* such a call measures is that share; and no probe that measures it lets an
\* unforced delete through.
Kept(t) ==
    /\ kept[t] => Full
    /\ pc[t] = "probe" /\ kept[t] => found[t] = share
    /\ pc[t] = "delete" => op[t].force \/ unanswered[t] \/ ~kept[t]

\* A call alone finds the share as it was.
Unchanged(t) == alone[t] /\ pc[t] \notin {"new", "done"} => share = before[t]

\* The inductive invariant.
IInv == TypeOK /\ \A t \in Tasks : RightTool(t) /\ Kept(t) /\ Unchanged(t)

\* The next-state relation: calls, files, and DSM's own interface.
LEMMA NextSteps == Next <=> (\E t \in Tasks : Step(t)) \/ FilesChange \/ ControlPanel
  BY DEF Next, Step

\* The start: nothing called yet.
LEMMA InitIInv == Init => IInv
  BY DEF Init, IInv, TypeOK, RightTool, Kept, Unchanged

\* The steps of a call keep the types and stay in their tool.
LEMMA StepTyped ==
  ASSUME IInv, NEW t \in Tasks, Step(t)
  PROVE  TypeOK' /\ \A u \in Tasks : RightTool(u)'
<1> USE DEF IInv, TypeOK, RightTool, Goto, Return, ghosts
<1>1. CASE Begin(t)
  <2>1. Full \in BOOLEAN
    BY DEF Full
  <2>2. /\ before' \in [Tasks -> Configs \cup {None}] /\ alone' \in [Tasks -> BOOLEAN]
        /\ kept' \in [Tasks -> BOOLEAN] /\ unanswered' \in [Tasks -> BOOLEAN]
    BY <1>1, <2>1 DEF Begin
  <2> QED
    BY <1>1, <2>2 DEF Begin
<1>2. CASE Refuse(t)
  BY <1>2 DEF Refuse
<1>3. CASE CreateListed(t)
  BY <1>3 DEF CreateListed
<1>4. CASE DeleteListed(t)
  BY <1>4 DEF DeleteListed
<1>5. CASE ProbeAnswered(t)
  BY <1>5 DEF ProbeAnswered
<1>6. CASE ProbeFails(t)
  BY <1>6 DEF ProbeFails
<1>7. CASE Created(t)
  <2>1. op[t].config \in Configs
    BY <1>7 DEF Created, Ops
  <2> QED
    BY <1>7, <2>1 DEF Created, Disturbs
<1>8. CASE Deleted(t)
  BY <1>8 DEF Deleted, Disturbs
<1>9. CASE Raises(t)
  BY <1>9 DEF Raises
<1> QED
  BY <1>1, <1>2, <1>3, <1>4, <1>5, <1>6, <1>7, <1>8, <1>9 DEF Step

\* The steps of a call keep what the rail rests on, for every call.
LEMMA StepKept ==
  ASSUME IInv, NEW t \in Tasks, Step(t)
  PROVE  \A u \in Tasks : Kept(u)'
<1> USE DEF IInv, TypeOK, RightTool, Kept, Goto, Return, ghosts, Full
<1>1. CASE Begin(t)
  BY <1>1 DEF Begin
<1>2. CASE Refuse(t)
  BY <1>2 DEF Refuse
<1>3. CASE CreateListed(t)
  BY <1>3 DEF CreateListed
<1>4. CASE DeleteListed(t)
  BY <1>4 DEF DeleteListed
<1>5. CASE ProbeAnswered(t)
  BY <1>5 DEF ProbeAnswered
<1>6. CASE ProbeFails(t)
  BY <1>6 DEF ProbeFails
<1>7. CASE Created(t)
  BY <1>7 DEF Created, Disturbs
<1>8. CASE Deleted(t)
  BY <1>8 DEF Deleted, Disturbs
<1>9. CASE Raises(t)
  BY <1>9 DEF Raises
<1> QED
  BY <1>1, <1>2, <1>3, <1>4, <1>5, <1>6, <1>7, <1>8, <1>9 DEF Step

\* The steps of a call change the share for none that stays alone.
LEMMA StepUnchanged ==
  ASSUME IInv, NEW t \in Tasks, Step(t)
  PROVE  \A u \in Tasks : Unchanged(u)'
<1> USE DEF IInv, TypeOK, Unchanged, Goto, Return, ghosts
<1>1. CASE Begin(t)
  BY <1>1 DEF Begin
<1>2. CASE Refuse(t) \/ CreateListed(t) \/ DeleteListed(t)
  BY <1>2 DEF Refuse, CreateListed, DeleteListed
<1>3. CASE ProbeAnswered(t) \/ ProbeFails(t) \/ Raises(t)
  BY <1>3 DEF ProbeAnswered, ProbeFails, Raises
<1>4. CASE Created(t)
  BY <1>4 DEF Created, Disturbs
<1>5. CASE Deleted(t)
  BY <1>5 DEF Deleted, Disturbs
<1> QED
  BY <1>1, <1>2, <1>3, <1>4, <1>5 DEF Step

\* Nor do the files, or DSM's interface, break the invariant.
LEMMA WorldIInv == ASSUME IInv, FilesChange \/ ControlPanel PROVE IInv'
<1> USE DEF IInv, TypeOK, RightTool, Kept, Unchanged, Full, ghosts
<1>1. CASE FilesChange
  BY <1>1 DEF FilesChange
<1>2. CASE ControlPanel
  BY <1>2 DEF ControlPanel, Disturbs
<1> QED
  BY <1>1, <1>2

\* The inductive invariant holds throughout.
LEMMA IInvAlways == Spec => []IInv
<1>1. IInv /\ [Next]_vars => IInv'
  <2> SUFFICES ASSUME IInv, [Next]_vars PROVE IInv'
    OBVIOUS
  <2>1. ASSUME NEW t \in Tasks, Step(t) PROVE IInv'
    BY <2>1, StepTyped, StepKept, StepUnchanged DEF IInv
  <2>2. CASE UNCHANGED vars
    BY <2>2 DEF vars, ghosts, IInv, TypeOK, RightTool, Kept, Unchanged, Full
  <2> QED
    BY <2>1, <2>2, WorldIInv, NextSteps
<1> QED
  BY InitIInv, <1>1, PTL DEF Spec

\* In every reachable state the variables have their types, and whatever is
\* measured or deleted has been found.
THEOREM TypeCorrect == Spec => []TypeOK
<1>1. IInv => TypeOK
  BY DEF IInv
<1> QED
  BY <1>1, IInvAlways, PTL

\* No unforced delete takes away a share that held data all the time, unless
\* its probe went unanswered.
THEOREM RailAlwaysHolds == Spec => RailHolds
<1>1. IInv /\ [Next]_vars =>
        [\A t \in Tasks :
           pc[t] = "delete" /\ pc'[t] = "done" /\ share # None /\ share' = None =>
             op[t].force \/ unanswered[t] \/ ~kept[t]]_vars
  BY DEF IInv, Kept
<1> QED
  BY <1>1, IInvAlways, PTL DEF Spec, RailHolds

\* A create that nobody disturbed makes the share asked for, or leaves the one
\* that is there.
THEOREM CreateAlwaysKeepsOrMakes == Spec => CreateKeepsOrMakes
<1>1. ASSUME IInv, Next, NEW t \in Tasks, op[t].tool = "create", alone[t],
             pc[t] \notin {"new", "done"}, pc'[t] = "done"
      PROVE  /\ result'[t] \in {"created", "exists"} => share' = op[t].config
             /\ before[t] # None => share' = before[t]
  <2>1. share = before[t] /\ DOMAIN result = Tasks /\ DOMAIN pc = Tasks
    BY <1>1 DEF IInv, Unchanged, TypeOK
  <2>2. Step(t)
    <3>1. ASSUME NEW u \in Tasks, Step(u), u # t PROVE pc'[t] = pc[t]
      BY <2>1, <3>1
         DEF Step, Begin, Refuse, CreateListed, DeleteListed, ProbeAnswered, ProbeFails,
             Created, Deleted, Raises, Goto, Return
    <3>2. FilesChange \/ ControlPanel => pc' = pc
      BY DEF FilesChange, ControlPanel
    <3> QED
      BY <1>1, <3>1, <3>2, NextSteps
  <2>3. CASE CreateListed(t)
    BY <2>1, <2>3, <1>1 DEF CreateListed, Goto, Return
  <2>4. CASE Created(t)
    BY <2>1, <2>4 DEF Created
  <2>5. CASE Raises(t)
    BY <2>1, <2>5 DEF Raises, Return
  <2>6. ~Begin(t) /\ ~Refuse(t) /\ ~DeleteListed(t) /\ ~ProbeAnswered(t) /\ ~ProbeFails(t)
          /\ ~Deleted(t)
    BY <1>1 DEF IInv, RightTool, Begin, Refuse, DeleteListed, ProbeAnswered, ProbeFails, Deleted
  <2> QED
    BY <2>2, <2>3, <2>4, <2>5, <2>6 DEF Step
<1>2. IInv /\ [Next]_vars =>
        [\A t \in Tasks :
           op[t].tool = "create" /\ alone[t] /\ pc[t] \notin {"new", "done"} /\ pc'[t] = "done" =>
             /\ result'[t] \in {"created", "exists"} => share' = op[t].config
             /\ before[t] # None => share' = before[t]]_vars
  BY <1>1
<1> QED
  BY <1>2, IInvAlways, PTL DEF Spec, CreateKeepsOrMakes
===============================================================================
