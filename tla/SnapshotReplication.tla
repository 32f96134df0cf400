-------------------------- MODULE SnapshotReplication --------------------------
(***************************************************************************)
(* The three tools of snapshot_replication.py.  Each asks DSM's web API,   *)
(* which knows the replication plans only once DSM has loaded ("hydrated") *)
(* that subsystem, and falls back to one or two SQLite queries over SSH.   *)
(* The tools only read, and so do not disturb each other: this is one call,*)
(* while plans and replicas come and go.                                   *)
(*                                                                         *)
(* External: the plans with their shares, the rows of snap_replica.db, and *)
(* what of them DSM has loaded.  That the web API's activity is these rows,*)
(* too, once DSM has loaded them, is assumed of DSM.                       *)
(***************************************************************************)
EXTENDS Naturals, FiniteSetsExt

CONSTANTS
    Plans,           \* ids of replication plans
    Shares,          \* shares they replicate
    NoShare,         \* a plan's share is not known, or it has none (a LUN)
    Replicas,        \* ids of the rows of snap_replica.db
    Limits,          \* values of the limit parameter
    MaxChanges       \* bound: changes of plans and replicas

ASSUME NoShareAssumption == NoShare \notin Shares
ASSUME ReplicasAssumption == IsFiniteSet(Replicas)
ASSUME LimitsAssumption == Limits \subseteq Nat \ {0}
ASSUME MaxChangesAssumption == MaxChanges \in Nat

PlanRows  == [plan : Plans, share : Shares \cup {NoShare}]
EventRows == [replica : Replicas, kind : {"plan_status", "size_calculate"}]

VARIABLES
    plans,           \* the plans DSM has: a set of PlanRows, one per id
    activity,        \* the rows of the two tables of snap_replica.db
    hydrated,        \* the web API knows them
    changes,         \* how often these have changed
    query,           \* the call
    stage,           \* "new", the remote call that is awaited, or how it ended
    reply,           \* the rows found so far
    warned,          \* what the warnings are about
    ever, steady,    \* history: rows that were there at some moment, all the time
    failed           \* history: a query failed

world == <<plans, activity, hydrated, changes>>
replicationVars == <<world, query, stage, reply, warned, ever, steady, failed>>

Queries == [tool : {"list_plans"}]
         \cup [tool : {"plan_status"}, plan : Plans]
         \cup [tool : {"recent_activity"}, limit : Limits]

QueryEnded == {"ok", "not_found", "error"}

ReplicationTypeOK ==
    /\ plans \in SUBSET PlanRows /\ activity \in SUBSET EventRows
    /\ hydrated \in BOOLEAN
    /\ changes \in 0..MaxChanges
    /\ query \in Queries
    /\ stage \in {"new", "web", "plans", "shares", "plan", "replicas", "sizes"} \cup QueryEnded
    /\ reply \in SUBSET (PlanRows \cup EventRows)
    /\ warned \in SUBSET {"unregistered", "failed"}
    /\ ever   \in SUBSET (PlanRows \cup EventRows)
    /\ steady \in SUBSET ever
    /\ failed \in BOOLEAN

\* One row per plan.
Tables == {T \in SUBSET PlanRows : \A a, b \in T : a.plan = b.plan => a = b}

ReplicationInit ==
    /\ plans \in Tables
    /\ activity \in SUBSET EventRows
    /\ hydrated \in BOOLEAN
    /\ changes = 0
    /\ query \in Queries
    /\ stage = "new"
    /\ reply = {} /\ warned = {}
    /\ ever = {} /\ steady = {}
    /\ failed = FALSE

-------------------------------------------------------------------------------

\* The call goes on, or ends, with these rows and warnings.
Goes(next, rows, words) ==
    /\ stage'  = next
    /\ reply' = rows
    /\ warned' = warned \cup words
    /\ UNCHANGED <<world, query, ever, steady>>

QueryBegins ==
    /\ stage = "new"
    /\ stage' = "web"
    /\ ever' = plans \cup activity /\ steady' = plans \cup activity
    /\ UNCHANGED <<world, query, reply, warned, failed>>

\* SYNO.DR.Plan list: it exists on every build, and has no rows while DSM has not
\* loaded the plans; then replica.db is asked.
PlansAnswered ==
    /\ stage = "web" /\ query.tool = "list_plans"
    /\ IF hydrated /\ plans # {} THEN Goes("ok", plans, {}) ELSE Goes("plans", {}, {})
    /\ UNCHANGED failed

AskedPlan == {r \in plans : query.tool = "plan_status" /\ r.plan = query.plan}

\* Mutant of GetAnswered: an unregistered get is the last word.
GetAnsweredOnly ==
    /\ stage = "web" /\ query.tool = "plan_status"
    /\ \/ hydrated /\ AskedPlan # {} /\ Goes("ok", AskedPlan, {})
       \/ hydrated /\ AskedPlan = {} /\ (Goes("plan", {}, {}) \/ Goes("error", {}, {}))
       \/ ~hydrated /\ Goes("not_found", {}, {"unregistered"})
    /\ UNCHANGED failed

\* SYNO.DR.Plan get: the plan; or no data, or an error, if there is none; or
\* UnsupportedDSMVersion while DSM has not loaded the plans.
GetAnswered ==
    /\ stage = "web" /\ query.tool = "plan_status"
    /\ \/ hydrated /\ AskedPlan # {} /\ Goes("ok", AskedPlan, {})
       \/ hydrated /\ AskedPlan = {} /\ (Goes("plan", {}, {}) \/ Goes("error", {}, {}))
       \/ ~hydrated /\ Goes("plan", {}, {"unregistered"})
    /\ UNCHANGED failed

\* The first `limit` rows of one table followed by another; the order within a
\* table is left open.
Limited(first, second) ==
    {rows \in kSubset(Min({query.limit, Cardinality(first \cup second)}), first \cup second) :
        first \subseteq rows \/ rows \subseteq first}

\* SYNO.DR.Plan list_activity, where it is registered and has anything to say.
ActivityAnswered ==
    /\ stage = "web" /\ query.tool = "recent_activity"
    /\ \/ /\ hydrated
          /\ activity # {}
          /\ \E rows \in Limited(activity, {}) : Goes("ok", rows, {})
       \/ Goes("replicas", {}, IF hydrated THEN {} ELSE {"unregistered"})
    /\ UNCHANGED failed

\* The web call raises anything else.
WebFailed ==
    /\ stage = "web"
    /\ Goes("error", {}, {})
    /\ UNCHANGED failed

-------------------------------------------------------------------------------
(* The queries of replica.db and snap_replica.db                           *)

\* _list_plans_from_db: the plans; their shares are in another table.
PlansQueried ==
    /\ stage = "plans"
    /\ Goes("shares", {[r EXCEPT !.share = NoShare] : r \in plans}, {})
    /\ UNCHANGED failed

SharesQueried ==
    /\ stage = "shares"
    /\ Goes("ok", {s \in plans : \E r \in reply : r.plan = s.plan}
                   \cup {r \in reply : \A s \in plans : s.plan # r.plan}, {})
    /\ UNCHANGED failed

\* _plan_status_from_db, which does not look for the share.
PlanQueried ==
    /\ stage = "plan"
    /\ IF AskedPlan = {} THEN Goes("not_found", {}, {})
       ELSE Goes("ok", {[r EXCEPT !.share = NoShare] : r \in AskedPlan}, {})
    /\ UNCHANGED failed

OfKind(kind) == {e \in activity : e.kind = kind}

\* Mutant of ReplicasQueried: the rows are cut before there are others to add.
ReplicasQueriedOnly ==
    /\ stage = "replicas"
    /\ \E rows \in Limited(OfKind("plan_status"), {}) :
         Goes(IF rows = {} THEN "sizes" ELSE "ok", rows, {})
    /\ UNCHANGED failed

\* _activity_from_db
ReplicasQueried ==
    /\ stage = "replicas"
    /\ Goes("sizes", OfKind("plan_status"), {})
    /\ UNCHANGED failed

\* events[:limit] keeps the rows without a time before those that have one.
SizesQueried ==
    /\ stage = "sizes"
    /\ \E rows \in Limited(reply, OfKind("size_calculate")) : Goes("ok", rows, {})
    /\ UNCHANGED failed

\* Mutant of QueryFails: an empty table and a failed query are the same.
QueryFailsSilently ==
    /\ stage \in {"plans", "shares", "plan", "replicas", "sizes"}
    /\ failed' = TRUE
    /\ CASE stage = "plans"    -> Goes("ok", {}, {})
         [] stage = "shares"   -> Goes("ok", reply, {})
         [] stage = "plan"     -> Goes("not_found", {}, {})
         [] stage = "replicas" -> Goes("sizes", {}, {})
         [] stage = "sizes"    -> \E rows \in Limited(reply, {}) : Goes("ok", rows, {})

\* _sqlite_query ends in an error: no connection, a bad exit status (that of a
\* channel that died included), output that is not JSON.  Every caller warns of
\* it, but plan_status does not get to show its warnings.
QueryFails ==
    /\ stage \in {"plans", "shares", "plan", "replicas", "sizes"}
    /\ failed' = TRUE
    /\ CASE stage = "plans"    -> Goes("ok", {}, {"failed"})
         [] stage = "shares"   -> Goes("ok", reply, {"failed"})
         [] stage = "plan"     -> Goes("not_found", {}, {"failed"})
         [] stage = "replicas" -> Goes("sizes", {}, {"failed"})
         [] stage = "sizes"    -> \E rows \in Limited(reply, {}) : Goes("ok", rows, {"failed"})

-------------------------------------------------------------------------------
(* DSM                                                                     *)

\* A plan is made, changed or deleted; a replica comes, goes or is measured.
Change ==
    /\ changes < MaxChanges
    /\ changes' = changes + 1
    /\ \/ \E p \in Plans, S \in SUBSET (Shares \cup {NoShare}) :
            /\ Cardinality(S) <= 1
            /\ plans' = {r \in plans : r.plan # p} \cup {[plan |-> p, share |-> s] : s \in S}
            /\ UNCHANGED activity
       \/ \E e \in EventRows :
            /\ activity' \in {activity \cup {e}, activity \ {e}}
            /\ UNCHANGED plans
    /\ ever'   = ever \cup plans' \cup activity'
    /\ steady' = steady \cap (plans' \cup activity')
    /\ UNCHANGED <<hydrated, query, stage, reply, warned, failed>>

\* DSM loads the subsystem.
Hydrate ==
    /\ ~hydrated
    /\ hydrated' = TRUE
    /\ UNCHANGED <<plans, activity, changes, query, stage, reply, warned, ever, steady, failed>>

ReplicationNext ==
    \/ QueryBegins
    \/ PlansAnswered \/ GetAnswered \/ ActivityAnswered \/ WebFailed
    \/ PlansQueried \/ SharesQueried \/ PlanQueried
    \/ ReplicasQueried \/ SizesQueried \/ QueryFails
    \/ Change \/ Hydrate

ReplicationSpec == ReplicationInit /\ [][ReplicationNext]_replicationVars

-------------------------------------------------------------------------------
(* Properties                                                              *)

\* Whatever is reported was there while the call ran, plans with the shares they
\* had.  A list leaves a share open only with a warning, or if the plan changed
\* under the two queries; the status of a plan from the database never has it.
AnswersTrue ==
    stage = "ok" =>
        \A r \in reply :
            \/ r \in ever
            \/ /\ r \in PlanRows /\ r.share = NoShare
               /\ \E e \in ever \cap PlanRows : e.plan = r.plan
               /\ \/ query.tool = "plan_status" \/ "failed" \in warned
                  \/ \A e \in steady \cap PlanRows : e.plan # r.plan

\* And what was there all the time is reported, by a list that warns of no
\* failure, or by an activity that is shorter than its limit: a subsystem DSM has
\* not loaded yet hides nothing.
AnswersComplete ==
    /\ stage = "ok" /\ "failed" \notin warned /\ query.tool = "list_plans" =>
         steady \cap PlanRows \subseteq reply
    /\ stage = "ok" /\ "failed" \notin warned /\ query.tool = "recent_activity" =>
         /\ Cardinality(reply) <= query.limit
         /\ Cardinality(reply) < query.limit => steady \cap EventRows \subseteq reply

\* A plan that was there all the time is reported as "not found" only when the
\* database could not be asked (which the answer then does not say).
NotFoundIsTrue ==
    stage = "not_found" => failed \/ \A r \in steady \cap PlanRows : r.plan # query.plan
===============================================================================
