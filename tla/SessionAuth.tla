----------------------------- MODULE SessionAuth ------------------------------
(***************************************************************************)
(* auth.py, session.py and call_dsm of _helpers.py for one host with a     *)
(* password: the cached DSMSession, shared by every tool call (task) on    *)
(* that host.  A task gives up the event loop only while an HTTP call is   *)
(* in flight; each action is the code between two such points.             *)
(*                                                                         *)
(* External: the session table of DSM, which issues a session id per       *)
(* login, and ends a session on logout, on idling, or at will.             *)
(***************************************************************************)
EXTENDS Naturals

CONSTANTS
    Tasks,           \* tool calls that may be in flight together
    Sids,            \* bound: the sessions DSM issues in one run
    NoSid            \* Python's None

ASSUME NoSidAssumption == NoSid \notin Sids

VARIABLES
    up,              \* the MCP process runs
    session,         \* state.session
    dsm,             \* dsm[s]: "free" (not issued), "live" or "ended", on the NAS
    tool,            \* tool[t]: the tool t runs
    pc,              \* pc[t]: "idle", or the HTTP call t awaits
    sid,             \* sid[t]: the session in t's local variables
    result,          \* result[t]: how t's last tool call ended
    logins,          \* history: login calls t's tool call has sent
    clean,           \* history: FALSE once tasks overlapped, or a login's answer
                     \* or a logout was lost
    replaced,        \* history: the sessions that were cached as auth_login began
    cached           \* history: the sessions that are or were in the cache

vars == <<up, session, dsm, tool, pc, sid, result, logins, clean, replaced, cached>>

Tools == {"call", "auth_login", "auth_logout", "auth_whoami"}

\* "login" is sent, "granted" is the login answered by DSM but not yet seen by
\* the task, "version" is _fetch_dsm_major_minor, "api" the tool's own call.
Places == {"idle", "login", "granted", "version", "api", "logout"}

Results == {"none", "ok", "AuthFailed", "SessionFailed", "error"}

TypeOK ==
    /\ up      \in BOOLEAN
    /\ session \in Sids \cup {NoSid}
    /\ dsm     \in [Sids -> {"free", "live", "ended"}]
    /\ tool    \in [Tasks -> Tools]
    /\ pc      \in [Tasks -> Places]
    /\ sid     \in [Tasks -> Sids \cup {NoSid}]
    /\ result  \in [Tasks -> Results]
    /\ logins  \in [Tasks -> 0..1]
    /\ clean   \in BOOLEAN
    /\ replaced \in SUBSET Sids
    /\ cached  \in SUBSET Sids

Init ==
    /\ up      = TRUE
    /\ session = NoSid
    /\ dsm     = [s \in Sids |-> "free"]
    /\ tool    = [t \in Tasks |-> "call"]
    /\ pc      = [t \in Tasks |-> "idle"]
    /\ sid     = [t \in Tasks |-> NoSid]
    /\ result  = [t \in Tasks |-> "none"]
    /\ logins  = [t \in Tasks |-> 0]
    /\ clean   = TRUE
    /\ replaced = {}
    /\ cached  = {}

-------------------------------------------------------------------------------
(* The first stretch of each tool, up to its first await                   *)

Alone(t) == \A u \in Tasks \ {t} : pc[u] = "idle"

\* A tool starts and awaits `next` holding the session s.
Start(t, name, next, s) ==
    /\ up
    /\ pc[t] = "idle"
    /\ tool'   = [tool EXCEPT ![t] = name]
    /\ pc'     = [pc EXCEPT ![t] = next]
    /\ sid'    = [sid EXCEPT ![t] = s]
    /\ result' = [result EXCEPT ![t] = IF next = "idle" THEN "ok" ELSE "none"]
    /\ logins' = [logins EXCEPT ![t] = IF next = "login" THEN 1 ELSE 0]
    /\ clean'  = (clean /\ Alone(t))
    /\ UNCHANGED <<up, dsm, cached>>

\* call_dsm: ensure_session returns the cached session or logs in.
StartCall(t) ==
    /\ Start(t, "call", IF session = NoSid THEN "login" ELSE "api", session)
    /\ UNCHANGED <<session, replaced>>

\* auth_login: the cached session is dropped, not logged out, before the login.
StartLogin(t) ==
    /\ Start(t, "auth_login", "login", NoSid)
    /\ session'  = NoSid
    /\ replaced' = replaced \cup ({session} \ {NoSid})

\* auth_whoami: answered from the cache, whatever DSM thinks of that session.
StartWhoami(t) ==
    /\ Start(t, "auth_whoami", IF session = NoSid THEN "login" ELSE "idle", NoSid)
    /\ UNCHANGED <<session, replaced>>

\* auth_logout: nothing to do without a session.
StartLogout(t) ==
    /\ Start(t, "auth_logout", IF session = NoSid THEN "idle" ELSE "logout", session)
    /\ UNCHANGED <<session, replaced>>

-------------------------------------------------------------------------------
(* perform_login                                                           *)

Finish(t, how) ==
    /\ pc'     = [pc EXCEPT ![t] = "idle"]
    /\ sid'    = [sid EXCEPT ![t] = NoSid]
    /\ result' = [result EXCEPT ![t] = how]
    /\ UNCHANGED <<up, tool, logins, replaced, cached>>

\* DSM accepts the login.
DsmGrants(t) ==
    /\ pc[t] = "login"
    /\ \E s \in Sids :
         /\ dsm[s] = "free"
         /\ dsm' = [dsm EXCEPT ![s] = "live"]
         /\ sid' = [sid EXCEPT ![t] = s]
    /\ pc' = [pc EXCEPT ![t] = "granted"]
    /\ UNCHANGED <<up, session, tool, result, logins, clean, replaced, cached>>

\* The login failed: refused (AuthFailed, OtpRequired), another DSM error, or
\* no connection.  The exception leaves the tool; nothing is stored.
LoginFailed(t) ==
    /\ pc[t] = "login"
    /\ \E how \in {"AuthFailed", "error"} : Finish(t, how)
    /\ UNCHANGED <<session, dsm, clean>>

\* DSM's answer to a login it accepted is lost (DSMTransportError).
LoginLost(t) ==
    /\ pc[t] = "granted"
    /\ Finish(t, "error")
    /\ clean' = FALSE
    /\ UNCHANGED <<session, dsm>>

\* state.session is assigned before the version query is awaited: other tasks
\* use the session while that is in flight.
LoginStored(t) ==
    /\ pc[t] = "granted"
    /\ session' = sid[t]
    /\ cached'  = cached \cup {sid[t]}
    /\ pc'      = [pc EXCEPT ![t] = "version"]
    /\ UNCHANGED <<up, dsm, tool, sid, result, logins, clean, replaced>>

\* Mutants of VersionAnswered: call_dsm takes the session from the cache again;
\* the task waits for its session to be the cached one; the session is stored
\* once more, now that it has its version.
VersionAnsweredRereads(t) ==
    /\ pc[t] = "version"
    /\ \/ /\ tool[t] = "call"
          /\ pc'  = [pc EXCEPT ![t] = "api"]
          /\ sid' = [sid EXCEPT ![t] = session]
          /\ UNCHANGED <<up, tool, result, logins, replaced, cached>>
       \/ tool[t] # "call" /\ Finish(t, "ok")
    /\ UNCHANGED <<session, dsm, clean>>

VersionAnsweredWaits(t) ==
    /\ pc[t] = "version"
    /\ session = sid[t]
    /\ \/ /\ tool[t] = "call"
          /\ pc' = [pc EXCEPT ![t] = "api"]
          /\ UNCHANGED <<up, tool, sid, result, logins, replaced, cached>>
       \/ tool[t] # "call" /\ Finish(t, "ok")
    /\ UNCHANGED <<session, dsm, clean>>

VersionAnsweredStores(t) ==
    /\ pc[t] = "version"
    /\ session' = sid[t]
    /\ \/ /\ tool[t] = "call"
          /\ pc' = [pc EXCEPT ![t] = "api"]
          /\ UNCHANGED <<up, tool, sid, result, logins, replaced, cached>>
       \/ tool[t] # "call" /\ Finish(t, "ok")
    /\ UNCHANGED <<dsm, clean>>

\* _fetch_dsm_major_minor ends; it never raises.  call_dsm goes on with the
\* session ensure_session returned, the other tools return.
VersionAnswered(t) ==
    /\ pc[t] = "version"
    /\ \/ /\ tool[t] = "call"
          /\ pc' = [pc EXCEPT ![t] = "api"]
          /\ UNCHANGED <<up, tool, sid, result, logins, replaced, cached>>
       \/ tool[t] # "call" /\ Finish(t, "ok")
    /\ UNCHANGED <<session, dsm, clean>>

-------------------------------------------------------------------------------
(* The tool's own call, and logout                                         *)

\* DSMHttpClient.call: a session DSM has ended gives error 107 or 119, which
\* raises SessionFailed.  Nothing here touches the cached session.
ApiAnswered(t) ==
    /\ pc[t] = "api"
    /\ Finish(t, IF dsm[sid[t]] = "live" THEN "ok" ELSE "SessionFailed")
    /\ UNCHANGED <<session, dsm, clean>>

\* Any other DSM error, a timeout, an answer that is not JSON.  No retry.
ApiFailed(t) ==
    /\ pc[t] = "api"
    /\ Finish(t, "error")
    /\ UNCHANGED <<session, dsm, clean>>

\* Mutant of LogoutAnswered: the cache is cleared, DSM is not told.
LogoutLocally(t) ==
    /\ pc[t] = "logout"
    /\ session' = NoSid
    /\ Finish(t, "ok")
    /\ UNCHANGED <<dsm, clean>>

\* perform_logout: the session cached when the call was sent is ended, the
\* one cached when it has been answered is dropped.
LogoutAnswered(t) ==
    /\ pc[t] = "logout"
    /\ dsm'     = [dsm EXCEPT ![sid[t]] = "ended"]
    /\ session' = NoSid
    /\ Finish(t, "ok")
    /\ UNCHANGED clean

\* The logout call failed, which is suppressed.
LogoutLost(t) ==
    /\ pc[t] = "logout"
    /\ session' = NoSid
    /\ clean'   = FALSE
    /\ Finish(t, "ok")
    /\ UNCHANGED dsm

-------------------------------------------------------------------------------

\* DSM ends a session: idle time, a restart, another login of the account.
DsmEnds(s) ==
    /\ dsm[s] = "live"
    /\ dsm' = [dsm EXCEPT ![s] = "ended"]
    /\ UNCHANGED <<up, session, tool, pc, sid, result, logins, clean, replaced, cached>>

\* main(): the server stops, its tasks are cancelled, and SessionCache.aclose
\* closes the clients and drops the sessions.
Shutdown ==
    /\ up
    /\ up'      = FALSE
    /\ session' = NoSid
    /\ pc'      = [t \in Tasks |-> "idle"]
    /\ sid'     = [t \in Tasks |-> NoSid]
    /\ UNCHANGED <<dsm, tool, result, logins, clean, replaced, cached>>

Continue(t) ==
    \/ DsmGrants(t) \/ LoginFailed(t) \/ LoginLost(t) \/ LoginStored(t)
    \/ VersionAnswered(t)
    \/ ApiAnswered(t) \/ ApiFailed(t)
    \/ LogoutAnswered(t) \/ LogoutLost(t)

Next ==
    \/ \E t \in Tasks :
         StartCall(t) \/ StartLogin(t) \/ StartWhoami(t) \/ StartLogout(t) \/ Continue(t)
    \/ \E s \in Sids : DsmEnds(s)
    \/ Shutdown

Spec == Init /\ [][Next]_vars

\* Every HTTP call ends: httpx has a timeout on each.
FairSpec == Spec /\ \A t \in Tasks : WF_vars(Continue(t))

-------------------------------------------------------------------------------
(* Properties                                                              *)

\* A request in flight carries a session DSM has issued, although a logout or
\* a login of another task may have emptied the cache since the task looked.
InFlightCarriesSession ==
    \A t \in Tasks : pc[t] \in {"granted", "version", "api", "logout"} =>
        sid[t] # NoSid /\ dsm[sid[t]] # "free"

\* A tool call sends the password at most once, whatever fails (DSM blocks an
\* address after a few failures), and auth_login really does send it: it is
\* never answered from a session that another task has cached meanwhile.
LoginsSent ==
    \A t \in Tasks :
        /\ logins[t] <= 1
        /\ tool[t] = "auth_login" /\ result[t] = "ok" => logins[t] = 1

\* Sessions that live on the NAS, and that no one here can use or end.
Orphans == {s \in Sids : /\ dsm[s] = "live"
                         /\ session # s
                         /\ \A t \in Tasks : sid[t] # s}

\* Used by one task at a time and without a lost answer, the process leaves no
\* session behind on the NAS but those that auth_login replaced, through any
\* sequence of calls, failed logins and sessions DSM ends: every other session
\* it opened is cached or has been ended.
NoOrphanWhenClean == up /\ clean => Orphans \subseteq replaced

\* A session that DSM has answered 107 or 119 for is invalidated: it is not
\* cached any longer when the tool call that was told so ends (session.py and
\* DESIGN.md say so, and that a re-login and a retry come first).
DeadSessionInvalidated ==
    [][\A t \in Tasks :
         result[t] # "SessionFailed" /\ result'[t] = "SessionFailed"
           => session' # sid[t]]_vars

\* Every tool call ends.
ToolsReturn == \A t \in Tasks : pc[t] # "idle" ~> pc[t] = "idle"

\* A session that has left the cache never comes back to it: one that was logged
\* out, dropped by auth_login or replaced is not put there again by a task whose
\* login, version query or call was in flight meanwhile.
NoResurrection == [][session' \notin {session, NoSid} => session' \notin cached]_vars
===============================================================================
