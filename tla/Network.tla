-------------------------------- MODULE Network --------------------------------
(***************************************************************************)
(* network_list_interfaces and network_get_interface of network.py, and    *)
(* raid_hardware_info of raid.py, whose NIC table is the former's.  DSM's  *)
(* web API answers from a cache, which may be old; the links are therefore *)
(* looked up in sysfs over SSH, one interface after the other, and the two *)
(* are merged.  The tools only read: this is one call, while links change. *)
(*                                                                         *)
(* External: the links, DSM's cache, what of sysfs can be read.            *)
(***************************************************************************)
EXTENDS Naturals

CONSTANTS
    Nics,            \* interfaces
    Speeds,          \* speeds, positive ones
    Negative,        \* a speed that is none: -1 in sysfs, or anything up to 0
    Absent,          \* no speed, no interface
    MaxFlips         \* bound: changes of links

ASSUME AbsentAssumption == Absent \notin Nics /\ Absent \notin Speeds
ASSUME NegativeAssumption == Negative \notin Speeds /\ Negative # Absent
ASSUME MaxFlipsAssumption == MaxFlips \in Nat

\* A link as the kernel has it: without a speed if it is down.  Of virtual ones
\* it does not know the state.
States == {"up", "down", "unknown"}
Links ==
    [state : {"up"}, speed : Speeds]
        \cup [state : {"down"}, speed : {Negative}]
        \cup [state : {"unknown"}, speed : Speeds \cup {Negative}]

\* A view of a link, and what the web API can make of one.
Views == [state : States, speed : Speeds \cup {Negative, Absent}]
WebViews(l) ==
    [state : {l.state}, speed : IF l.speed = Negative THEN {Negative, Absent} ELSE {l.speed}]

VARIABLES
    link,            \* the links
    flips,           \* how often links have changed
    request,         \* the call
    step,            \* "new", the remote call that is awaited, or how it ended
    web,             \* the view that was answered
    todo,            \* interfaces sysfs has not been read for
    got,             \* got[i]: the merged view of i
    flagged,         \* interfaces with a "speed mismatch" warning
    been,            \* history: been[i], the links i has been since the call began
    unread,          \* history: what sysfs did not tell, as <<interface, field>>
    dropped          \* history: the NIC table was given up

outside == <<link, flips>>
networkVars == <<outside, request, step, web, todo, got, flagged, been, unread, dropped>>

SysfsFields == {"speed", "operstate"}
Requests == [tool : {"list", "hardware"}] \cup [tool : {"get"}, name : Nics \cup {Absent}]

NetworkTypeOK ==
    /\ link  \in [Nics -> Links]
    /\ flips \in 0..MaxFlips
    /\ request \in Requests
    /\ step \in {"new", "system", "web", "sysfs", "ethtool", "ok", "error"}
    /\ web \in [Nics -> Views]
    /\ todo \in SUBSET Nics
    /\ got  \in [Nics -> Views]
    /\ flagged \in SUBSET Nics
    /\ been \in [Nics -> SUBSET Links]
    /\ unread \in SUBSET (Nics \X SysfsFields)
    /\ dropped \in BOOLEAN

Unknown == [state |-> "down", speed |-> Absent]

NetworkInit ==
    /\ link  \in [Nics -> Links]
    /\ flips = 0
    /\ request \in Requests
    /\ step = "new"
    /\ web = [i \in Nics |-> Unknown] /\ got = [i \in Nics |-> Unknown]
    /\ todo = {} /\ flagged = {} /\ unread = {}
    /\ been = [i \in Nics |-> {}]
    /\ dropped = FALSE

-------------------------------------------------------------------------------

\* raid_hardware_info asks for the system first.
ReadBegins ==
    /\ step = "new"
    /\ step' = IF request.tool = "hardware" THEN "system" ELSE "web"
    /\ been' = [i \in Nics |-> {link[i]}]
    /\ UNCHANGED <<outside, request, web, todo, got, flagged, unread, dropped>>

SystemAnswered ==
    /\ step = "system"
    /\ step' = "web"
    /\ UNCHANGED <<outside, request, web, todo, got, flagged, been, unread, dropped>>

\* Interface.list: the answer is from DSM's cache, which may be of any age, so that
\* it may be a view of any links.
WebAnswered ==
    /\ step = "web"
    /\ step' = "sysfs"
    /\ web' \in [Nics -> UNION {WebViews(l) : l \in Links}]
    /\ todo' = Nics
    /\ UNCHANGED <<outside, request, got, flagged, been, unread, dropped>>

\* The call raises.  raid_hardware_info drops its NIC table then, in silence.
Raises ==
    /\ step \in {"system", "web", "sysfs", "ethtool"}
    /\ IF request.tool = "hardware" /\ step # "system"
         THEN step' = "ok" /\ dropped' = TRUE
         ELSE step' = "error" /\ UNCHANGED dropped
    /\ UNCHANGED <<outside, request, web, todo, got, flagged, been, unread>>

\* Mutant of MergedIface: the speed of the web API comes first.
MergedIfaceWebFirst(w, s) ==
    [state |-> IF "operstate" \notin DOMAIN s THEN w.state
               ELSE IF s.operstate = "up" THEN "up" ELSE "down",
     speed |-> IF w.speed \notin Speeds /\ "speed" \in DOMAIN s THEN s.speed ELSE w.speed]

\* _merge_iface: sysfs where it told something, and the speed was positive.  What
\* is not up for sysfs is down, also a link of which the kernel does not know.
MergedIface(w, s) ==
    [state |-> IF "operstate" \notin DOMAIN s THEN w.state
               ELSE IF s.operstate = "up" THEN "up" ELSE "down",
     speed |-> IF "speed" \in DOMAIN s /\ s.speed \in Speeds THEN s.speed
               ELSE IF w.speed \in Speeds THEN w.speed ELSE Absent]

\* Mutant of Mismatch: the merged speed is compared, not that of sysfs, and only
\* if the link is up.
MismatchUp(w, s) == MergedIface(w, s).state = "up" /\ MergedIface(w, s).speed # w.speed /\ w.speed # Absent

\* _speed_mismatch_warning
Mismatch(w, s) == "speed" \in DOMAIN s /\ s.speed \in Speeds /\ w.speed \notin {Absent, s.speed}

\* _read_sysfs_for_iface: some of the files, all in one command, or none if there
\* is no answer.  The speed of a link that is down is negative, or cannot be read.
SysfsRead(i) ==
    /\ step = "sysfs" /\ i \in todo
    /\ \E read \in SUBSET SysfsFields :
         LET s == [f \in read |-> IF f = "speed" THEN link[i].speed ELSE link[i].state]
         IN  /\ got'    = [got EXCEPT ![i] = MergedIface(web[i], s)]
             /\ flagged' = IF Mismatch(web[i], s) THEN flagged \cup {i} ELSE flagged
             /\ unread' = unread \cup ({i} \X (SysfsFields \ read))
    /\ todo' = todo \ {i}
    /\ UNCHANGED <<outside, request, step, web, been, dropped>>

\* All interfaces are read, also when only one is asked for.
SysfsOver ==
    /\ step = "sysfs" /\ todo = {}
    /\ step' = CASE request.tool # "get" -> "ok"
               [] request.tool = "get" /\ request.name = Absent -> "error"
               [] OTHER -> "ethtool"
    /\ UNCHANGED <<outside, request, web, todo, got, flagged, been, unread, dropped>>

\* ethtool adds driver and firmware, if it answers; the other interfaces, and
\* their warnings, are not shown.
EthtoolOver ==
    /\ step = "ethtool"
    /\ step' = "ok"
    /\ flagged' = flagged \cap {request.name}
    /\ UNCHANGED <<outside, request, web, todo, got, been, unread, dropped>>

-------------------------------------------------------------------------------

LinkChanges ==
    /\ flips < MaxFlips
    /\ flips' = flips + 1
    /\ \E i \in Nics, l \in Links : link' = [link EXCEPT ![i] = l]
    /\ been' = [i \in Nics |-> IF step = "new" THEN {} ELSE been[i] \cup {link'[i]}]
    /\ UNCHANGED <<request, step, web, todo, got, flagged, unread, dropped>>

NetworkNext ==
    \/ ReadBegins \/ SystemAnswered \/ WebAnswered \/ Raises
    \/ \E i \in Nics : SysfsRead(i)
    \/ SysfsOver \/ EthtoolOver
    \/ LinkChanges

NetworkSpec == NetworkInit /\ [][NetworkNext]_networkVars

-------------------------------------------------------------------------------
(* Properties                                                              *)

Shown == IF step # "ok" \/ dropped THEN {} ELSE IF request.tool = "get" THEN {request.name} ELSE Nics

\* "We always cross-check": what is shown is so of the link at some moment of the
\* call, however old the web API's view is, as far as sysfs told.  What is shown as
\* up has been up and what is shown as down has not; the speed is one the link had.
\* Only a link without a speed is shown with the web API's, which may be old.
LinkTrue ==
    \A i \in Shown :
        /\ <<i, "operstate">> \notin unread =>
             \E l \in been[i] : got[i].state = IF l.state = "up" THEN "up" ELSE "down"
        /\ <<i, "speed">> \notin unread =>
             \E l \in been[i] :
                 \/ got[i].speed = l.speed
                 \/ l.speed = Negative /\ got[i].speed \in {web[i].speed, Absent}

\* "speed (Mb/s, null if down)": a link that was down all the while, and of which
\* sysfs told everything, is shown without a speed.
NullIfDown ==
    \A i \in Shown :
        (\A l \in been[i] : l.state = "down") /\ ({i} \X SysfsFields) \cap unread = {} =>
            got[i].speed = Absent

\* A speed that is shown although the web API said another one has a warning, in
\* whichever of the tools.
MismatchTold ==
    \A i \in Shown :
        got[i].speed # Absent /\ web[i].speed \notin {Absent, got[i].speed} => i \in flagged
===============================================================================
