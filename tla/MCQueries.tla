------------------------------- MODULE MCQueries -------------------------------
(***************************************************************************)
(* Instances of what only reads, for TLC: the lookup of settings, and the  *)
(* tools of raid.py, network.py and snapshot_replication.py.  None has to  *)
(* do with another, so that in a behaviour one of them does something, and *)
(* the others wait in one of their initial states.                         *)
(***************************************************************************)
EXTENDS Settings, Mdstat, Network, SnapshotReplication, TLC

vars == <<settingsVars, mdstatVars, networkVars, replicationVars>>

-------------------------------------------------------------------------------
(* Settings: three hosts whose names collide in every way two names can, at *)
(* most two variables, and a file with at most one host.                    *)

MCWords == AliasWords \cup {"NAS"}

Nas  == [words |-> <<"NAS">>, sep |-> ""]
Dash == [words |-> <<"NAS", "SSH">>, sep |-> "-"]
Dot  == [words |-> <<"NAS", "SSH">>, sep |-> "."]
MCHosts == {Nas, Dash, Dot}

Settable == {[host |-> h, alias |-> a, value |-> v] :
                 h \in MCHosts, a \in {<<"IP">>, <<"HOST">>, <<"ACCOUNT">>}, v \in {"", "e"}}
        \cup {[host |-> h, alias |-> a, value |-> v] :
                 h \in MCHosts, a \in {<<"PORT">>, <<"SSH", "PORT">>}, v \in {"e", "bad"}}
        \cup {[host |-> h, alias |-> <<"VERIFY", "TLS">>, value |-> v] : h \in MCHosts, v \in {"yes", "no"}}

\* A variable has one value.
MCEnvirons == {s \in {{x, y} : x, y \in Settable} \cup {{}} :
                  \A x, y \in s : x.host = y.host /\ x.alias = y.alias => x = y}

MCTables == {[ip |-> "f", account |-> "f"],
           [ip |-> "", host |-> "f", account |-> "f"],
           [address |-> "f", username |-> "f", port |-> "f", verify_tls |-> "off"],
           [account |-> "f", ssh_port |-> "bad"],
           [account |-> "f", verify_tls |-> "true"]}

MCFiles == {[defaults |-> d, hosts |-> t] :
               d \in {<<>>, [port |-> "d", verify_tls |-> "off"]},
               t \in {<<>>} \cup {(h :> x) : h \in MCHosts, x \in MCTables}}

-------------------------------------------------------------------------------
(* Arrays: one or two disks, the second with any marks the kernel prints.   *)

MCDisks == {<<Member("sda", <<>>)>>} \cup
         {<<Member("sda", <<>>), Member("sdb", k)>> :
             k \in {<<>>, <<"F">>, <<"S">>, <<"S", "R">>, <<"J">>, <<"W">>, <<"W", "F">>}}

Syncs == {<<"none", FALSE>>, <<"resync", FALSE>>, <<"recovery", FALSE>>, <<"check", FALSE>>,
          <<"resync", TRUE>>}

Array(dev, run, ro, level, members, short, sync) ==
    [dev |-> dev, run |-> run, ro |-> ro, level |-> level, members |-> members, short |-> short,
     sync |-> sync[1], delayed |-> sync[2]]

Arrays(dev) ==
         {Array(dev, "active", r, "raid1", m, s, y) :
             r \in BOOLEAN, m \in MCDisks, s \in BOOLEAN, y \in Syncs}
    \cup {Array(dev, "active", r, "linear", m, FALSE, <<"none", FALSE>>) : r \in BOOLEAN, m \in MCDisks}
    \cup {Array(dev, "inactive", FALSE, "none", m, FALSE, <<"none", FALSE>>) : m \in MCDisks}

MCDevices   == {"md1", "md2"}
MCDiskNames == {"sda", "sdb"}
MCLevels    == {"raid1", "linear", "none"}

MCListings == {<<a, b>> : a \in Arrays("md2"), b \in Arrays("md1")}

-------------------------------------------------------------------------------
(* Network and SnapshotReplication: two of everything.                      *)

\* The interfaces and the speeds are interchangeable.
Symmetry == Permutations(Nics) \cup Permutations(Speeds)

-------------------------------------------------------------------------------

\* The initial states in which the others wait.
SettingsWait     == environ = {} /\ config = [defaults |-> <<>>, hosts |-> <<>>] /\ serving = FALSE
MdstatWaits      == arrays = <<>>
NetworkWaits     == /\ step = "new" /\ flips = 0 /\ request = [tool |-> "list"]
                    /\ link = [i \in Nics |-> [state |-> "down", speed |-> Negative]]
ReplicationWaits == /\ stage = "new" /\ changes = 0 /\ query = [tool |-> "list_plans"]
                    /\ plans = {} /\ activity = {} /\ hydrated = FALSE

OnlySettings    == MdstatWaits /\ NetworkWaits /\ ReplicationWaits
OnlyMdstat      == SettingsWait /\ NetworkWaits /\ ReplicationWaits
OnlyNetwork     == SettingsWait /\ MdstatWaits /\ ReplicationWaits
OnlyReplication == SettingsWait /\ MdstatWaits /\ NetworkWaits

Init ==
    /\ OnlySettings \/ OnlyMdstat \/ OnlyNetwork \/ OnlyReplication
    /\ SettingsInit /\ MdstatInit /\ NetworkInit /\ ReplicationInit

\* The tools that resolve a host.
Resolve ==
    /\ OnlySettings
    /\ SettingsNext
    /\ UNCHANGED <<mdstatVars, networkVars, replicationVars>>

\* raid_state
Parse ==
    /\ OnlyMdstat
    /\ MdstatWaits
    /\ raid_state
    /\ UNCHANGED <<settingsVars, networkVars, replicationVars>>

\* network_list_interfaces, network_get_interface, raid_hardware_info
ReadLinks ==
    /\ OnlyNetwork
    /\ NetworkNext
    /\ UNCHANGED <<settingsVars, mdstatVars, replicationVars>>

\* snapshot_replication_list_plans, _plan_status, _recent_activity
Replicate ==
    /\ OnlyReplication
    /\ ReplicationNext
    /\ UNCHANGED <<settingsVars, mdstatVars, networkVars>>

Next == Resolve \/ Parse \/ ReadLinks \/ Replicate
Spec == Init /\ [][Next]_vars
===============================================================================
