------------------------------- MODULE Settings --------------------------------
(***************************************************************************)
(* A server that resolves the settings of hosts (Configuration), and what  *)
(* whoever set it up means by an environment and a file.                   *)
(*                                                                         *)
(* External: the environment and the file, which do not change while the   *)
(* server runs.                                                            *)
(***************************************************************************)
EXTENDS Configuration

CONSTANTS
    Words,      \* what names are made of
    Hosts,      \* the hosts that are asked for
    Environs,   \* the environments: each a set of [host, alias, value]
    Files       \* the configuration files

\* The words of the variables' names.
AliasWords ==
    {"IP", "HOST", "ADDRESS", "ACCOUNT", "USERNAME", "PASSWORD", "PASS", "OTP", "CODE",
     "PORT", "USE", "HTTPS", "VERIFY", "TLS", "CONNECT", "TIMEOUT", "READ", "SSH",
     "USER", "KEY", "PATH", "HOME", "VOLUME"}

\* A variable has one value.
SetUp(set) ==
    /\ \A s \in set : s.host.words \in Seq(Words) /\ s.alias \in Seq(Words) /\ s.value # None
    /\ \A s, r \in set : s.host = r.host /\ s.alias = r.alias => s.value = r.value

\* What is written is a value, and one of TOML's two where a boolean belongs.
IsValue(f, v) == v # None /\ (f \in Bools => v \in {"true", "off"})

Written(file) ==
    /\ DOMAIN file.defaults \subseteq Bools \cup Numbers
    /\ \A f \in DOMAIN file.defaults : IsValue(f, file.defaults[f])
    /\ \A h \in DOMAIN file.hosts : \A k \in DOMAIN file.hosts[h] : IsValue(k, file.hosts[h][k])

ASSUME SettingsAssumption ==
    /\ AliasWords \subseteq Words
    /\ \A h \in Hosts : h.words \in Seq(Words)
    /\ \A set \in Environs : SetUp(set)
    /\ \A file \in Files : Written(file)

VARIABLES
    environ,    \* the environment
    config,     \* the file
    serving,    \* the file was loaded
    asked,      \* the host that was asked for last, in a set, or none
    answer      \* the settings it was given, or an error

settingsVars == <<environ, config, serving, asked, answer>>

-------------------------------------------------------------------------------

\* The environment is set up host by host: set holds [host, alias, value].
Environment(set) ==
    [k \in {Key(s.host, s.alias) : s \in set} |-> (CHOOSE s \in set : Key(s.host, s.alias) = k).value]

SettingsInit ==
    /\ environ \in Environs
    /\ config \in Files
    /\ serving = FALSE
    /\ asked = {}
    /\ answer = Error("nothing asked")

\* build_app: the server does not start with a file that does not load.
Load ==
    /\ ~ serving
    /\ Loads(config)
    /\ serving' = TRUE
    /\ UNCHANGED <<environ, config, asked, answer>>

\* A tool looks a host up.
Lookup(host) ==
    /\ serving
    /\ asked' = {host}
    /\ answer' = get_host(Environment(environ), config, host)
    /\ UNCHANGED <<environ, config, serving>>

SettingsNext == Load \/ \E host \in Hosts : Lookup(host)
SettingsSpec == SettingsInit /\ [][SettingsNext]_settingsVars

-------------------------------------------------------------------------------
(* What the settings mean                                                   *)

\* A variable of another host is one of the host's, too: NAS_SSH_PORT is the SSH
\* port of "nas" and the port of "nas-ssh".
Borrows(set, host) ==
    \E s \in set : s.host # host /\ \E f \in Fields : \E a \in Range(EnvAliases[f]) :
        Key(s.host, s.alias) = Key(host, a)

\* The first of s that is in K; one is.
First(s, K) == s[CHOOSE i \in DOMAIN s : s[i] \in K /\ \A j \in 1 .. i - 1 : s[j] \notin K]

\* What the settings say of a host's field, from the first source to the last.
Said(set, file, host, f) ==
    LET mine(a) == {s \in set : s.host = host /\ s.alias = a /\ s.value # ""}
        vars    == {a \in Range(EnvAliases[f]) : mine(a) # {}}
        table   == IF host \in DOMAIN file.hosts THEN file.hosts[host] ELSE <<>>
        keys    == Range(FileAliases(f)) \cap DOMAIN table
    IN  CASE vars # {} -> (CHOOSE s \in mine(First(EnvAliases[f], vars)) : TRUE).value
          [] vars = {} /\ keys # {} -> table[First(FileAliases(f), keys)]
          [] vars = {} /\ keys = {} ->
               IF f \in DOMAIN file.defaults THEN file.defaults[f]
               ELSE IF f \in DOMAIN BuiltIn THEN BuiltIn[f] ELSE None

\* What a value means to the field: one of the words for yes, or no.
Meant(f, v) == IF f \in Bools THEN IF v \in {"1", "true", "yes", "on"} THEN "true" ELSE "false" ELSE v

\* out is what a host should have: its settings, and a refusal only if its address
\* or account is missing or a number is none.
Layers(set, file, host, out) ==
    LET said(f) == Said(set, file, host, f)
    IN  /\ out.ok <=> /\ {said("ip"), said("account")} \cap {None, ""} = {}
                      /\ \A f \in Numbers : said(f) # "bad"
        /\ out.ok => \A f \in Fields : out.is[f] = Meant(f, said(f))

\* A host has every setting from the first source that makes it: its variables,
\* its table, [defaults], and what is built in.  It is refused only if its address
\* or account is missing or a number is none.  Another host's variables do not
\* touch it, unless the names make them its own.
Layered ==
    \A host \in asked : ~ Borrows(environ, host) => Layers(environ, config, host, answer)
===============================================================================
