----------------------------- MODULE Configuration -----------------------------
(***************************************************************************)
(* config.py: the settings of a host, from the environment, the host's     *)
(* table of the configuration file, its [defaults], and the values that    *)
(* are built in.  A name (of a host, or of a variable) is the sequence of  *)
(* its words: "nas-ssh" is <<"NAS", "SSH">>, and the separator, which      *)
(* _env_prefix turns into "_", is what two names may differ in besides.    *)
(*                                                                         *)
(* External: the file and the environment, and the TOML parser.            *)
(***************************************************************************)
EXTENDS Naturals, Sequences, FiniteSetsExt, Functions

None == "none"        \* a setting that is not made

\* _ENV_FIELD_ALIASES: the variables of a field, the first one first.
EnvAliases ==
    [ip               |-> <<<<"IP">>, <<"HOST">>, <<"ADDRESS">>>>,
     account          |-> <<<<"ACCOUNT">>, <<"USERNAME">>>>,
     password         |-> <<<<"PASSWORD">>, <<"PASS">>>>,
     otp_code         |-> <<<<"OTP", "CODE">>, <<"OTP">>>>,
     port             |-> <<<<"PORT">>>>,
     use_https        |-> <<<<"USE", "HTTPS">>>>,
     verify_tls       |-> <<<<"VERIFY", "TLS">>>>,
     connect_timeout  |-> <<<<"CONNECT", "TIMEOUT">>>>,
     read_timeout     |-> <<<<"READ", "TIMEOUT">>>>,
     ssh_username     |-> <<<<"SSH", "USERNAME">>, <<"SSH", "USER">>>>,
     ssh_port         |-> <<<<"SSH", "PORT">>>>,
     ssh_key_path     |-> <<<<"SSH", "KEY", "PATH">>, <<"SSH", "KEY">>>>,
     user_home_volume |-> <<<<"USER", "HOME", "VOLUME">>>>]

Fields  == DOMAIN EnvAliases
Bools   == {"use_https", "verify_tls"}
Numbers == {"port", "ssh_port", "connect_timeout", "read_timeout"}

\* The keys of a field in a host's table.
FileAliases(f) ==
    CASE f = "ip"      -> <<"ip", "host", "address">>
      [] f = "account" -> <<"account", "username">>
      [] OTHER         -> <<f>>

\* What is built in; the other fields have nothing.
BuiltIn == [f \in Bools \cup Numbers |-> IF f \in Bools THEN "true" ELSE "built in"]

-------------------------------------------------------------------------------
(* A value is a string; "" is the empty one, and "bad" is not a number.     *)

\* What the table says of the first of the keys that it has, or None.
FirstOf(keys, table) ==
    LET hits == {k \in DOMAIN keys : keys[k] \in DOMAIN table}
    IN  IF hits = {} THEN None ELSE table[keys[Min(hits)]]

\* _coerce: one of the words for yes, or false.
EnvBool(v)  == IF v \in {"1", "true", "yes", "on"} THEN "true" ELSE "false"
\* bool(): of a string, whether it is not empty; "off" is TOML's false.
FileBool(v) == IF v \in {"off", ""} THEN "false" ELSE "true"

Key(host, alias) == host.words \o alias

\* The variables of a host's field, the first one first.
Variables(host, f) == [a \in DOMAIN EnvAliases[f] |-> Key(host, EnvAliases[f][a])]

\* Mutant of Overlay: an empty variable counts.
OverlayEmpty(env, host) ==
    [f \in Fields |->
        LET v == FirstOf(Variables(host, f), env)
        IN  IF v # None /\ f \in Bools THEN EnvBool(v) ELSE v]

\* _collect_env_for_host: the first variable of a field that is not empty.
Overlay(env, host) ==
    [f \in Fields |->
        LET v == FirstOf(Variables(host, f), Restrict(env, {k \in DOMAIN env : env[k] # ""}))
        IN  IF v # None /\ f \in Bools THEN EnvBool(v) ELSE v]

\* _parse_config: what [defaults] leaves out is built in.
Defaults(file) ==
    [f \in DOMAIN BuiltIn |->
        IF f \notin DOMAIN file.defaults THEN BuiltIn[f]
        ELSE IF f \in Bools THEN FileBool(file.defaults[f]) ELSE file.defaults[f]]

\* _parse_host: the first key of a field that is there, whatever it says.
ParsedHost(file, host) ==
    LET table == file.hosts[host]
    IN  [f \in Fields |->
            LET v == FirstOf(FileAliases(f), table)
            IN  IF v = None THEN IF f \in DOMAIN BuiltIn THEN Defaults(file)[f] ELSE None
                ELSE IF f \in Bools THEN FileBool(v) ELSE v]

\* load_config raises if a number of the file is none.
Loads(file) ==
    /\ \A f \in DOMAIN file.defaults \cap Numbers : file.defaults[f] # "bad"
    /\ \A h \in DOMAIN file.hosts : \A f \in DOMAIN file.hosts[h] \cap Numbers : file.hosts[h][f] # "bad"

Error(what) == [ok |-> FALSE, why |-> what]

\* The environment over the file over the defaults.
Merged(over, table, defaults) ==
    [f \in Fields |->
        IF over[f] # None THEN over[f]
        ELSE IF table[f] # None THEN table[f]
        ELSE IF f \in DOMAIN defaults THEN defaults[f] ELSE None]

\* Config.get_host
get_host(env, file, host) ==
    LET over  == Overlay(env, host)
        known == host \in DOMAIN file.hosts
        table == IF known THEN ParsedHost(file, host) ELSE [f \in Fields |-> None]
        all   == Merged(over, table, Defaults(file))
    IN  CASE \E f \in Numbers : over[f] = "bad"               -> Error("number")
          [] ~ known /\ \A f \in Fields : over[f] = None        -> Error("unknown")
          [] OTHER -> IF all.ip \in {None, ""} THEN Error("ip")
                      ELSE IF all.account \in {None, ""} THEN Error("account")
                      ELSE [ok |-> TRUE, is |-> all]
===============================================================================
