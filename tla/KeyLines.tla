------------------------------- MODULE KeyLines --------------------------------
(***************************************************************************)
(* The lines of an authorized_keys file, as ssh.py tells them apart, for   *)
(* AuthorizedKeys and for KeyFile, the abstract specification of it.       *)
(*                                                                         *)
(* A line is a key (its fingerprint), a comment, or something _parse_pubkey*)
(* refuses (garbage, a key with options).                                  *)
(***************************************************************************)
EXTENDS Naturals, Sequences, Functions

CONSTANTS
    Keys,            \* keys, by SHA256 fingerprint
    Comments,        \* lines that start with "#"
    Garbage,         \* lines _parse_pubkey raises InvalidParam on
    InitialFiles     \* contents the file may start with

ASSUME LinesAssumption ==
    /\ Keys \cap Comments = {} /\ Keys \cap Garbage = {} /\ Comments \cap Garbage = {}
    /\ InitialFiles \subseteq Seq(Keys \cup Comments \cup Garbage)

Lines == Keys \cup Comments \cup Garbage

In(l, s) == l \in Range(s)

\* The lines of s that are in K, in their order.
Keep(s, K) ==
    LET kept[n \in 0..Len(s)] ==
          IF n = 0 THEN <<>>
          ELSE IF s[n] \in K THEN Append(kept[n - 1], s[n]) ELSE kept[n - 1]
    IN  kept[Len(s)]
===============================================================================
