---------------------------- MODULE MCSshTransport ----------------------------
(* Instances of SshTransport for TLC: the .cfg files give the constants.   *)
EXTENDS SshTransport
===============================================================================
