---------------------------- MODULE MCCredentials ----------------------------
(* Small instances of Credentials. *)
EXTENDS Credentials

CONSTANTS c1, c2

TwoClusters == {c1, c2}
==============================================================================
