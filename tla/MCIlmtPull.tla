------------------------------ MODULE MCIlmtPull ------------------------------
(* Small instances of IlmtPull. *)
EXTENDS IlmtPull

CONSTANTS h1, h2

OneHost == {h1}
TwoHosts == {h1, h2}
==============================================================================
