---------------------------- MODULE MCConfigStore ----------------------------
(* Small instances of ConfigStore. *)
EXTENDS ConfigStore

CONSTANTS p1, p2, c1, c2, x1, h1

OneProc == {p1}
TwoProcs == {p1, p2}

(* Contexts that have the names of their clusters, *)
TwoClusters == {c1, c2}
SameName == [c \in TwoClusters |-> c]

(* and a context that has not. *)
OneCluster == {c1}
OneContext == {x1}
OtherName == [x \in OneContext |-> c1]
OneHost == {h1}
==============================================================================
