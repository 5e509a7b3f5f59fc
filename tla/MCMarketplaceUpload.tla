------------------------- MODULE MCMarketplaceUpload -------------------------
(* Small instances of MarketplaceUpload. *)
EXTENDS MarketplaceUpload

CONSTANTS f1, f2

TwoFiles == {f1, f2}

(* Enough busy answers to use up every attempt of one upload and to be busy *)
(* once more for the next one, and one of each other fault.                 *)
SomeFaults == [busy |-> 5, reject |-> 1, broken |-> 1, timeout |-> 1, deadline |-> 1]

(* Nothing goes wrong but that a push takes too long. *)
SlowPush == [busy |-> 0, reject |-> 0, broken |-> 0, timeout |-> 0, deadline |-> 1]
==============================================================================
