----------------------------- MODULE MCIlmtFetch -----------------------------
(* Small instances of IlmtFetch. *)
EXTENDS IlmtFetch

CONSTANTS h1, p1, p2, p3, b1, b2

OneHost == {h1}
ThreeProducts == {p1, p2, p3}
TwoBundles == {b1, b2}

(* One move more, and the products used alone are more than the limit; the  *)
(* second bundle is not in use.                                             *)
TwoAlone == [p \in ThreeProducts |-> IF p = p3 THEN b1 ELSE NoBundle]
==============================================================================
