------------------------------- MODULE MCHamt -------------------------------
(* Model-checking instance of Hamt: two bitmap levels of one bit each and  *)
(* an overflow level below them.  a, b and c hash alike, so that a third   *)
(* of them is pushed down to an overflow node; d sits in the other root    *)
(* slot.                                                                   *)
EXTENDS Hamt

CONSTANTS a, b, c, d

MCHash == (a :> 0) @@ (b :> 0) @@ (c :> 0) @@ (d :> 3)
=============================================================================
