------------------------- MODULE MCSuRecordPersist -------------------------
(* Plain columns y and w; rule x gets y, rule z gets x then w; both rules  *)
(* have a _deps column.  The program has two record variables.             *)
EXTENDS SuRecordPersist

CONSTANTS y, w, x, z, r1, r2

MCRuleDeps == (x :> <<y>>) @@ (z :> <<x, w>>)

MCColumns == <<y, x, w, z>>

=============================================================================
