------------------------- MODULE MCReturnSettlement -------------------------
(* An instance of ReturnSettlement for model checking. *)
EXTENDS ReturnSettlement

\* One slot for the settlement, the release job and the drop, one for the handlers
\* of the return before it.
Late == {"settle", "job", "arrive", "drop"}
Apart == [w \in Workers |-> IF w = "job" THEN Late ELSE Ops \ Late]

=============================================================================
