--------------------------- MODULE MCCourierSync ---------------------------
(* An instance of CourierSync for model checking. *)
EXTENDS CourierSync

\* One slot for administrators and one for the courier's scans and the job; both
\* dispatch.
Apart == [w \in Workers |->
            IF w = "app" THEN Ops \ {"poll", "scan"} ELSE {"create", "poll", "scan"}]
=============================================================================
