------------------------------ MODULE MCJobId ------------------------------
(* Instances of JobId for TLC. *)
EXTENDS JobId

MCCallers == {"push", "pull"}

(* The clock may be set forward by half a tenth, or back by more than one. *)
MCShifts == {1, -3}
=============================================================================
