----------------------------- MODULE MCHistory -----------------------------
(* Traffic for History: a multiple of the interval, or not. *)
EXTENDS History

MCLoads == {[down |-> 2, up |-> 0], [down |-> 1, up |-> 2]}
=============================================================================
