------------------------------ MODULE MCDabstep ------------------------------
(***************************************************************************)
(* Dabstep with two tasks and one retry.  Three measured launches make one *)
(* invocation that retries and one that does not, in either order, plus    *)
(* any number that are cut off before they measure anything.               *)
(***************************************************************************)
EXTENDS Dabstep

=============================================================================
