---------------------------- MODULE MCLmEvalRelay ----------------------------
(***************************************************************************)
(* LmEvalRelay with a leader and one descendant, as uvx has in lm-eval, and *)
(* two connections, so that one can be added while the other is closed.    *)
(***************************************************************************)
EXTENDS LmEvalRelay


=============================================================================
