------------------------- MODULE MCDeadlineWatchdog -------------------------
(***************************************************************************)
(* DeadlineWatchdog with two request threads, three deadlines altogether   *)
(* and two lengths of timeout, so that a later deadline can be the nearer  *)
(* one and one thread can arm while the other's callback runs.             *)
(***************************************************************************)
EXTENDS DeadlineWatchdog

=============================================================================
