------------------------------ MODULE MCLifecycle ------------------------------
(***************************************************************************)
(* Two requests are enough for one to be cut and one to be answered.       *)
(***************************************************************************)
EXTENDS Lifecycle

CONSTANTS r1, r2
===============================================================================
