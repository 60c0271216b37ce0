---------------------------- MODULE MCNetworkStatus ----------------------------
(***************************************************************************)
(* Two candidates, who may change places.                                  *)
(***************************************************************************)
EXTENDS NetworkStatus

CONSTANTS p1, p2, r1, r2

MCLists == {<< >>, <<p1>>, <<p1, p2>>, <<p2, p1>>}
===============================================================================
