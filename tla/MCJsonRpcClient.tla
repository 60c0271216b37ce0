---------------------------- MODULE MCJsonRpcClient ----------------------------
(***************************************************************************)
(* One method for each way in which errors are passed on.                  *)
(***************************************************************************)
EXTENDS JsonRpcClient

CONSTANTS c1, c2

MCMethods == {"icx_sendTransaction", "icx_getBlock", "getPRep"}
===============================================================================
