---------------------------- MODULE MCAccountBalance ----------------------------
(***************************************************************************)
(* Two accounts, one of them with coins in every part.                     *)
(***************************************************************************)
EXTENDS AccountBalance, TLC

CONSTANTS Alice, Bob, r1, r2

InitialHoldings ==
  (Alice :> [coin |-> 2, stake |-> 1, unstake |-> 1])
    @@ (Bob :> [coin |-> 1, stake |-> 0, unstake |-> 0])

RequestSymmetry == Permutations(Requests)
===============================================================================
