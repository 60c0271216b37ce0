-------------------------- MODULE ConstructionRefinement --------------------------
(***************************************************************************)
(* The endpoints, the wallets and the node together implement the flow.    *)
(***************************************************************************)
EXTENDS Construction

\* An order is a transaction without its signature.
Order(tx) == [f \in Fields \ {"signature"} |-> tx[f]]

Orders == {Order(tx) : tx \in Unsigned}

\* It is authorized once the key of its payer has signed exactly it.
Authorized ==
  {order \in Orders : \E signature \in signatures :
     signature.hash = order /\ AddressOf[signature.key] = order["from"]}

Flow == INSTANCE ConstructionFlow WITH
  Elsewhere <- {Order(tx) : tx \in Foreign},
  orders <- Orders,
  authorized <- Authorized,
  done <- {Order(js) : js \in taken}

\* What the node takes, in time and once, is an order as it was placed, and its
\* payer authorized it: no payload loses a part of an intent or puts one there, no
\* signature serves for another payment, and no handler that fails, or is late,
\* makes the network take anything else.
ImplementsFlow == Flow!FlowSpec
===============================================================================
