---------------------------- MODULE ConstructionFlow ----------------------------
(***************************************************************************)
(* What the Construction API promises its wallets.  Somebody places an     *)
(* order, which says who pays how much to whom; the payer authorizes it;   *)
(* and the network takes it, once, within a time of its being placed.      *)
(***************************************************************************)
EXTENDS Integers, Sequences

CONSTANTS
  Accounts, None, Malformed,
  Intents,    \* the operations and metadata that may be asked for
  Elsewhere,  \* the orders that other tools place
  Nid,        \* the network they are for
  Estimates,  \* the step limits that the node may choose
  Window,     \* how long after its time an order may be taken
  MaxClock    \* bound: the clock stops there

VARIABLES clock, orders, authorized, done

fvars == <<clock, orders, authorized, done>>

\* The operation by which an intent pays, and the one by which it is paid: those
\* with the signs, or, if a contract is called with nothing, the first and second.
Pays(intent, i, j) ==
  LET ops == intent.operations
  IN /\ {i, j} = {1, 2} /\ i # j /\ Len(ops) = 2
     /\ ops[i].type = "TRANSFER" /\ ops[j].type = "TRANSFER"
     /\ ops[i].account \in Accounts /\ ops[j].account \in Accounts
     /\ ops[i].amount # None /\ ops[j].amount # None
     /\ \/ /\ ops[i].amount.neg /\ ops[i].amount.abs > 0
           /\ ~ops[j].amount.neg /\ ops[j].amount.abs > 0
        \/ /\ intent.dataType # None
           /\ i = 1 /\ ~ops[1].amount.neg /\ ops[1].amount.abs = 0

\* An order takes its value from the operation that is paid.
Worth(intent, i, j) ==
  IF intent.operations[i].amount.abs = 0 THEN 0 ELSE intent.operations[j].amount.abs

FlowInit ==
  /\ clock = 0
  /\ orders = Elsewhere
  /\ authorized = {}
  /\ done = {}

Place ==
  /\ \E intent \in Intents, i, j \in 1..2, time \in 0..clock, limit \in Estimates :
       /\ Pays(intent, i, j)
       /\ intent.data # "numbers"
       /\ intent.dataType # Malformed
       /\ orders' = orders \cup
            {[version |-> 3, from |-> intent.operations[i].account,
              to |-> intent.operations[j].account, value |-> Worth(intent, i, j),
              stepLimit |-> limit, timestamp |-> time, nid |-> Nid, nonce |-> 1,
              dataType |-> intent.dataType, data |-> intent.data]}
  /\ UNCHANGED <<clock, authorized, done>>

Authorize ==
  /\ \E order \in orders : authorized' = authorized \cup {order}
  /\ UNCHANGED <<clock, orders, done>>

Take ==
  /\ \E order \in authorized \ done :
       /\ clock - order.timestamp <= Window
       /\ done' = done \cup {order}
  /\ UNCHANGED <<clock, orders, authorized>>

Pass ==
  /\ clock < MaxClock
  /\ clock' = clock + 1
  /\ UNCHANGED <<orders, authorized, done>>

FlowNext == Place \/ Authorize \/ Take \/ Pass

FlowSpec == FlowInit /\ [][FlowNext]_fvars
===============================================================================
