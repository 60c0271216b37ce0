---------------------------- MODULE MCConstruction ----------------------------
(***************************************************************************)
(* Two wallets; the intents that the handlers tell apart.                  *)
(***************************************************************************)
EXTENDS ConstructionRefinement, TLC

CONSTANTS Alice, Bob, aliceKey, bobKey, r1

MCAddressOf == (aliceKey :> Alice) @@ (bobKey :> Bob)

Debited(n) == [neg |-> TRUE, abs |-> n]
Credited(n) == [neg |-> FALSE, abs |-> n]

Op(account, amount) == [type |-> "TRANSFER", account |-> account, amount |-> amount]

Plain(ops) == [operations |-> ops, dataType |-> None, data |-> None]
Call(ops, data) == [operations |-> ops, dataType |-> "call", data |-> data]

Payment == Plain(<<Op(Alice, Debited(1)), Op(Bob, Credited(1))>>)
PaymentCreditFirst == Plain(<<Op(Bob, Credited(1)), Op(Alice, Debited(1))>>)
Unbalanced == Plain(<<Op(Alice, Debited(2)), Op(Bob, Credited(1))>>)
ZeroCall == Call(<<Op(Alice, Zero), Op(Bob, Zero)>>, "strings")
CallWithNumbers == Call(<<Op(Alice, Debited(1)), Op(Bob, Credited(1))>>, "numbers")

Refusals ==
  { Plain(<<Op(Alice, Zero), Op(Bob, Zero)>>),
    Plain(<<Op(Alice, Debited(1)), Op(Malformed, Credited(1))>>),
    Plain(<<Op(Alice, None), Op(Bob, Credited(1))>>),
    Plain(<<Op(Alice, Debited(1)), [Op(Bob, Credited(1)) EXCEPT !.type = "OTHER"]>>),
    Call(<<Op(Alice, Zero)>>, None),
    [Payment EXCEPT !.dataType = Malformed] }

AllIntents ==
  {Payment, PaymentCreditFirst, Unbalanced, ZeroCall, CallWithNumbers} \cup Refusals

Payments == {Unbalanced, ZeroCall}

\* A call of another tool, without a value.
Valueless ==
  [version |-> 3, from |-> Bob, to |-> Alice, value |-> None, stepLimit |-> 1,
   timestamp |-> 0, nid |-> Nid, nonce |-> 1, dataType |-> "call", data |-> "strings",
   signature |-> None]

ForeignCall == {Valueless}

\* One with data that cannot be hashed.
ForeignNumbers == {[Valueless EXCEPT !.data = "numbers"]}
===============================================================================
