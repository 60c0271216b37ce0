------------------------------ MODULE Operations ------------------------------
(***************************************************************************)
(* How rosetta-icon turns ICON transactions and receipts into Rosetta      *)
(* operations: icon/client_v1/operations.go, the types it reads            *)
(* (types.go) and the two pieces of client.go that rewrite operations once *)
(* the receipt is known.  Everything here is a pure operator.              *)
(*                                                                         *)
(* Amounts are integers (the code keeps big.Int values as decimal          *)
(* strings); an operation without account or amount has None there.        *)
(***************************************************************************)
EXTENDS Integers, Sequences

CONSTANTS
  Address,      \* the accounts and SCOREs that occur in transactions
  Treasury,     \* TreasuryAddress, hx1000...0
  SystemScore,  \* SystemScoreAddress, cx0000...0
  None          \* a nil pointer or an omitted JSON field

ASSUME AddressAssumption ==
  /\ Treasury \in Address
  /\ SystemScore \in Address
  /\ None \notin Address
  /\ None \notin Int

SuccessStatus == "SUCCESS"
FailureStatus == "FAIL"

\* The list published by /network/options and given to the request asserter.
OperationTypes ==
  {"GENESIS", "TRANSFER", "FEE", "BASE", "ISSUE", "BURN", "ICXTRANSFER",
   "CLAIM", "MESSAGE"}

DataTypes == {"call", "deploy", "message", "base"}

-------------------------------------------------------------------------------
(* What the node sends.  An event log keeps its signature (Indexed[0] in   *)
(* the code) apart, so that indexed[i] is the code's Indexed[i]; data[i+1] *)
(* is the code's Data[i].                                                  *)

Claims == {"IScoreClaimed(int,int)", "IScoreClaimedV2(Address,int,int)"}
Burns  == {"ICXBurned", "ICXBurned(int)", "ICXBurnedV2(Address,int,int)"}

EventLog ==
       [sig : {"ICXTransfer(Address,Address,int)"},
        indexed : Address \X Address \X Nat, data : {<<>>}]
  \cup [sig : {"ICXIssued(int,int,int,int)"},
        indexed : {<<>>}, data : Nat \X Nat \X Nat \X Nat]
  \cup [sig : Claims, indexed : Seq(Address), data : Nat \X Nat]
  \cup [sig : Burns, indexed : Seq(Address), data : Seq(Nat) \ {<<>>}]
  \cup [sig : {"DepositWithdrawn(bytes,Address,int,int)"},
        indexed : {None} \X Address, data : Nat \X Nat]
  \cup [sig : {"other"}, indexed : {<<>>}, data : {<<>>}]

\* wellFormed is FALSE for a message that json.Unmarshal rejects.  The step
\* details of an account that the receipt does not name are 0.
Transaction ==
  [version : {2, 3}, dataType : DataTypes \cup {"transfer", None},
   from : Address, to : Address, value : Nat \cup {None},
   stepLimit : Nat, fee : Nat, wellFormed : BOOLEAN]

TransactionResult ==
  [success : BOOLEAN, stepUsed : Nat, stepPrice : Nat,
   stepDetails : [Address -> Nat],
   eventLogs : Seq(EventLog), wellFormed : BOOLEAN]

GenesisAccount == [address : Address, balance : Nat]

-------------------------------------------------------------------------------
(* Operations.                                                             *)

Operation ==
  [index : Nat, related : SUBSET Nat, type : OperationTypes \cup {"WITHDRAWN"},
   status : {SuccessStatus, FailureStatus},
   account : Address \cup {None}, amount : Int \cup {None}]

Op(index, related, type, account, amount) ==
  [index |-> index, related |-> related, type |-> type,
   status |-> SuccessStatus, account |-> account, amount |-> amount]

Values(tx) == IF tx.value # None THEN tx.value ELSE 0

GetDataType(tx) ==
  IF tx.dataType \in DataTypes THEN tx.dataType ELSE "transfer"

ParseGenesisOperationsV2(accounts) ==
  Append([i \in 1..Len(accounts) |->
            Op(i - 1, {}, "GENESIS", accounts[i].address, accounts[i].balance)],
         Op(Len(accounts), {}, "MESSAGE", None, None))

\* A transfer and its fee: each operation relates to the one before it.
TransferAndFee(tx, fee) ==
  << Op(0, {},  "TRANSFER", tx.from,  -Values(tx)),
     Op(1, {0}, "TRANSFER", tx.to,    Values(tx)),
     Op(2, {1}, "FEE",      tx.from,  -fee),
     Op(3, {2}, "FEE",      Treasury, fee) >>

IsBase(tx) == tx.version = 3 /\ GetDataType(tx) = "base"

MakeBaseOperations == Op(0, {}, "BASE", None, None)

ParseOperationsV2(tx) == TransferAndFee(tx, tx.fee)

\* Until the receipt is known the fee operations carry the step limit.
ParseOperationsV3(tx) ==
  IF IsBase(tx)
  THEN << MakeBaseOperations >>
  ELSE TransferAndFee(tx, tx.stepLimit)

ParseTransaction(tx) ==
  IF tx.version = 3 THEN ParseOperationsV3(tx) ELSE ParseOperationsV2(tx)

-------------------------------------------------------------------------------
(* Operations of event logs.                                               *)

getClaimOps(fa, el, last) ==
  << Op(last + 1, {},         "CLAIM", Treasury, -el.data[2]),
     Op(last + 2, {last + 1}, "CLAIM", fa,       el.data[2]) >>

getBurnOps(el, last) ==
  << Op(last + 1, {}, "BURN", SystemScore, -el.data[1]) >>

getDepositWithdrawn(el, last) ==
  << Op(last + 1, {}, "WITHDRAWN", el.indexed[2], el.data[1]) >>

icxTransferOps(el, last) ==
  << Op(last + 1, {},         "ICXTRANSFER", el.indexed[1], -el.indexed[3]),
     Op(last + 2, {last + 1}, "ICXTRANSFER", el.indexed[2], el.indexed[3]) >>

issueOps(el, last) ==
  << Op(last + 1, {}, "ISSUE", Treasury, el.data[3]) >>

\* The body of the loop of GetOperations: what one log appends ...
LogOps(fa, el, last) ==
  CASE el.sig = "ICXTransfer(Address,Address,int)" -> icxTransferOps(el, last)
    [] el.sig = "ICXIssued(int,int,int,int)" -> issueOps(el, last)
    [] el.sig \in Claims -> getClaimOps(fa, el, last)
    [] el.sig \in Burns -> getBurnOps(el, last)
    [] el.sig = "DepositWithdrawn(bytes,Address,int,int)" ->
         getDepositWithdrawn(el, last)
    [] OTHER -> <<>>

\* Mutant of LogAdvance: the second operation of a claim is not counted.
LogAdvanceClaimOnce(el) ==
  CASE el.sig = "ICXTransfer(Address,Address,int)" -> 2
    [] el.sig = "other" -> 0
    [] OTHER -> 1

\* ... and by how much the code moves lastOpIndex on after it.
LogAdvance(el) ==
  CASE el.sig = "ICXTransfer(Address,Address,int)" -> 2
    [] el.sig \in Claims -> 2
    [] el.sig = "other" -> 0
    [] OTHER -> 1

-------------------------------------------------------------------------------
(* What the receipt changes in the operations of its transaction.          *)

GetUserStep(from, stepDetails) == stepDetails[from]

StatusFlag(receipt) ==
  IF receipt.success THEN SuccessStatus ELSE FailureStatus

IsGeneral(ops) == Len(ops) >= 4

\* Mutant of RewriteFees: the sender is charged for the steps that others pay.
RewriteFeesUnshared(ops, receipt) ==
  IF IsGeneral(ops) /\ receipt.stepUsed # 0
  THEN [ops EXCEPT ![4].amount = receipt.stepUsed * receipt.stepPrice,
                   ![3].amount = -(receipt.stepUsed * receipt.stepPrice)]
  ELSE ops

RewriteFees(ops, receipt) ==
  IF IsGeneral(ops) /\ receipt.stepUsed # 0
  THEN [ops EXCEPT
          ![4].amount = receipt.stepUsed * receipt.stepPrice,
          ![3].amount = -(GetUserStep(ops[3].account, receipt.stepDetails)
                            * receipt.stepPrice)]
  ELSE ops

\* Mutant of SetTransferStatus: the credit keeps its status.
SetDebitStatus(ops, receipt) ==
  [i \in DOMAIN ops |->
     IF ops[i].type = "TRANSFER" /\ i = 1
     THEN [ops[i] EXCEPT !.status = StatusFlag(receipt)]
     ELSE ops[i]]

SetTransferStatus(ops, receipt) ==
  [i \in DOMAIN ops |->
     IF ops[i].type = "TRANSFER"
     THEN [ops[i] EXCEPT !.status = StatusFlag(receipt)]
     ELSE ops[i]]
===============================================================================
