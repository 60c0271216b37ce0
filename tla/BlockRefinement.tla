---------------------------- MODULE BlockRefinement ----------------------------
(***************************************************************************)
(* BlockService implements BlockApi, and what the amounts of a finished    *)
(* answer add up to.                                                       *)
(***************************************************************************)
EXTENDS BlockService, FiniteSetsExt

CallStatus(pc) ==
  CASE pc = "idle" -> "free"
    [] pc \in Steps -> "pending"
    [] OTHER -> pc

\* The caller sees nothing of a handler's work before the answer.
CallOf(l) ==
  [status |-> CallStatus(l.pc),
   want   |-> l.want,
   answer |-> IF l.pc = "answered"
              THEN [id |-> l.id, parent |-> l.parent, txs |-> l.txs]
              ELSE [id |-> None, parent |-> None, txs |-> <<>>],
   error  |-> l.error]

Calls == [r \in Requests |-> CallOf(req[r])]

Api == INSTANCE BlockApi
         WITH call <- Calls, CallSet <- BlockWants \cup TransactionWants

\* The handlers, whatever they interleave with, only ever let their callers see
\* what answers decided in one step from one block would show them, with the
\* operations that the transactions and receipts of that block call for.
ImplementsApi == Api!Spec

-------------------------------------------------------------------------------

Total(operations) ==
  MapThenSumSet(LAMBDA i : operations[i].amount,
    {i \in DOMAIN operations : /\ operations[i].status = SuccessStatus
                               /\ operations[i].amount # None})

Created(el) ==
  CASE el.sig = "ICXIssued(int,int,int,int)" -> el.data[3]
    [] el.sig = "DepositWithdrawn(bytes,Address,int,int)" -> el.data[1]
    [] el.sig \in Burns -> -el.data[1]
    [] OTHER -> 0

\* Steps charged to others than the sender, credited to the treasury although
\* no operation debits them.  Where no step was counted the sender pays the
\* provisional fee.
SharedFee(tx, receipt) ==
  IF IsBase(tx) \/ receipt.stepUsed = 0 THEN 0
  ELSE (receipt.stepUsed - GetUserStep(tx.from, receipt.stepDetails))
         * receipt.stepPrice

\* Value is neither made nor lost between the operations of a transaction: what
\* the successful ones add up to is what its receipt issued, returned or burned,
\* and the part of the fee that the sender does not pay.  A failed transfer
\* counts on neither side.
SupplyAccounted ==
  \A r \in Requests : req[r].pc = "answered" =>
    \A t \in DOMAIN req[r].txs :
      LET hash == req[r].txs[t].hash
          receipt == BlockAt(hash.block).receipts[hash.position]
          logs == receipt.eventLogs
      IN hash.block > 0 =>
           Total(req[r].txs[t].operations) =
             MapThenSumSet(LAMBDA i : Created(logs[i]), DOMAIN logs)
               + SharedFee(Raw(hash), receipt)

\* Every operation type in an answer is one of those that /network/options
\* publishes (API.md lists the same ones).
TypesPublished ==
  \A r \in Requests : req[r].pc = "answered" =>
    \A t \in DOMAIN req[r].txs : \A i \in DOMAIN req[r].txs[t].operations :
      req[r].txs[t].operations[i].type \in OperationTypes
===============================================================================
