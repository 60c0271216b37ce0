--------------------------- MODULE BlockServiceProofs ---------------------------
(***************************************************************************)
(* Proofs about BlockService, for any requests, block contents and bounds. *)
(*                                                                         *)
(* The inductive invariant says of every handler where its transactions    *)
(* come from, which of them are still as parsed, which are finished, and   *)
(* what the loop variables n, k, fa and last stand for at each pc.  Its    *)
(* parts take the handler and the chain as arguments: a step of one        *)
(* handler leaves every other one and the chain alone, and a new block     *)
(* leaves every handler alone.                                             *)
(***************************************************************************)
EXTENDS BlockService, TLAPS

-------------------------------------------------------------------------------
(* The operators of Operations: what each one returns, for any transaction,  *)
(* receipt and event log.                                                   *)

\* Rosetta's rule: numbered in order, related to earlier operations only.
Numbered(operations) ==
  \A i \in DOMAIN operations :
    /\ operations[i].index = i - 1
    /\ \A j \in operations[i].related : j < i - 1

ClaimsPaidTo(operations, account) ==
  \A i \in DOMAIN operations :
    /\ operations[i].type = "CLAIM"
    /\ operations[i].related # {}
    => operations[i].account = account

NoClaims(operations) ==
  \A i \in DOMAIN operations : operations[i].type # "CLAIM"

FeesMatch(operations, receipt) ==
  IsGeneral(operations) /\ operations[4].type = "FEE" /\ receipt.stepUsed # 0 =>
    operations[4].amount = receipt.stepUsed * receipt.stepPrice

\* The genesis transaction: one numbered operation per account and a message.
LEMMA GenesisOperations ==
  ASSUME NEW accounts \in Seq(GenesisAccount)
  PROVE  /\ ParseGenesisOperationsV2(accounts) \in Seq(Operation)
         /\ Numbered(ParseGenesisOperationsV2(accounts))
         /\ NoClaims(ParseGenesisOperationsV2(accounts))
         /\ IsGeneral(ParseGenesisOperationsV2(accounts)) =>
              /\ ParseGenesisOperationsV2(accounts)[1].account \in Address
              /\ ParseGenesisOperationsV2(accounts)[3].account \in Address
PROOF
<1> DEFINE own == [i \in 1..Len(accounts) |->
              Op(i - 1, {}, "GENESIS", accounts[i].address, accounts[i].balance)]
           message == Op(Len(accounts), {}, "MESSAGE", None, None)
<1>1. ASSUME NEW i \in 1..Len(accounts)
      PROVE  /\ own[i] \in Operation
             /\ own[i].index = i - 1
             /\ own[i].related = {}
             /\ own[i].type = "GENESIS"
             /\ own[i].account \in Address
  <2>1. accounts[i] \in GenesisAccount
    OBVIOUS
  <2>2. accounts[i].address \in Address /\ accounts[i].balance \in Int
    BY <2>1 DEF GenesisAccount
  <2>3. i - 1 \in Nat
    OBVIOUS
  <2>4. own[i] = Op(i - 1, {}, "GENESIS", accounts[i].address, accounts[i].balance)
    OBVIOUS
  <2> HIDE DEF own, message
  <2> QED
    BY <2>2, <2>3, <2>4 DEF Op, Operation, SuccessStatus, FailureStatus, OperationTypes
<1>2. /\ message \in Operation
      /\ message.index = Len(accounts)
      /\ message.related = {}
      /\ message.type = "MESSAGE"
  BY DEF Op, Operation, SuccessStatus, FailureStatus, OperationTypes
<1>3. own \in Seq(Operation) /\ Len(own) = Len(accounts)
  BY <1>1
<1> HIDE DEF own, message
<1>4. /\ Append(own, message) \in Seq(Operation)
      /\ Len(Append(own, message)) = Len(accounts) + 1
      /\ Append(own, message)[Len(accounts) + 1] = message
      /\ \A i \in 1..Len(accounts) : Append(own, message)[i] = own[i]
  BY <1>2, <1>3
<1>5. ParseGenesisOperationsV2(accounts) = Append(own, message)
  BY DEF ParseGenesisOperationsV2, own, message
<1> QED
  BY <1>1, <1>2, <1>4, <1>5 DEF Numbered, NoClaims, IsGeneral

\* A parsed transaction: numbered operations without claims.  One with four
\* operations names its sender where MakeBlockWithReceipts looks for it.
LEMMA ParsedOperations ==
  ASSUME NEW tx \in Transaction
  PROVE  /\ ParseTransaction(tx) \in Seq(Operation)
         /\ Numbered(ParseTransaction(tx))
         /\ NoClaims(ParseTransaction(tx))
         /\ IsGeneral(ParseTransaction(tx)) <=> ~IsBase(tx)
         /\ IsGeneral(ParseTransaction(tx)) =>
              /\ ParseTransaction(tx)[1].account = tx.from
              /\ ParseTransaction(tx)[3].account = tx.from
         /\ tx.from \in Address
PROOF
<1>1. /\ tx.from \in Address /\ tx.to \in Address
      /\ tx.value \in Nat \cup {None} /\ tx.stepLimit \in Nat /\ tx.fee \in Nat
  BY DEF Transaction
<1>2. Values(tx) \in Int /\ -Values(tx) \in Int
  BY <1>1 DEF Values
<1>3. ASSUME NEW fee \in Nat
      PROVE  /\ TransferAndFee(tx, fee) \in Seq(Operation)
             /\ Numbered(TransferAndFee(tx, fee))
             /\ NoClaims(TransferAndFee(tx, fee))
             /\ IsGeneral(TransferAndFee(tx, fee))
             /\ TransferAndFee(tx, fee)[1].account = tx.from
             /\ TransferAndFee(tx, fee)[3].account = tx.from
  <2> DEFINE o1 == Op(0, {},  "TRANSFER", tx.from,  -Values(tx))
             o2 == Op(1, {0}, "TRANSFER", tx.to,    Values(tx))
             o3 == Op(2, {1}, "FEE",      tx.from,  -fee)
             o4 == Op(3, {2}, "FEE",      Treasury, fee)
  <2>1. o1 \in Operation /\ o2 \in Operation
    BY <1>1, <1>2 DEF Op, Operation, SuccessStatus, FailureStatus, OperationTypes
  <2>2. o3 \in Operation /\ o4 \in Operation
    BY <1>1, AddressAssumption
    DEF Op, Operation, SuccessStatus, FailureStatus, OperationTypes
  <2>3. /\ o1.index = 0 /\ o1.related = {}  /\ o1.type # "CLAIM" /\ o1.account = tx.from
        /\ o2.index = 1 /\ o2.related = {0} /\ o2.type # "CLAIM"
        /\ o3.index = 2 /\ o3.related = {1} /\ o3.type # "CLAIM" /\ o3.account = tx.from
        /\ o4.index = 3 /\ o4.related = {2} /\ o4.type # "CLAIM"
    BY DEF Op
  <2>4. TransferAndFee(tx, fee) = << o1, o2, o3, o4 >>
    BY DEF TransferAndFee
  <2> HIDE DEF o1, o2, o3, o4
  <2> QED
    BY <2>1, <2>2, <2>3, <2>4 DEF Numbered, NoClaims, IsGeneral
<1>4. /\ << MakeBaseOperations >> \in Seq(Operation)
      /\ Numbered(<< MakeBaseOperations >>)
      /\ NoClaims(<< MakeBaseOperations >>)
      /\ ~IsGeneral(<< MakeBaseOperations >>)
  BY DEF MakeBaseOperations, Op, Operation, SuccessStatus, FailureStatus,
         OperationTypes, Numbered, NoClaims, IsGeneral
<1> QED
  BY <1>1, <1>3, <1>4
  DEF ParseTransaction, ParseOperationsV2, ParseOperationsV3, IsBase

\* What one event log appends: numbered on from last, as many operations as
\* lastOpIndex is moved by, and a claim paid to fa.
LEMMA LogOperations ==
  ASSUME NEW fa \in Address, NEW el \in EventLog, NEW last \in Int, last >= -1
  PROVE  /\ LogOps(fa, el, last) \in Seq(Operation)
         /\ Len(LogOps(fa, el, last)) = LogAdvance(el)
         /\ LogAdvance(el) \in Nat
         /\ \A i \in 1..LogAdvance(el) :
              /\ LogOps(fa, el, last)[i].index = last + i
              /\ \A j \in LogOps(fa, el, last)[i].related : j < last + i
              /\ LogOps(fa, el, last)[i].type # "FEE"
         /\ ClaimsPaidTo(LogOps(fa, el, last), fa)
PROOF
<1> USE AddressAssumption
    DEF Op, Operation, SuccessStatus, FailureStatus, OperationTypes, ClaimsPaidTo
<1>1. CASE el.sig = "ICXTransfer(Address,Address,int)"
  <2>1. /\ el.indexed[1] \in Address
        /\ el.indexed[2] \in Address
        /\ el.indexed[3] \in Nat
    BY <1>1 DEF EventLog, Claims, Burns
  <2>2. LogOps(fa, el, last) = icxTransferOps(el, last) /\ LogAdvance(el) = 2
    BY <1>1 DEF LogOps, LogAdvance, Claims, Burns
  <2> QED
    BY <2>1, <2>2 DEF icxTransferOps
<1>2. CASE el.sig = "ICXIssued(int,int,int,int)"
  <2>1. el.data[3] \in Nat
    BY <1>2 DEF EventLog, Claims, Burns
  <2>2. LogOps(fa, el, last) = issueOps(el, last) /\ LogAdvance(el) = 1
    BY <1>2 DEF LogOps, LogAdvance, Claims, Burns
  <2> QED
    BY <2>1, <2>2 DEF issueOps
<1>3. CASE el.sig \in Claims
  <2>1. el.data[2] \in Nat
    BY <1>3 DEF EventLog, Claims, Burns
  <2>2. LogOps(fa, el, last) = getClaimOps(fa, el, last) /\ LogAdvance(el) = 2
    BY <1>3 DEF LogOps, LogAdvance, Claims, Burns
  <2> QED
    BY <2>1, <2>2 DEF getClaimOps
<1>4. CASE el.sig \in Burns
  <2>1. el.data \in Seq(Nat) /\ el.data # <<>>
    BY <1>4 DEF EventLog, Claims, Burns
  <2>2. el.data[1] \in Nat
    BY <2>1
  <2>3. LogOps(fa, el, last) = getBurnOps(el, last) /\ LogAdvance(el) = 1
    BY <1>4 DEF LogOps, LogAdvance, Claims, Burns
  <2> QED
    BY <2>2, <2>3 DEF getBurnOps
<1>5. CASE el.sig = "DepositWithdrawn(bytes,Address,int,int)"
  <2>1. el.indexed[2] \in Address /\ el.data[1] \in Nat
    BY <1>5 DEF EventLog, Claims, Burns
  <2>2. LogOps(fa, el, last) = getDepositWithdrawn(el, last) /\ LogAdvance(el) = 1
    BY <1>5 DEF LogOps, LogAdvance, Claims, Burns
  <2> QED
    BY <2>1, <2>2 DEF getDepositWithdrawn
<1>6. CASE el.sig = "other"
  <2>1. LogOps(fa, el, last) = <<>> /\ LogAdvance(el) = 0
    BY <1>6 DEF LogOps, LogAdvance, Claims, Burns
  <2> QED
    BY <2>1
<1>7. \/ el.sig = "ICXTransfer(Address,Address,int)"
      \/ el.sig = "ICXIssued(int,int,int,int)"
      \/ el.sig \in Claims
      \/ el.sig \in Burns
      \/ el.sig = "DepositWithdrawn(bytes,Address,int,int)"
      \/ el.sig = "other"
  BY DEF EventLog
<1> QED
  BY <1>1, <1>2, <1>3, <1>4, <1>5, <1>6, <1>7

\* Operations that differ from others in status and amount only.
SameShape(new, old) ==
  /\ DOMAIN new = DOMAIN old
  /\ \A i \in DOMAIN old :
       /\ new[i].index = old[i].index
       /\ new[i].related = old[i].related
       /\ new[i].type = old[i].type
       /\ new[i].account = old[i].account

LEMMA ShapeKeeps ==
  ASSUME NEW old \in Seq(Operation), NEW new \in Seq(Operation), SameShape(new, old)
  PROVE  /\ Numbered(old) => Numbered(new)
         /\ NoClaims(old) => NoClaims(new)
         /\ \A account : ClaimsPaidTo(old, account) => ClaimsPaidTo(new, account)
         /\ Len(new) = Len(old)
PROOF
<1>1. DOMAIN new = DOMAIN old
  BY DEF SameShape
<1>2. Len(new) = Len(old)
  BY <1>1
<1>3. Numbered(old) => Numbered(new)
  BY DEF SameShape, Numbered
<1>4. NoClaims(old) => NoClaims(new)
  BY DEF SameShape, NoClaims
<1>5. ASSUME NEW account, ClaimsPaidTo(old, account)
      PROVE  ClaimsPaidTo(new, account)
  BY <1>5 DEF SameShape, ClaimsPaidTo
<1> QED
  BY <1>2, <1>3, <1>4, <1>5

\* Setting the fees touches two amounts, and sets the treasury's fee to what
\* the receipt says.
LEMMA RewrittenFees ==
  ASSUME NEW operations \in Seq(Operation), NEW receipt \in TransactionResult,
         IsGeneral(operations) => operations[3].account \in Address
  PROVE  /\ RewriteFees(operations, receipt) \in Seq(Operation)
         /\ SameShape(RewriteFees(operations, receipt), operations)
         /\ FeesMatch(RewriteFees(operations, receipt), receipt)
PROOF
<1>1. CASE ~(IsGeneral(operations) /\ receipt.stepUsed # 0)
  BY <1>1 DEF RewriteFees, SameShape, FeesMatch
<1>2. CASE IsGeneral(operations) /\ receipt.stepUsed # 0
  <2> DEFINE paid == receipt.stepUsed * receipt.stepPrice
             step == GetUserStep(operations[3].account, receipt.stepDetails)
             owed == -(step * receipt.stepPrice)
             o3 == [operations[3] EXCEPT !.amount = owed]
             o4 == [operations[4] EXCEPT !.amount = paid]
             new == [operations EXCEPT ![4] = o4, ![3] = o3]
  <2>1. 3 \in DOMAIN operations /\ 4 \in DOMAIN operations
    BY <1>2 DEF IsGeneral
  <2>2. operations[3] \in Operation /\ operations[4] \in Operation
    BY <2>1
  <2>3. receipt.stepUsed \in Nat /\ receipt.stepPrice \in Nat
    BY DEF TransactionResult
  <2>4. step \in Nat
    BY <1>2 DEF TransactionResult, GetUserStep
  <2>5. paid \in Int /\ owed \in Int
    <3> HIDE DEF step
    <3> QED
      BY <2>3, <2>4
  <2> HIDE DEF paid, owed, step
  <2>6. /\ o3 \in Operation
        /\ o4 \in Operation
        /\ o4.amount = paid
        /\ o3.index = operations[3].index /\ o3.related = operations[3].related
        /\ o3.type = operations[3].type /\ o3.account = operations[3].account
        /\ o4.index = operations[4].index /\ o4.related = operations[4].related
        /\ o4.type = operations[4].type /\ o4.account = operations[4].account
    BY <2>2, <2>5 DEF Operation
  <2>7. RewriteFees(operations, receipt) = new
    BY <1>2, <2>1, <2>2 DEF RewriteFees, paid, owed, step
  <2> HIDE DEF o3, o4
  <2>8. new \in Seq(Operation) /\ new[4] = o4
    BY <2>1, <2>6
  <2>9. SameShape(new, operations)
    BY <2>1, <2>6 DEF SameShape
  <2>10. FeesMatch(new, receipt)
    BY <2>6, <2>8 DEF FeesMatch, paid
  <2> QED
    BY <2>7, <2>8, <2>9, <2>10
<1> QED
  BY <1>1, <1>2

\* Setting the status touches no amount, and gives every transfer the
\* receipt's status.
LEMMA TransferStatus ==
  ASSUME NEW operations \in Seq(Operation), NEW receipt \in TransactionResult
  PROVE  /\ SetTransferStatus(operations, receipt) \in Seq(Operation)
         /\ SameShape(SetTransferStatus(operations, receipt), operations)
         /\ FeesMatch(operations, receipt) =>
              FeesMatch(SetTransferStatus(operations, receipt), receipt)
         /\ \A i \in DOMAIN operations :
              operations[i].type = "TRANSFER" =>
                SetTransferStatus(operations, receipt)[i].status = StatusFlag(receipt)
PROOF
<1> DEFINE new == SetTransferStatus(operations, receipt)
<1>1. StatusFlag(receipt) \in {SuccessStatus, FailureStatus}
  BY DEF StatusFlag
<1>2. ASSUME NEW i \in DOMAIN operations
      PROVE  /\ new[i] \in Operation
             /\ new[i].index = operations[i].index
             /\ new[i].related = operations[i].related
             /\ new[i].type = operations[i].type
             /\ new[i].account = operations[i].account
             /\ new[i].amount = operations[i].amount
             /\ operations[i].type = "TRANSFER" => new[i].status = StatusFlag(receipt)
  <2>1. operations[i] \in Operation
    OBVIOUS
  <2>2. new[i] = IF operations[i].type = "TRANSFER"
                 THEN [operations[i] EXCEPT !.status = StatusFlag(receipt)]
                 ELSE operations[i]
    BY DEF SetTransferStatus
  <2> HIDE DEF new
  <2> QED
    BY <1>1, <2>1, <2>2 DEF Operation
<1>3. DOMAIN new = DOMAIN operations /\ new \in Seq(Operation)
  <2>1. DOMAIN operations = 1..Len(operations) /\ Len(operations) \in Nat
    OBVIOUS
  <2>2. new = [i \in 1..Len(operations) |-> new[i]]
    BY <2>1 DEF SetTransferStatus
  <2> HIDE DEF new
  <2>3. \A i \in 1..Len(operations) : new[i] \in Operation
    BY <1>2, <2>1
  <2> QED
    BY <2>1, <2>2, <2>3
<1> HIDE DEF new
<1>4. SameShape(new, operations)
  BY <1>2, <1>3 DEF SameShape
<1>5. FeesMatch(operations, receipt) => FeesMatch(new, receipt)
  BY <1>2, <1>3 DEF FeesMatch, IsGeneral
<1> QED
  BY <1>2, <1>3, <1>4, <1>5 DEF new

\* Appending the operations of one more log to a list whose last index is
\* last keeps the list numbered and last the index of its last operation.
LEMMA AppendedLog ==
  ASSUME NEW operations \in Seq(Operation), Numbered(operations),
         NEW fa \in Address, NEW el \in EventLog, NEW last,
         last = Len(operations) - 1
  PROVE  LET new == operations \o LogOps(fa, el, last)
         IN /\ new \in Seq(Operation)
            /\ Numbered(new)
            /\ last + LogAdvance(el) = Len(new) - 1
            /\ ClaimsPaidTo(operations, fa) => ClaimsPaidTo(new, fa)
            /\ \A receipt : FeesMatch(operations, receipt) => FeesMatch(new, receipt)
PROOF
<1> DEFINE logged == LogOps(fa, el, last)
           new == operations \o logged
<1>1. /\ logged \in Seq(Operation)
      /\ Len(logged) = LogAdvance(el)
      /\ LogAdvance(el) \in Nat
      /\ \A i \in 1..LogAdvance(el) :
           /\ logged[i].index = last + i
           /\ \A j \in logged[i].related : j < last + i
           /\ logged[i].type # "FEE"
      /\ ClaimsPaidTo(logged, fa)
  <2>1. last \in Int /\ last >= -1
    OBVIOUS
  <2> QED
    BY <2>1, LogOperations
<1> HIDE DEF logged
<1>2. /\ new \in Seq(Operation)
      /\ Len(new) = Len(operations) + Len(logged)
      /\ Len(operations) \in Nat /\ Len(logged) \in Nat
      /\ DOMAIN new = 1..Len(new)
      /\ DOMAIN operations = 1..Len(operations)
      /\ DOMAIN logged = 1..Len(logged)
  <2>1. logged \in Seq(Operation)
    BY <1>1
  <2>2. new \in Seq(Operation)
    BY <2>1
  <2>3. Len(new) = Len(operations) + Len(logged)
    BY <2>1
  <2> QED
    BY <2>1, <2>2, <2>3
<1>3. ASSUME NEW i \in DOMAIN new
      PROVE  \/ i \in DOMAIN operations /\ new[i] = operations[i]
             \/ /\ i - Len(operations) \in DOMAIN logged
                /\ new[i] = logged[i - Len(operations)]
  BY <1>1, <1>2
<1> HIDE DEF new
<1>4. ASSUME NEW i \in DOMAIN new
      PROVE  new[i].index = i - 1 /\ \A j \in new[i].related : j < i - 1
  <2>1. CASE i \in DOMAIN operations /\ new[i] = operations[i]
    BY <2>1 DEF Numbered
  <2>2. CASE /\ i - Len(operations) \in DOMAIN logged
             /\ new[i] = logged[i - Len(operations)]
    <3>1. last + (i - Len(operations)) = i - 1
      BY <1>2, <2>2
    <3> QED
      BY <1>1, <1>2, <2>2, <3>1
  <2> QED
    BY <1>3, <2>1, <2>2
<1>5. ASSUME ClaimsPaidTo(operations, fa)
      PROVE  ClaimsPaidTo(new, fa)
  BY <1>1, <1>3, <1>5 DEF ClaimsPaidTo
<1>6. ASSUME NEW receipt, FeesMatch(operations, receipt)
      PROVE  FeesMatch(new, receipt)
  BY <1>1, <1>2, <1>3, <1>6 DEF FeesMatch, IsGeneral
<1> QED
  BY <1>1, <1>2, <1>4, <1>5, <1>6 DEF new, logged, Numbered

-------------------------------------------------------------------------------
(* The inductive invariant. *)

RawIn(c, hash) == c[hash.block + 1].txs[hash.position]

ClaimantIn(c, hash) ==
  IF IsBase(RawIn(c, hash)) THEN SystemScore ELSE RawIn(c, hash).from

InChain(c, hash) ==
  /\ hash.block + 1 \in DOMAIN c
  /\ hash.block > 0 => hash.position \in DOMAIN c[hash.block + 1].txs

\* As the parser left it.
Fresh(tx, c) ==
  tx.operations = IF tx.hash.block = 0
                  THEN ParseGenesisOperationsV2(GenesisAccounts)
                  ELSE ParseTransaction(RawIn(c, tx.hash))

TransactionsOK(l, c) ==
  \A t \in DOMAIN l.txs :
    /\ InChain(c, l.txs[t].hash)
    /\ Numbered(l.txs[t].operations)
    /\ IF l.txs[t].hash.block = 0 THEN NoClaims(l.txs[t].operations)
       ELSE ClaimsPaidTo(l.txs[t].operations, ClaimantIn(c, l.txs[t].hash))

WantsOK(l) ==
  /\ l.pc \in {"getBlock", "getBlockReceipts", "blockFees"} =>
       l.want \in BlockRequest
  /\ l.pc \in {"getTransaction", "getTransactionResult", "txFees"} =>
       l.want \in TransactionRequest
  /\ l.pc \in {"logs", "answered"} => l.want \in BlockRequest \cup TransactionRequest

\* The pcs at which a block, or a transaction, has been parsed.
HasBlock(l) ==
  \/ l.pc \in {"getBlockReceipts", "blockFees"}
  \/ l.pc \in {"logs", "answered"} /\ l.want.endpoint = "block"

HasTransaction(l) ==
  \/ l.pc \in {"getTransactionResult", "txFees"}
  \/ l.pc = "logs" /\ l.want.endpoint = "transaction"

HasReceipts(l) == HasBlock(l) /\ l.pc # "getBlockReceipts"

BlockOK(l, c) ==
  HasBlock(l) =>
    /\ l.id \in BlockIdentifier
    /\ l.id.index + 1 \in DOMAIN c
    /\ Requested(l)
    /\ l.id = Identifier(l.id.index)
    /\ l.parent = ParentIdentifier(l.id.index)
    /\ l.id.index > 0 => Len(l.txs) =
         IF \A i \in DOMAIN c[l.id.index + 1].txs :
              c[l.id.index + 1].txs[i].wellFormed
         THEN Len(c[l.id.index + 1].txs) ELSE 0
    /\ \A t \in DOMAIN l.txs : l.txs[t].hash = TxHash(l.id.index, t)

ReceiptsOK(l, c) ==
  /\ HasReceipts(l) =>
       l.receipts = ParseTransactionResults(c[l.id.index + 1].receipts)
  /\ HasTransaction(l) =>
       /\ Len(l.txs) = 1 /\ l.n = 1
       /\ l.txs[1].hash = l.want.hash /\ l.want.hash.block > 0

Unfinished(l, c) ==
  \A t \in DOMAIN l.txs :
    \/ HasBlock(l) /\ l.pc # "logs" /\ t >= l.n
    \/ HasBlock(l) /\ l.pc = "logs" /\ t > l.n
    \/ HasTransaction(l) /\ l.pc # "logs"
    => Fresh(l.txs[t], c)

Finished(l, c) ==
  HasReceipts(l) =>
    \A t \in DOMAIN l.txs :
      t < l.n => MatchesReceipt(l.txs[t].operations, c[l.id.index + 1].receipts[t])

LoopOK(l, c) ==
  /\ l.n > 0
  /\ l.pc \in Steps \ {"blockFees", "logs"} => l.n = 1
  /\ l.pc \in Steps \ {"logs"} /\ l.n = 1 => l.fa = SystemScore
  /\ l.pc = "getBlock" => l.since + 1 \in DOMAIN c
  /\ l.pc = "answered" /\ l.want.endpoint = "block" => l.n \notin DOMAIN l.txs

LogsOK(l, c) ==
  l.pc = "logs" =>
    /\ l.n \in DOMAIN l.txs
    /\ l.n \in DOMAIN l.receipts
    /\ l.receipts[l.n] # None
    /\ l.receipts[l.n] \in TransactionResult
    /\ l.k > 0
    /\ l.last = Len(l.txs[l.n].operations) - 1
    /\ FeesMatch(l.txs[l.n].operations, l.receipts[l.n])
    /\ IF l.txs[l.n].hash.block = 0
       THEN l.receipts[l.n].eventLogs = <<>>
       ELSE l.fa = ClaimantIn(c, l.txs[l.n].hash)

HandlerOK(l, c) ==
  /\ l \in Handler
  /\ TransactionsOK(l, c)
  /\ WantsOK(l)
  /\ BlockOK(l, c)
  /\ ReceiptsOK(l, c)
  /\ Unfinished(l, c)
  /\ Finished(l, c)
  /\ LoopOK(l, c)
  /\ LogsOK(l, c)

ChainOK(c) ==
  /\ c \in Seq(Body)
  /\ Len(c) > 0
  /\ c[1] = Genesis
  /\ \A h \in 2..Len(c) : c[h] \in Bodies

IInv ==
  /\ mode \in {"ONLINE", "OFFLINE"}
  /\ ChainOK(chain)
  /\ DOMAIN req = Requests
  /\ req = [r \in Requests |-> req[r]]
  /\ \A r \in Requests : HandlerOK(req[r], chain)

-------------------------------------------------------------------------------
(* The chain. *)

LEMMA GenesisIsBody == Genesis \in Body
PROOF
<1>1. [a \in Address |-> 0] \in [Address -> Nat]
  OBVIOUS
<1>2. GenesisReceipt \in TransactionResult
  <2> DEFINE details == [a \in Address |-> 0]
  <2>1. details \in [Address -> Nat]
    BY <1>1
  <2>2. GenesisReceipt =
          [success |-> TRUE, stepUsed |-> 0, stepPrice |-> 0,
           stepDetails |-> details, eventLogs |-> <<>>, wellFormed |-> TRUE]
    BY DEF GenesisReceipt
  <2>3. <<>> \in Seq(EventLog)
    OBVIOUS
  <2> HIDE DEF details
  <2> QED
    BY <2>1, <2>2, <2>3 DEF TransactionResult
<1>3. << GenesisReceipt >> \in Seq(TransactionResult) /\ <<>> \in Seq(Transaction)
  BY <1>2
<1>4. "0.1a" \in SupportedVersions \cup {"other"}
  BY DEF SupportedVersions
<1> HIDE DEF GenesisReceipt
<1> QED
  BY <1>3, <1>4 DEF Genesis, Body

LEMMA BodyFields ==
  ASSUME NEW c, ChainOK(c), NEW h \in DOMAIN c
  PROVE  /\ c[h] \in Body
         /\ c[h].txs \in Seq(Transaction)
         /\ c[h].receipts \in Seq(TransactionResult)
PROOF
<1>1. c[h] \in Body
  BY DEF ChainOK
<1> QED
  BY <1>1 DEF Body

\* A new block leaves the blocks below it, and so every handler, as they are.
LEMMA GrownChain ==
  ASSUME NEW c, ChainOK(c), NEW body \in Bodies
  PROVE  /\ ChainOK(Append(c, body))
         /\ DOMAIN c \subseteq DOMAIN Append(c, body)
         /\ \A h \in DOMAIN c : Append(c, body)[h] = c[h]
PROOF
<1>1. body \in Body
  BY BlockAssumption
<1>2. c \in Seq(Body) /\ Len(c) > 0 /\ c[1] = Genesis
      /\ \A h \in 2..Len(c) : c[h] \in Bodies
  BY DEF ChainOK
<1> DEFINE d == Append(c, body)
<1>3. /\ d \in Seq(Body)
      /\ Len(d) = Len(c) + 1
      /\ DOMAIN d = 1..(Len(c) + 1)
      /\ DOMAIN c = 1..Len(c)
      /\ Len(c) \in Nat
      /\ \A h \in 1..Len(c) : d[h] = c[h]
      /\ d[Len(c) + 1] = body
  BY <1>1, <1>2
<1> HIDE DEF d
<1>4. ChainOK(d)
  BY <1>2, <1>3 DEF ChainOK
<1> QED
  BY <1>3, <1>4 DEF d

LEMMA GrownHandler ==
  ASSUME NEW c, ChainOK(c), NEW d, DOMAIN c \subseteq DOMAIN d,
         \A h \in DOMAIN c : d[h] = c[h],
         NEW l, HandlerOK(l, c)
  PROVE  HandlerOK(l, d)
PROOF
<1>1. l \in Handler /\ WantsOK(l)
  BY DEF HandlerOK
<1>2. \A t \in DOMAIN l.txs :
        /\ InChain(c, l.txs[t].hash)
        /\ InChain(d, l.txs[t].hash)
        /\ l.txs[t].hash.block + 1 \in DOMAIN c
        /\ RawIn(d, l.txs[t].hash) = RawIn(c, l.txs[t].hash)
        /\ ClaimantIn(d, l.txs[t].hash) = ClaimantIn(c, l.txs[t].hash)
  BY DEF HandlerOK, TransactionsOK, InChain, RawIn, ClaimantIn
<1>3. TransactionsOK(l, d)
  BY <1>2 DEF HandlerOK, TransactionsOK
<1>4. HasBlock(l) => l.id.index + 1 \in DOMAIN c /\ d[l.id.index + 1] = c[l.id.index + 1]
  BY DEF HandlerOK, BlockOK
<1>5. BlockOK(l, d)
  BY <1>4 DEF HandlerOK, BlockOK
<1>6. ReceiptsOK(l, d)
  BY <1>4 DEF HandlerOK, ReceiptsOK, HasReceipts
<1>7. Unfinished(l, d)
  BY <1>2 DEF HandlerOK, Unfinished, Fresh
<1>8. Finished(l, d)
  BY <1>4 DEF HandlerOK, Finished, HasReceipts
<1>9. LoopOK(l, d)
  BY DEF HandlerOK, LoopOK
<1>10. LogsOK(l, d)
  BY <1>2 DEF HandlerOK, LogsOK
<1> QED
  BY <1>1, <1>3, <1>5, <1>6, <1>7, <1>8, <1>9, <1>10 DEF HandlerOK

\* A handler's step leaves the chain and the other handlers alone.
LEMMA OneHandler ==
  ASSUME IInv, NEW r \in Requests, NEW l, HandlerOK(l, chain), Become(r, l)
  PROVE  IInv'
PROOF
<1>1. chain' = chain /\ mode' = mode /\ req' = [req EXCEPT ![r] = l]
  BY DEF Become
<1>2. ChainOK(chain)'
  BY <1>1 DEF IInv
<1>3. DOMAIN req' = Requests /\ req' = [s \in Requests |-> req'[s]]
  BY <1>1 DEF IInv
<1>4. ASSUME NEW s \in Requests
      PROVE  HandlerOK(req[s], chain)'
  <2>1. CASE s = r
    BY <1>1, <2>1 DEF IInv
  <2>2. CASE s # r
    <3>1. req'[s] = req[s]
      BY <1>1, <2>2 DEF IInv
    <3>2. HandlerOK(req[s], chain)
      BY DEF IInv
    <3> QED
      BY <1>1, <3>1, <3>2
  <2> QED
    BY <2>1, <2>2
<1> QED
  BY <1>1, <1>2, <1>3, <1>4 DEF IInv

LEMMA GrowingKeepsIInv ==
  ASSUME IInv, ProduceBlock
  PROVE  IInv'
PROOF
<1>1. PICK body \in Bodies : chain' = Append(chain, body)
  BY DEF ProduceBlock
<1>2. ChainOK(chain)
  BY DEF IInv
<1>3. /\ ChainOK(chain')
      /\ DOMAIN chain \subseteq DOMAIN chain'
      /\ \A h \in DOMAIN chain : chain'[h] = chain[h]
  BY <1>1, <1>2, GrownChain
<1>4. \A r \in Requests : HandlerOK(req[r], chain')
  BY <1>2, <1>3, GrownHandler DEF IInv
<1> QED
  BY <1>3, <1>4 DEF IInv, ProduceBlock

-------------------------------------------------------------------------------
(* Steps that end a handler or start one. *)

LEMMA IdleOK ==
  ASSUME NEW c, ChainOK(c)
  PROVE  HandlerOK(Idle, c)
PROOF
<1>1. Idle \in Handler
  BY AddressAssumption DEF Idle, Handler
<1>2. Idle.pc = "idle" /\ Idle.txs = <<>> /\ Idle.n = 1
  BY DEF Idle
<1> HIDE DEF Idle
<1> QED
  BY <1>1, <1>2
  DEF HandlerOK, TransactionsOK, WantsOK, BlockOK, ReceiptsOK, Unfinished, Finished,
      LoopOK, LogsOK, HasBlock, HasTransaction, HasReceipts, Steps

LEMMA InitOK == Init => IInv
PROOF
<1> SUFFICES ASSUME Init PROVE IInv
  OBVIOUS
<1>1. chain = << Genesis >>
  BY DEF Init
<1>2. ChainOK(chain)
  BY <1>1, GenesisIsBody DEF ChainOK
<1>3. req = [r \in Requests |-> Idle]
  BY DEF Init
<1>4. \A r \in Requests : HandlerOK(req[r], chain)
  BY <1>2, <1>3, IdleOK
<1> QED
  BY <1>2, <1>3, <1>4 DEF Init, IInv

\* A handler that fails or aborts keeps what it has, and nothing is said of it
\* beyond its transactions.
LEMMA EndedOK ==
  ASSUME NEW c, NEW l, HandlerOK(l, c),
         NEW pc \in {"failed", "aborted"}, NEW e \in ErrorNames \cup {None},
         NEW new, new = [l EXCEPT !.pc = pc, !.error = e]
  PROVE  HandlerOK(new, c)
PROOF
<1>1. l \in Handler /\ TransactionsOK(l, c) /\ LoopOK(l, c)
  BY DEF HandlerOK
<1>2. new \in Handler
  BY <1>1 DEF Handler, Outcomes
<1>3. new.pc = pc /\ new.txs = l.txs /\ new.n = l.n
  BY <1>1 DEF Handler
<1> QED
  BY <1>1, <1>2, <1>3
  DEF HandlerOK, TransactionsOK, WantsOK, BlockOK, ReceiptsOK, Unfinished, Finished,
      LoopOK, LogsOK, HasBlock, HasTransaction, HasReceipts, Steps

LEMMA FailKeepsIInv ==
  ASSUME IInv, NEW r \in Requests, NEW e \in ErrorNames, Fail(r, e)
  PROVE  IInv'
PROOF
<1> DEFINE new == [req[r] EXCEPT !.pc = "failed", !.error = e]
<1>1. HandlerOK(req[r], chain)
  BY DEF IInv
<1>2. HandlerOK(new, chain)
  BY <1>1, EndedOK
<1> QED
  BY <1>2, OneHandler DEF Fail

LEMMA AbortKeepsIInv ==
  ASSUME IInv, NEW r \in Requests, Abort(r)
  PROVE  IInv'
PROOF
<1> DEFINE new == [req[r] EXCEPT !.pc = "aborted"]
<1>1. HandlerOK(req[r], chain) /\ req[r] \in Handler
  BY DEF IInv, HandlerOK
<1>2. /\ new = [req[r] EXCEPT !.pc = "aborted", !.error = req[r].error]
      /\ req[r].error \in ErrorNames \cup {None}
  BY <1>1 DEF Handler
<1>3. HandlerOK(new, chain)
  BY <1>1, <1>2, EndedOK
<1> QED
  BY <1>3, OneHandler DEF Abort

LEMMA DeliverKeepsIInv ==
  ASSUME IInv, NEW r \in Requests, Deliver(r)
  PROVE  IInv'
BY IdleOK, OneHandler DEF Deliver, IInv

LEMMA AcceptKeepsIInv ==
  ASSUME IInv, NEW r \in Requests, NEW want, NEW pc, Accept(r, want, pc),
         \/ want \in BlockRequest /\ pc = "getBlock"
         \/ want \in TransactionRequest /\ pc = "getTransaction"
  PROVE  IInv'
PROOF
<1> DEFINE arrived == [Idle EXCEPT !.want = want, !.since = Len(chain) - 1]
           new == IF mode = "ONLINE" THEN [arrived EXCEPT !.pc = pc]
                  ELSE [arrived EXCEPT !.pc = "failed",
                                       !.error = "ErrUnavailableOffline"]
<1>1. ChainOK(chain) /\ Len(chain) - 1 \in Nat /\ Len(chain) \in DOMAIN chain
  BY DEF IInv, ChainOK
<1>2. Idle \in Handler
  BY <1>1, IdleOK DEF HandlerOK
<1>3. /\ Idle.pc = "idle" /\ Idle.txs = <<>> /\ Idle.n = 1 /\ Idle.fa = SystemScore
  BY DEF Idle
<1>4. new \in Handler
  BY <1>1, <1>2 DEF Handler, Steps, Outcomes, ErrorNames
<1>5. /\ new.pc \in {pc, "failed"} /\ new.want = want /\ new.since = Len(chain) - 1
      /\ new.txs = <<>> /\ new.n = 1 /\ new.fa = SystemScore
  BY <1>2, <1>3 DEF Handler
<1> HIDE DEF new
<1>6. HandlerOK(new, chain)
  BY <1>1, <1>4, <1>5
  DEF HandlerOK, TransactionsOK, WantsOK, BlockOK, ReceiptsOK, Unfinished, Finished,
      LoopOK, LogsOK, HasBlock, HasTransaction, HasReceipts, Steps
<1> QED
  BY <1>6, OneHandler DEF Accept, new

-------------------------------------------------------------------------------
(* Parsing what the node sends. *)

\* The transactions of a parsed block: all of them, numbered and without
\* claims, or none.
LEMMA ParsedBlock ==
  ASSUME ChainOK(chain), NEW h \in Height
  PROVE  LET txs == ParseBlock(h).transactions
         IN /\ txs \in Seq(RosettaTransaction)
            /\ h > 0 => Len(txs) =
                 IF \A i \in DOMAIN chain[h + 1].txs : chain[h + 1].txs[i].wellFormed
                 THEN Len(chain[h + 1].txs) ELSE 0
            /\ \A t \in DOMAIN txs :
                 /\ txs[t].hash = TxHash(h, t)
                 /\ InChain(chain, txs[t].hash)
                 /\ Fresh(txs[t], chain)
                 /\ Numbered(txs[t].operations)
                 /\ NoClaims(txs[t].operations)
PROOF
<1> DEFINE txs == ParseBlock(h).transactions
           raws == chain[h + 1].txs
<1>1. h \in Nat /\ h + 1 \in DOMAIN chain
  BY DEF Height, ChainOK
<1>2. raws \in Seq(Transaction)
  BY <1>1, BodyFields
<1>3. CASE h = 0
  <2> DEFINE ops == ParseGenesisOperationsV2(GenesisAccounts)
             tx == [hash |-> TxHash(0, 1), operations |-> ops]
  <2>1. ops \in Seq(Operation) /\ Numbered(ops) /\ NoClaims(ops)
    BY BlockAssumption, GenesisOperations
  <2>2. txs = << tx >>
    BY <1>3 DEF ParseBlock, ParseGenesisTransaction
  <2>3. TxHash(0, 1) \in TxHashes /\ TxHash(0, 1).block = 0
    BY DEF TxHash, TxHashes
  <2> HIDE DEF ops, txs
  <2>4. tx \in RosettaTransaction /\ tx.hash = TxHash(0, 1) /\ tx.operations = ops
    BY <2>1, <2>3 DEF RosettaTransaction
  <2> HIDE DEF tx
  <2>5. txs \in Seq(RosettaTransaction) /\ DOMAIN txs = {1} /\ txs[1] = tx
    BY <2>2, <2>4
  <2>6. InChain(chain, tx.hash) /\ Fresh(tx, chain)
    BY <1>1, <1>3, <2>3, <2>4 DEF InChain, Fresh, ops
  <2> QED
    BY <1>3, <2>1, <2>4, <2>5, <2>6 DEF txs
<1>4. CASE h # 0 /\ \A i \in DOMAIN raws : raws[i].wellFormed
  <2>1. txs = [i \in DOMAIN raws |->
                 [hash |-> TxHash(h, i), operations |-> ParseTransaction(raws[i])]]
    BY <1>4 DEF ParseBlock, ParseTransactions, BlockAt
  <2> HIDE DEF txs
  <2>2. ASSUME NEW t \in DOMAIN raws
        PROVE  /\ txs[t] \in RosettaTransaction
               /\ txs[t].hash = TxHash(h, t)
               /\ InChain(chain, txs[t].hash)
               /\ Fresh(txs[t], chain)
               /\ Numbered(txs[t].operations)
               /\ NoClaims(txs[t].operations)
    <3>1. raws[t] \in Transaction /\ t \in Nat
      BY <1>2
    <3>2. /\ txs[t].hash = TxHash(h, t)
          /\ txs[t].operations = ParseTransaction(raws[t])
          /\ txs[t] = [hash |-> TxHash(h, t), operations |-> ParseTransaction(raws[t])]
      BY <2>1
    <3>3. /\ ParseTransaction(raws[t]) \in Seq(Operation)
          /\ Numbered(ParseTransaction(raws[t]))
          /\ NoClaims(ParseTransaction(raws[t]))
      BY <3>1, ParsedOperations
    <3>4. /\ TxHash(h, t) \in TxHashes
          /\ TxHash(h, t).block = h /\ TxHash(h, t).position = t
      BY <1>1, <3>1 DEF TxHash, TxHashes
    <3>5. txs[t] \in RosettaTransaction
      BY <3>2, <3>3, <3>4 DEF RosettaTransaction
    <3>6. InChain(chain, txs[t].hash)
      BY <1>1, <3>2, <3>4 DEF InChain
    <3>7. Fresh(txs[t], chain)
      BY <1>4, <3>2, <3>4 DEF Fresh, RawIn
    <3> QED
      BY <3>2, <3>3, <3>5, <3>6, <3>7
  <2>3. txs \in Seq(RosettaTransaction) /\ Len(txs) = Len(raws) /\ DOMAIN txs = DOMAIN raws
    <3>1. DOMAIN raws = 1..Len(raws) /\ Len(raws) \in Nat
      BY <1>2
    <3>2. txs = [i \in 1..Len(raws) |-> txs[i]]
      BY <2>1, <3>1
    <3>3. \A i \in 1..Len(raws) : txs[i] \in RosettaTransaction
      BY <2>2, <3>1
    <3> HIDE DEF raws
    <3>4. txs \in Seq(RosettaTransaction)
      BY <3>1, <3>2, <3>3
    <3>5. DOMAIN txs = 1..Len(raws)
      BY <3>2
    <3> QED
      BY <3>1, <3>4, <3>5
  <2> QED
    BY <1>4, <2>2, <2>3 DEF txs
<1>5. CASE h # 0 /\ ~\A i \in DOMAIN raws : raws[i].wellFormed
  <2>1. txs = <<>>
    BY <1>5 DEF ParseBlock, ParseTransactions, BlockAt
  <2> HIDE DEF txs
  <2> QED
    BY <1>5, <2>1 DEF txs
<1> QED
  BY <1>3, <1>4, <1>5

LEMMA GetBlockKeepsIInv ==
  ASSUME IInv, NEW r \in Requests, GetBlock(r)
  PROVE  IInv'
PROOF
<1> DEFINE l == req[r]
           h == RequestedHeight(l.want)
           new == [l EXCEPT !.pc = "getBlockReceipts",
                            !.id = ParseBlock(h).id,
                            !.parent = ParseBlock(h).parent,
                            !.txs = ParseBlock(h).transactions]
<1>1. CASE Fail(r, "ErrWrongBlockHash")
  BY <1>1, FailKeepsIInv DEF ErrorNames
<1>2. CASE h \in Height /\ Become(r, new)
  <2>1. /\ HandlerOK(l, chain) /\ l \in Handler /\ l.pc = "getBlock"
        /\ l.n = 1 /\ l.fa = SystemScore /\ l.want \in BlockRequest
        /\ l.since + 1 \in DOMAIN chain
    BY DEF GetBlock, IInv, HandlerOK, LoopOK, WantsOK, Steps
  <2>2. ChainOK(chain) /\ h \in Nat /\ h + 1 \in DOMAIN chain
    BY <1>2 DEF IInv, ChainOK, Height
  <2> DEFINE txs == ParseBlock(h).transactions
  <2>3. /\ txs \in Seq(RosettaTransaction)
        /\ h > 0 => Len(txs) =
             IF \A i \in DOMAIN chain[h + 1].txs : chain[h + 1].txs[i].wellFormed
             THEN Len(chain[h + 1].txs) ELSE 0
        /\ \A t \in DOMAIN txs :
             /\ txs[t].hash = TxHash(h, t)
             /\ InChain(chain, txs[t].hash)
             /\ Fresh(txs[t], chain)
             /\ Numbered(txs[t].operations)
             /\ NoClaims(txs[t].operations)
    BY <1>2, <2>2, ParsedBlock
  <2>4. ParseBlock(h).id = Identifier(h) /\ ParseBlock(h).parent = ParentIdentifier(h)
    BY DEF ParseBlock
  <2>5. /\ Identifier(h) \in BlockIdentifier
        /\ ParentIdentifier(h) \in BlockIdentifier
        /\ Identifier(h).index = h /\ Identifier(h).hash = BlockHash(h)
    BY <2>2 DEF Identifier, ParentIdentifier, BlockIdentifier, BlockHash, BlockHashes
  <2> HIDE DEF h, txs
  <2>6. /\ new \in Handler
        /\ new.pc = "getBlockReceipts" /\ new.want = l.want /\ new.since = l.since
        /\ new.id = Identifier(h) /\ new.parent = ParentIdentifier(h)
        /\ new.txs = txs /\ new.n = 1 /\ new.fa = SystemScore
    BY <2>1, <2>3, <2>4, <2>5 DEF Handler, Steps, txs
  <2>7. IF l.want.index # None THEN h = l.want.index
        ELSE IF l.want.hash # None THEN BlockHash(h) = l.want.hash
        ELSE h >= l.since
    <3>1. CASE l.want.index # None
      BY <3>1 DEF h, RequestedHeight
    <3>2. CASE l.want.index = None /\ l.want.hash # None
      <4>1. l.want.hash \in BlockHashes
        BY <2>1, <3>2 DEF BlockRequest
      <4> QED
        BY <3>2, <4>1 DEF h, RequestedHeight, BlockHash, BlockHashes
    <3>3. CASE l.want.index = None /\ l.want.hash = None
      <4>1. l.since \in Nat /\ l.since + 1 <= Len(chain)
        BY <2>1, <2>2 DEF Handler, ChainOK
      <4>2. h = Len(chain) - 1
        BY <3>3 DEF h, RequestedHeight
      <4> QED
        BY <2>2, <3>3, <4>1, <4>2 DEF ChainOK
    <3> QED
      BY <3>1, <3>2, <3>3
  <2> HIDE DEF new
  <2>8. TransactionsOK(new, chain)
    BY <2>3, <2>6 DEF TransactionsOK, NoClaims, ClaimsPaidTo
  <2>9. BlockOK(new, chain)
    <3>1. Requested(new)
      BY <2>5, <2>6, <2>7 DEF Requested
    <3> QED
      BY <2>2, <2>3, <2>5, <2>6, <3>1 DEF BlockOK
  <2>10. Unfinished(new, chain)
    BY <2>3, <2>6 DEF Unfinished
  <2>11. WantsOK(new) /\ ReceiptsOK(new, chain) /\ Finished(new, chain)
         /\ LoopOK(new, chain) /\ LogsOK(new, chain)
    BY <2>1, <2>6 DEF WantsOK, ReceiptsOK, Finished, LoopOK, LogsOK, HasReceipts,
                      HasTransaction, HasBlock
  <2>12. HandlerOK(new, chain)
    BY <2>6, <2>8, <2>9, <2>10, <2>11 DEF HandlerOK
  <2> QED
    BY <1>2, <2>12, OneHandler
<1> QED
  BY <1>1, <1>2 DEF GetBlock

LEMMA GetBlockReceiptsKeepsIInv ==
  ASSUME IInv, NEW r \in Requests, GetBlockReceipts(r)
  PROVE  IInv'
PROOF
<1> DEFINE l == req[r]
           h == l.id.hash.block
           receipts == ParseTransactionResults(chain[h + 1].receipts)
           new == [l EXCEPT !.pc = "blockFees", !.receipts = receipts]
<1>1. CASE Fail(r, "ErrWrongBlockHash")
  BY <1>1, FailKeepsIInv DEF ErrorNames
<1>2. CASE Become(r, new)
  <2>1. /\ HandlerOK(l, chain) /\ l \in Handler /\ l.pc = "getBlockReceipts"
        /\ HasBlock(l) /\ l.n = 1 /\ l.fa = SystemScore /\ l.want \in BlockRequest
    BY DEF GetBlockReceipts, IInv, HandlerOK, LoopOK, WantsOK, Steps, HasBlock
  <2>2. /\ h = l.id.index /\ l.id.index + 1 \in DOMAIN chain
    BY <2>1 DEF HandlerOK, BlockOK, Identifier, BlockHash
  <2>3. ChainOK(chain) /\ chain[h + 1].receipts \in Seq(TransactionResult)
    BY <2>2, BodyFields DEF IInv
  <2>4. receipts \in Seq(TransactionResult \cup {None})
    <3> DEFINE raws == chain[h + 1].receipts
    <3>1. raws \in Seq(TransactionResult)
      BY <2>3
    <3> HIDE DEF raws
    <3>2. DOMAIN raws = 1..Len(raws) /\ Len(raws) \in Nat
      BY <3>1
    <3>3. receipts = [i \in 1..Len(raws) |-> ParseTransactionResult(raws[i])]
      BY <3>2 DEF ParseTransactionResults, raws
    <3>4. \A i \in 1..Len(raws) :
            ParseTransactionResult(raws[i]) \in TransactionResult \cup {None}
      BY <3>1, <3>2 DEF ParseTransactionResult
    <3> HIDE DEF receipts
    <3> QED
      BY <3>2, <3>3, <3>4
  <2> HIDE DEF receipts
  <2>5. /\ new \in Handler
        /\ new.pc = "blockFees" /\ new.want = l.want /\ new.since = l.since
        /\ new.id = l.id /\ new.parent = l.parent /\ new.txs = l.txs
        /\ new.n = 1 /\ new.fa = SystemScore /\ new.receipts = receipts
    BY <2>1, <2>4 DEF Handler, Steps
  <2> HIDE DEF new, h
  <2>6. TransactionsOK(new, chain)
    BY <2>1, <2>5 DEF HandlerOK, TransactionsOK
  <2>7. BlockOK(new, chain)
    BY <2>1, <2>5 DEF HandlerOK, BlockOK, Requested
  <2>8. Unfinished(new, chain)
    BY <2>1, <2>5 DEF HandlerOK, Unfinished, HasBlock, HasTransaction
  <2>9. Finished(new, chain)
    <3>1. new.txs \in Seq(RosettaTransaction)
      BY <2>5 DEF Handler
    <3> QED
      BY <2>5, <3>1 DEF Finished
  <2>10. ReceiptsOK(new, chain)
    BY <2>2, <2>5 DEF ReceiptsOK, HasTransaction, receipts
  <2>11. WantsOK(new) /\ LoopOK(new, chain) /\ LogsOK(new, chain)
    BY <2>1, <2>5 DEF WantsOK, LoopOK, LogsOK
  <2>12. HandlerOK(new, chain)
    BY <2>5, <2>6, <2>7, <2>8, <2>9, <2>10, <2>11 DEF HandlerOK
  <2> QED
    BY <1>2, <2>12, OneHandler
<1> QED
  BY <1>1, <1>2 DEF GetBlockReceipts, BlockAt

LEMMA AnswerBlockKeepsIInv ==
  ASSUME IInv, NEW r \in Requests, AnswerBlock(r)
  PROVE  IInv'
PROOF
<1> DEFINE l == req[r]
           new == [l EXCEPT !.pc = "answered"]
<1>1. /\ HandlerOK(l, chain) /\ l \in Handler /\ l.pc = "blockFees"
      /\ l.want \in BlockRequest /\ l.want.endpoint = "block" /\ l.n \notin DOMAIN l.txs
  BY DEF AnswerBlock, IInv, HandlerOK, WantsOK, BlockRequest
<1>2. /\ new \in Handler
      /\ new.pc = "answered" /\ new.want = l.want /\ new.since = l.since
      /\ new.id = l.id /\ new.parent = l.parent /\ new.txs = l.txs
      /\ new.n = l.n /\ new.fa = l.fa /\ new.receipts = l.receipts
  BY <1>1 DEF Handler, Outcomes
<1>3. HasBlock(l) /\ HasBlock(new) /\ HasReceipts(l) /\ HasReceipts(new)
  BY <1>1, <1>2 DEF HasBlock, HasReceipts
<1> HIDE DEF new
<1>4. TransactionsOK(new, chain) /\ WantsOK(new)
  BY <1>1, <1>2 DEF HandlerOK, TransactionsOK, WantsOK
<1>5. BlockOK(new, chain)
  BY <1>1, <1>2, <1>3 DEF HandlerOK, BlockOK, Requested
<1>6. ReceiptsOK(new, chain)
  BY <1>1, <1>2, <1>3 DEF HandlerOK, ReceiptsOK, HasTransaction
<1>7. Unfinished(new, chain)
  BY <1>1, <1>2, <1>3 DEF HandlerOK, Unfinished, HasTransaction
<1>8. Finished(new, chain)
  BY <1>1, <1>2, <1>3 DEF HandlerOK, Finished
<1>9. LoopOK(new, chain) /\ LogsOK(new, chain)
  BY <1>1, <1>2 DEF HandlerOK, LoopOK, LogsOK, Steps
<1>10. HandlerOK(new, chain)
  BY <1>2, <1>4, <1>5, <1>6, <1>7, <1>8, <1>9 DEF HandlerOK
<1> QED
  BY <1>10, OneHandler DEF AnswerBlock, new

-------------------------------------------------------------------------------
(* The loop over the transactions. *)

Replaced(txs, n, ops) == [txs EXCEPT ![n].operations = ops]

LEMMA ReplacedOperations ==
  ASSUME NEW txs \in Seq(RosettaTransaction), NEW n \in DOMAIN txs,
         NEW ops \in Seq(Operation),
         NEW new, new = Replaced(txs, n, ops)
  PROVE  /\ new \in Seq(RosettaTransaction)
         /\ DOMAIN new = DOMAIN txs
         /\ Len(new) = Len(txs)
         /\ new[n].operations = ops
         /\ \A t \in DOMAIN txs : new[t].hash = txs[t].hash
         /\ \A t \in DOMAIN txs : t # n => new[t] = txs[t]
PROOF
<1> DEFINE tx == [txs[n] EXCEPT !.operations = ops]
<1>1. txs[n] \in RosettaTransaction
  OBVIOUS
<1>2. /\ tx \in RosettaTransaction
      /\ tx.operations = ops /\ tx.hash = txs[n].hash
  BY <1>1 DEF RosettaTransaction
<1>3. new = [txs EXCEPT ![n] = tx]
  BY DEF Replaced
<1> HIDE DEF tx
<1> QED
  BY <1>2, <1>3

\* A fresh transaction names its sender, if it has a fee; otherwise it is the
\* genesis transaction or the base transaction of its block.
LEMMA FreshSender ==
  ASSUME NEW c, ChainOK(c), NEW tx, tx.hash \in TxHashes, InChain(c, tx.hash),
         Fresh(tx, c)
  PROVE  /\ IsGeneral(tx.operations) =>
              /\ tx.operations[1].account \in Address
              /\ tx.operations[3].account \in Address
         /\ tx.hash.block > 0 /\ IsGeneral(tx.operations) =>
              tx.operations[1].account = ClaimantIn(c, tx.hash)
         /\ tx.hash.block > 0 /\ ~IsGeneral(tx.operations) =>
              ClaimantIn(c, tx.hash) = SystemScore /\ tx.hash.position = 1
PROOF
<1>1. CASE tx.hash.block = 0
  BY <1>1, BlockAssumption, GenesisOperations DEF Fresh
<1>2. CASE tx.hash.block # 0
  <2> DEFINE raw == RawIn(c, tx.hash)
             h == tx.hash.block + 1
  <2>1. /\ tx.hash.block \in Nat /\ tx.hash.block > 0
        /\ h \in DOMAIN c /\ tx.hash.position \in DOMAIN c[h].txs
    BY <1>2 DEF InChain, TxHashes
  <2>2. c[h].txs \in Seq(Transaction) /\ h \in 2..Len(c)
    BY <2>1, BodyFields DEF ChainOK
  <2>3. raw \in Transaction
    BY <2>1, <2>2 DEF RawIn
  <2>4. tx.operations = ParseTransaction(raw)
    BY <1>2 DEF Fresh
  <2>5. c[h] \in Bodies
    BY <2>2 DEF ChainOK
  <2>6. IsBase(raw) => tx.hash.position = 1
    BY <2>1, <2>5, BaseAssumption DEF RawIn
  <2> HIDE DEF raw
  <2>7. ClaimantIn(c, tx.hash) = IF IsBase(raw) THEN SystemScore ELSE raw.from
    BY DEF ClaimantIn, raw
  <2> QED
    BY <2>3, <2>4, <2>6, <2>7, ParsedOperations
<1>3. tx.hash.block \in Nat
  BY DEF TxHashes
<1> QED
  BY <1>1, <1>2

\* The fee step, as both endpoints take it: the operations of a transaction keep
\* their shape and have the receipt's fee, and fa becomes its claimant.
LEMMA FeesStep ==
  ASSUME NEW c, ChainOK(c), NEW tx \in RosettaTransaction,
         NEW receipt \in TransactionResult, NEW fa \in Address,
         InChain(c, tx.hash), Fresh(tx, c),
         tx.hash.position = 1 => fa = SystemScore,
         NEW ops, ops = tx.operations,
         NEW newfa, newfa = ClaimAccount(ops, fa)
  PROVE  /\ RewriteFees(ops, receipt) \in Seq(Operation)
         /\ Len(RewriteFees(ops, receipt)) = Len(ops)
         /\ FeesMatch(RewriteFees(ops, receipt), receipt)
         /\ SameShape(RewriteFees(ops, receipt), ops)
         /\ newfa \in Address
         /\ tx.hash.block > 0 => newfa = ClaimantIn(c, tx.hash)
PROOF
<1> DEFINE priced == RewriteFees(ops, receipt)
<1>1. tx.hash \in TxHashes /\ ops \in Seq(Operation)
  BY DEF RosettaTransaction
<1>2. /\ IsGeneral(ops) => ops[1].account \in Address /\ ops[3].account \in Address
      /\ tx.hash.block > 0 /\ IsGeneral(ops) => ops[1].account = ClaimantIn(c, tx.hash)
      /\ tx.hash.block > 0 /\ ~IsGeneral(ops) =>
           ClaimantIn(c, tx.hash) = SystemScore /\ tx.hash.position = 1
  BY <1>1, FreshSender
<1>3. newfa \in Address /\ (tx.hash.block > 0 => newfa = ClaimantIn(c, tx.hash))
  BY <1>2 DEF ClaimAccount
<1>4. /\ priced \in Seq(Operation)
      /\ SameShape(priced, ops)
      /\ FeesMatch(priced, receipt)
  BY <1>1, <1>2, RewrittenFees
<1> HIDE DEF priced
<1>5. Len(priced) = Len(ops)
  BY <1>1, <1>4, ShapeKeeps
<1> QED
  BY <1>3, <1>4, <1>5 DEF priced

FeesTaken(l) ==
  [l EXCEPT !.pc = "logs", !.k = 1,
            !.txs[l.n].operations = RewriteFees(l.txs[l.n].operations, l.receipts[l.n]),
            !.fa = ClaimAccount(l.txs[l.n].operations, @),
            !.last = Len(l.txs[l.n].operations) - 1]

LEMMA FeesTakenKeepsIInv ==
  ASSUME IInv, NEW r \in Requests, req[r].pc \in {"blockFees", "txFees"},
         req[r].n \in DOMAIN req[r].txs,
         ReceiptFits(req[r].txs[req[r].n].operations, req[r].receipts, req[r].n),
         Become(r, FeesTaken(req[r]))
  PROVE  IInv'
PROOF
<1> DEFINE l == req[r]
           ops == l.txs[l.n].operations
           receipt == l.receipts[l.n]
           txs == Replaced(l.txs, l.n, RewriteFees(ops, receipt))
           fa == ClaimAccount(ops, l.fa)
           new == [l EXCEPT !.pc = "logs", !.k = 1, !.txs = txs, !.fa = fa,
                            !.last = Len(ops) - 1]
<1>1. /\ HandlerOK(l, chain) /\ l \in Handler /\ ChainOK(chain)
      /\ l.pc \in {"blockFees", "txFees"} /\ l.n \in DOMAIN l.txs
  BY DEF IInv, HandlerOK
<1>2. \/ /\ l.pc = "blockFees" /\ l.want \in BlockRequest
          /\ HasBlock(l) /\ HasReceipts(l) /\ ~HasTransaction(l)
          /\ l.want.endpoint = "block"
       \/ /\ l.pc = "txFees" /\ l.want \in TransactionRequest
          /\ ~HasBlock(l) /\ ~HasReceipts(l) /\ HasTransaction(l)
          /\ l.want.endpoint = "transaction"
  BY <1>1 DEF HandlerOK, WantsOK, HasBlock, HasReceipts, HasTransaction,
              BlockRequest, TransactionRequest
<1>3. l.txs \in Seq(RosettaTransaction) /\ l.n \in Nat /\ l.fa \in Address
  BY <1>1 DEF Handler
<1>4. /\ l.n \in DOMAIN l.receipts
      /\ receipt # None
      /\ receipt \in TransactionResult
  <2>1. l.receipts \in Seq(TransactionResult \cup {None})
    BY <1>1 DEF Handler
  <2> QED
    BY <2>1 DEF ReceiptFits
<1>5. /\ InChain(chain, l.txs[l.n].hash)
      /\ Fresh(l.txs[l.n], chain)
      /\ HasBlock(l) => l.txs[l.n].hash = TxHash(l.id.index, l.n)
      /\ HasTransaction(l) => l.n = 1 /\ l.txs[l.n].hash.block > 0
  BY <1>1, <1>2, <1>3 DEF HandlerOK, TransactionsOK, Unfinished, BlockOK, ReceiptsOK
<1>6. l.txs[l.n].hash.position = 1 => l.fa = SystemScore
  BY <1>1, <1>2, <1>5 DEF HandlerOK, LoopOK, Steps, TxHash
<1>7. /\ txs \in Seq(RosettaTransaction)
      /\ DOMAIN txs = DOMAIN l.txs
      /\ Len(txs) = Len(l.txs)
      /\ \A t \in DOMAIN l.txs :
           /\ txs[t].hash = l.txs[t].hash
           /\ t # l.n => txs[t] = l.txs[t]
           /\ Numbered(l.txs[t].operations) => Numbered(txs[t].operations)
           /\ NoClaims(l.txs[t].operations) => NoClaims(txs[t].operations)
           /\ \A a : ClaimsPaidTo(l.txs[t].operations, a) =>
                       ClaimsPaidTo(txs[t].operations, a)
      /\ ops \in Seq(Operation)
      /\ Len(txs[l.n].operations) = Len(ops)
      /\ FeesMatch(txs[l.n].operations, receipt)
      /\ fa \in Address
      /\ l.txs[l.n].hash.block > 0 => fa = ClaimantIn(chain, l.txs[l.n].hash)
  <2> DEFINE priced == RewriteFees(ops, receipt)
  <2>1. /\ ChainOK(chain) /\ l.txs[l.n] \in RosettaTransaction
        /\ receipt \in TransactionResult /\ l.fa \in Address
        /\ InChain(chain, l.txs[l.n].hash) /\ Fresh(l.txs[l.n], chain)
        /\ l.txs[l.n].hash.position = 1 => l.fa = SystemScore
        /\ ops = l.txs[l.n].operations
        /\ fa = ClaimAccount(ops, l.fa)
    BY <1>1, <1>3, <1>4, <1>5, <1>6
  <2>2. l.txs \in Seq(RosettaTransaction) /\ l.n \in DOMAIN l.txs
    BY <1>1, <1>3
  <2>3. ops \in Seq(Operation)
    BY <2>1 DEF RosettaTransaction
  <2>4. txs = Replaced(l.txs, l.n, priced)
    OBVIOUS
  <2> HIDE DEF l, receipt, ops, txs, fa
  <2>5. /\ priced \in Seq(Operation)
        /\ SameShape(priced, ops)
        /\ Len(priced) = Len(ops)
        /\ FeesMatch(priced, receipt)
        /\ fa \in Address
        /\ l.txs[l.n].hash.block > 0 => fa = ClaimantIn(chain, l.txs[l.n].hash)
    BY <2>1, FeesStep
  <2> HIDE DEF priced
  <2>6. /\ Numbered(ops) => Numbered(priced)
        /\ NoClaims(ops) => NoClaims(priced)
        /\ \A a : ClaimsPaidTo(ops, a) => ClaimsPaidTo(priced, a)
    BY <2>3, <2>5, ShapeKeeps
  <2>7. /\ txs \in Seq(RosettaTransaction)
        /\ DOMAIN txs = DOMAIN l.txs
        /\ Len(txs) = Len(l.txs)
        /\ txs[l.n].operations = priced
        /\ \A t \in DOMAIN l.txs : txs[t].hash = l.txs[t].hash
        /\ \A t \in DOMAIN l.txs : t # l.n => txs[t] = l.txs[t]
    BY <2>2, <2>4, <2>5, ReplacedOperations
  <2>8. ASSUME NEW t \in DOMAIN l.txs
        PROVE  /\ Numbered(l.txs[t].operations) => Numbered(txs[t].operations)
               /\ NoClaims(l.txs[t].operations) => NoClaims(txs[t].operations)
               /\ \A a : ClaimsPaidTo(l.txs[t].operations, a) =>
                           ClaimsPaidTo(txs[t].operations, a)
    <3>1. CASE t = l.n
      BY <2>1, <2>7, <2>6, <3>1
    <3>2. CASE t # l.n
      BY <2>7, <3>2
    <3> QED
      BY <3>1, <3>2
  <2> QED
    BY <2>3, <2>5, <2>7, <2>8
<1>8. l.txs[l.n].hash.block = 0 => receipt.eventLogs = <<>>
  <2> SUFFICES ASSUME l.txs[l.n].hash.block = 0
               PROVE  receipt.eventLogs = <<>>
    OBVIOUS
  <2>1. l.id.index = 0 /\ HasReceipts(l)
    BY <1>5, <1>2 DEF TxHash
  <2>2. l.receipts = ParseTransactionResults(chain[1].receipts)
    BY <1>1, <2>1 DEF HandlerOK, ReceiptsOK
  <2>3. chain[1].receipts = << GenesisReceipt >>
    BY <1>1 DEF ChainOK, Genesis
  <2> QED
    BY <1>4, <2>2, <2>3
    DEF ParseTransactionResults, ParseTransactionResult, GenesisReceipt
<1> HIDE DEF txs, fa, ops
<1>9. Len(ops) - 1 \in Int
  BY <1>7
<1>10. /\ new \in Handler
      /\ new.pc = "logs" /\ new.want = l.want /\ new.since = l.since
      /\ new.id = l.id /\ new.parent = l.parent /\ new.txs = txs
      /\ new.n = l.n /\ new.fa = fa /\ new.receipts = l.receipts
      /\ new.k = 1 /\ new.last = Len(ops) - 1
  BY <1>1, <1>7, <1>9 DEF Handler, Steps
<1>11. Become(r, new)
  BY DEF FeesTaken, Replaced, new, txs, fa, ops
<1> HIDE DEF new
<1>12. /\ HasBlock(new) <=> HasBlock(l)
       /\ HasReceipts(new) <=> HasReceipts(l)
       /\ HasTransaction(new) <=> HasTransaction(l)
  BY <1>2, <1>10 DEF HasBlock, HasReceipts, HasTransaction
<1>13. TransactionsOK(new, chain)
  BY <1>1, <1>7, <1>10 DEF HandlerOK, TransactionsOK
<1>14. BlockOK(new, chain)
  BY <1>1, <1>7, <1>10, <1>12 DEF HandlerOK, BlockOK, Requested
<1>15. ReceiptsOK(new, chain) /\ WantsOK(new) /\ LoopOK(new, chain)
  <2>1. HasTransaction(l) => txs[1].hash = l.txs[1].hash
    BY <1>1, <1>5, <1>7
  <2> QED
    BY <1>1, <1>2, <1>7, <1>10, <1>12, <2>1
    DEF HandlerOK, ReceiptsOK, WantsOK, LoopOK, Steps
<1>16. Unfinished(new, chain)
  BY <1>1, <1>2, <1>3, <1>7, <1>10, <1>12 DEF HandlerOK, Unfinished, Fresh
<1>17. Finished(new, chain)
  BY <1>1, <1>2, <1>3, <1>7, <1>10, <1>12 DEF HandlerOK, Finished
<1>18. LogsOK(new, chain)
  <2>1. /\ new.n \in DOMAIN new.txs
        /\ new.txs[new.n] = txs[l.n]
        /\ new.txs[new.n].hash = l.txs[l.n].hash
        /\ new.receipts[new.n] = receipt
        /\ new.n \in DOMAIN new.receipts
    BY <1>1, <1>4, <1>7, <1>10
  <2>2. new.last = Len(txs[l.n].operations) - 1 /\ new.k > 0
    BY <1>7, <1>10
  <2>3. l.txs[l.n].hash.block \in Nat
    <3>1. l.txs[l.n] \in RosettaTransaction
      BY <1>1, <1>3
    <3> QED
      BY <3>1 DEF RosettaTransaction, TxHashes
  <2> HIDE DEF l, receipt
  <2> QED
    BY <1>4, <1>7, <1>8, <1>10, <2>1, <2>2, <2>3 DEF LogsOK
<1>19. HandlerOK(new, chain)
  BY <1>10, <1>13, <1>14, <1>15, <1>16, <1>17, <1>18 DEF HandlerOK
<1> QED
  BY <1>11, <1>19, OneHandler

LEMMA BlockFeesKeepsIInv ==
  ASSUME IInv, NEW r \in Requests, BlockFees(r)
  PROVE  IInv'
PROOF
<1>1. CASE Abort(r)
  BY <1>1, AbortKeepsIInv
<1>2. CASE ~Abort(r)
  <2>1. /\ req[r].pc = "blockFees" /\ req[r].n \in DOMAIN req[r].txs
        /\ ReceiptFits(req[r].txs[req[r].n].operations, req[r].receipts, req[r].n)
        /\ Become(r, FeesTaken(req[r]))
    BY <1>2 DEF BlockFees, FeesTaken
  <2> QED
    BY <2>1, FeesTakenKeepsIInv
<1> QED
  BY <1>1, <1>2

LEMMA TransactionFeesKeepsIInv ==
  ASSUME IInv, NEW r \in Requests, TransactionFees(r)
  PROVE  IInv'
PROOF
<1>1. CASE Abort(r)
  BY <1>1, AbortKeepsIInv
<1>2. CASE ~Abort(r)
  <2>1. req[r].pc = "txFees" /\ HandlerOK(req[r], chain)
    BY DEF TransactionFees, IInv
  <2>2. req[r].n = 1 /\ Len(req[r].txs) = 1 /\ req[r].txs \in Seq(RosettaTransaction)
    BY <2>1 DEF HandlerOK, ReceiptsOK, HasTransaction, Handler
  <2>3. req[r].n \in DOMAIN req[r].txs
    BY <2>2
  <2>4. /\ ReceiptFits(req[r].txs[req[r].n].operations, req[r].receipts, req[r].n)
        /\ Become(r, FeesTaken(req[r]))
    BY <1>2, <2>2 DEF TransactionFees, FeesTaken
  <2> QED
    BY <2>1, <2>3, <2>4, FeesTakenKeepsIInv
<1> QED
  BY <1>1, <1>2

-------------------------------------------------------------------------------
(* The loop over the event logs. *)

\* What holds of a handler at "logs", for any of the steps taken there.
LEMMA AtLogs ==
  ASSUME IInv, NEW r \in Requests, req[r].pc = "logs"
  PROVE  LET l == req[r]
             tx == l.txs[l.n]
             receipt == l.receipts[l.n]
         IN /\ HandlerOK(l, chain) /\ l \in Handler
            /\ l.want \in BlockRequest \cup TransactionRequest
            /\ l.txs \in Seq(RosettaTransaction)
            /\ l.n \in DOMAIN l.txs
            /\ l.n \in Nat /\ l.n > 0 /\ l.k \in Nat /\ l.k > 0
            /\ tx.hash \in TxHashes /\ tx.operations \in Seq(Operation)
            /\ receipt \in TransactionResult
            /\ receipt.eventLogs \in Seq(EventLog)
            /\ InChain(chain, tx.hash)
            /\ Numbered(tx.operations)
            /\ l.fa \in Address
PROOF
<1> DEFINE l == req[r]
<1>1. HandlerOK(l, chain) /\ l \in Handler /\ l.pc = "logs"
  BY DEF IInv, HandlerOK
<1>2. /\ l.txs \in Seq(RosettaTransaction) /\ l.n \in Nat /\ l.k \in Nat /\ l.fa \in Address
  BY <1>1 DEF Handler
<1>3. /\ l.n \in DOMAIN l.txs /\ l.k > 0 /\ l.n > 0
      /\ l.receipts[l.n] \in TransactionResult
  BY <1>1 DEF HandlerOK, LogsOK, LoopOK
<1>4. l.receipts[l.n].eventLogs \in Seq(EventLog)
  BY <1>3 DEF TransactionResult
<1>5. l.txs[l.n] \in RosettaTransaction
  BY <1>2, <1>3
<1>6. l.txs[l.n].hash \in TxHashes /\ l.txs[l.n].operations \in Seq(Operation)
  BY <1>5 DEF RosettaTransaction
<1>7. InChain(chain, l.txs[l.n].hash) /\ Numbered(l.txs[l.n].operations)
  BY <1>1, <1>3 DEF HandlerOK, TransactionsOK
<1>8. l.want \in BlockRequest \cup TransactionRequest
  BY <1>1 DEF HandlerOK, WantsOK
<1> QED
  BY <1>1, <1>2, <1>3, <1>4, <1>6, <1>7, <1>8

LEMMA AppendLogKeepsIInv ==
  ASSUME IInv, NEW r \in Requests, AppendLog(r)
  PROVE  IInv'
PROOF
<1> DEFINE l == req[r]
           hash == l.txs[l.n].hash
           ops == l.txs[l.n].operations
           receipt == l.receipts[l.n]
           el == receipt.eventLogs[l.k]
           logged == ops \o LogOps(l.fa, el, l.last)
           txs == [l.txs EXCEPT ![l.n].operations = logged]
           new == [l EXCEPT !.txs = txs, !.last = l.last + LogAdvance(el),
                            !.k = l.k + 1]
<1>1. l.pc = "logs" /\ l.k \in DOMAIN receipt.eventLogs
  BY DEF AppendLog
<1>2. /\ HandlerOK(l, chain) /\ l \in Handler
      /\ l.txs \in Seq(RosettaTransaction)
      /\ l.n \in DOMAIN l.txs
      /\ l.n \in Nat /\ l.n > 0 /\ l.k \in Nat /\ l.k > 0
      /\ hash \in TxHashes /\ ops \in Seq(Operation)
      /\ receipt \in TransactionResult
      /\ receipt.eventLogs \in Seq(EventLog)
      /\ InChain(chain, hash) /\ Numbered(ops)
      /\ l.fa \in Address
  BY <1>1, AtLogs
<1>3. el \in EventLog
  BY <1>1, <1>2
<1>4. Become(r, new)
  BY DEF AppendLog
<1>5. /\ l.last = Len(ops) - 1 /\ FeesMatch(ops, receipt)
      /\ hash.block > 0
      /\ l.fa = ClaimantIn(chain, hash)
  <2>1. /\ l.last = Len(ops) - 1 /\ FeesMatch(ops, receipt)
        /\ IF hash.block = 0 THEN receipt.eventLogs = <<>>
           ELSE l.fa = ClaimantIn(chain, hash)
    BY <1>1, <1>2 DEF HandlerOK, LogsOK
  <2>2. hash.block \in Nat
    BY <1>2 DEF TxHashes
  <2> QED
    BY <1>1, <2>1, <2>2
<1>6. ClaimsPaidTo(ops, l.fa)
  BY <1>2, <1>5 DEF HandlerOK, TransactionsOK
<1> HIDE DEF el
<1>7. /\ logged \in Seq(Operation)
      /\ Numbered(logged)
      /\ l.last + LogAdvance(el) = Len(logged) - 1
      /\ ClaimsPaidTo(logged, l.fa)
      /\ FeesMatch(logged, receipt)
  <2> HIDE DEF l, ops, receipt
  <2> QED
    BY <1>2, <1>3, <1>5, <1>6, AppendedLog
<1> HIDE DEF logged
<1>8. /\ txs \in Seq(RosettaTransaction)
      /\ DOMAIN txs = DOMAIN l.txs
      /\ Len(txs) = Len(l.txs)
      /\ txs[l.n].operations = logged
      /\ \A t \in DOMAIN l.txs : txs[t].hash = l.txs[t].hash
      /\ \A t \in DOMAIN l.txs : t # l.n => txs[t] = l.txs[t]
  <2>1. txs = Replaced(l.txs, l.n, logged)
    BY DEF Replaced
  <2>2. l.n \in DOMAIN l.txs /\ l.txs \in Seq(RosettaTransaction)
    BY <1>2
  <2>3. logged \in Seq(Operation)
    BY <1>7
  <2> HIDE DEF txs
  <2> QED
    BY <2>1, <2>2, <2>3, ReplacedOperations
<1> HIDE DEF txs, ops, receipt
<1>9. l.last + LogAdvance(el) \in Int /\ l.k + 1 \in Nat /\ l.k + 1 > 0
  BY <1>2, <1>7
<1>10. /\ new \in Handler
       /\ new.pc = "logs" /\ new.want = l.want /\ new.since = l.since
       /\ new.id = l.id /\ new.parent = l.parent /\ new.txs = txs
       /\ new.n = l.n /\ new.fa = l.fa /\ new.receipts = l.receipts
       /\ new.k = l.k + 1 /\ new.last = l.last + LogAdvance(el)
  BY <1>1, <1>2, <1>8, <1>9 DEF Handler
<1> HIDE DEF new
<1>11. /\ HasBlock(new) <=> HasBlock(l)
       /\ HasReceipts(new) <=> HasReceipts(l)
       /\ HasTransaction(new) <=> HasTransaction(l)
  BY <1>1, <1>10 DEF HasBlock, HasReceipts, HasTransaction
<1>12. TransactionsOK(new, chain)
  <2>1. ASSUME NEW t \in DOMAIN new.txs
        PROVE  /\ InChain(chain, new.txs[t].hash)
               /\ Numbered(new.txs[t].operations)
               /\ IF new.txs[t].hash.block = 0 THEN NoClaims(new.txs[t].operations)
                  ELSE ClaimsPaidTo(new.txs[t].operations,
                                    ClaimantIn(chain, new.txs[t].hash))
    <3>1. t \in DOMAIN l.txs /\ new.txs[t].hash = l.txs[t].hash
      BY <1>8, <1>10
    <3>2. CASE t = l.n
      BY <1>2, <1>5, <1>7, <1>8, <1>10, <3>2
    <3>3. CASE t # l.n
      BY <1>2, <1>8, <1>10, <3>1, <3>3 DEF HandlerOK, TransactionsOK
    <3> QED
      BY <3>2, <3>3
  <2> QED
    BY <2>1 DEF TransactionsOK
<1>13. BlockOK(new, chain)
  BY <1>2, <1>8, <1>10, <1>11 DEF HandlerOK, BlockOK, Requested
<1>14. ReceiptsOK(new, chain)
  <2>1. HasTransaction(new) => 1 \in DOMAIN l.txs
    BY <1>2, <1>11 DEF HandlerOK, ReceiptsOK
  <2> QED
    BY <1>2, <1>8, <1>10, <1>11, <2>1 DEF HandlerOK, ReceiptsOK
<1>15. WantsOK(new) /\ LoopOK(new, chain)
  BY <1>1, <1>2, <1>10 DEF HandlerOK, WantsOK, LoopOK
<1>16. Unfinished(new, chain)
  BY <1>1, <1>2, <1>8, <1>10, <1>11 DEF HandlerOK, Unfinished, Fresh
<1>17. Finished(new, chain)
  BY <1>2, <1>8, <1>10, <1>11 DEF HandlerOK, Finished
<1>18. LogsOK(new, chain)
  <2>1. /\ new.n \in DOMAIN new.txs
        /\ new.n \in DOMAIN new.receipts
        /\ new.receipts[new.n] = receipt
        /\ receipt # None
        /\ new.txs[new.n].operations = logged
        /\ new.txs[new.n].hash = hash
        /\ hash.block # 0
    BY <1>1, <1>2, <1>5, <1>8, <1>10 DEF HandlerOK, LogsOK, receipt
  <2>2. new.k > 0
    BY <1>9, <1>10
  <2> QED
    BY <1>2, <1>5, <1>7, <1>10, <2>1, <2>2 DEF LogsOK
<1>19. HandlerOK(new, chain)
  BY <1>10, <1>12, <1>13, <1>14, <1>15, <1>16, <1>17, <1>18 DEF HandlerOK
<1> QED
  BY <1>4, <1>19, OneHandler

\* The status step, as both endpoints take it: the transaction at n keeps its
\* shape and now matches its receipt.
LEMMA StatusStep ==
  ASSUME IInv, NEW r \in Requests, req[r].pc = "logs"
  PROVE  LET l == req[r]
             receipt == l.receipts[l.n]
             done == SetTransferStatus(l.txs[l.n].operations, receipt)
             txs == Replaced(l.txs, l.n, done)
         IN /\ txs \in Seq(RosettaTransaction)
            /\ DOMAIN txs = DOMAIN l.txs
            /\ Len(txs) = Len(l.txs)
            /\ \A t \in DOMAIN l.txs : txs[t].hash = l.txs[t].hash
            /\ \A t \in DOMAIN l.txs : t # l.n => txs[t] = l.txs[t]
            /\ MatchesReceipt(txs[l.n].operations, receipt)
            /\ \A t \in DOMAIN txs :
                 /\ InChain(chain, txs[t].hash)
                 /\ Numbered(txs[t].operations)
                 /\ IF txs[t].hash.block = 0 THEN NoClaims(txs[t].operations)
                    ELSE ClaimsPaidTo(txs[t].operations, ClaimantIn(chain, txs[t].hash))
PROOF
<1> DEFINE l == req[r]
           ops == l.txs[l.n].operations
           receipt == l.receipts[l.n]
           done == SetTransferStatus(ops, receipt)
           txs == Replaced(l.txs, l.n, done)
<1>1. /\ HandlerOK(l, chain)
      /\ l.txs \in Seq(RosettaTransaction)
      /\ l.n \in DOMAIN l.txs
      /\ ops \in Seq(Operation)
      /\ receipt \in TransactionResult
  BY AtLogs
<1>2. FeesMatch(ops, receipt)
  BY <1>1 DEF HandlerOK, LogsOK
<1>3. /\ done \in Seq(Operation)
      /\ SameShape(done, ops)
      /\ FeesMatch(ops, receipt) => FeesMatch(done, receipt)
      /\ \A i \in DOMAIN ops : ops[i].type = "TRANSFER" =>
           done[i].status = StatusFlag(receipt)
  <2> HIDE DEF l, ops, receipt
  <2> QED
    BY <1>1, TransferStatus
<1> HIDE DEF done
<1>4. /\ Numbered(ops) => Numbered(done)
      /\ NoClaims(ops) => NoClaims(done)
      /\ \A account : ClaimsPaidTo(ops, account) => ClaimsPaidTo(done, account)
  <2> HIDE DEF l, ops
  <2> QED
    BY <1>1, <1>3, ShapeKeeps
<1>5. MatchesReceipt(done, receipt)
  BY <1>2, <1>3 DEF MatchesReceipt, FeesMatch, SameShape
<1>6. /\ txs \in Seq(RosettaTransaction)
      /\ DOMAIN txs = DOMAIN l.txs
      /\ Len(txs) = Len(l.txs)
      /\ txs[l.n].operations = done
      /\ \A t \in DOMAIN l.txs : txs[t].hash = l.txs[t].hash
      /\ \A t \in DOMAIN l.txs : t # l.n => txs[t] = l.txs[t]
  <2>1. txs = Replaced(l.txs, l.n, done)
    OBVIOUS
  <2>2. l.n \in DOMAIN l.txs /\ l.txs \in Seq(RosettaTransaction)
    BY <1>1
  <2>3. done \in Seq(Operation)
    BY <1>3
  <2> HIDE DEF txs
  <2> QED
    BY <2>1, <2>2, <2>3, ReplacedOperations
<1> HIDE DEF txs
<1>7. ASSUME NEW t \in DOMAIN txs
      PROVE  /\ InChain(chain, txs[t].hash)
             /\ Numbered(txs[t].operations)
             /\ IF txs[t].hash.block = 0 THEN NoClaims(txs[t].operations)
                ELSE ClaimsPaidTo(txs[t].operations, ClaimantIn(chain, txs[t].hash))
  <2>1. /\ t \in DOMAIN l.txs
        /\ txs[t].hash = l.txs[t].hash
        /\ InChain(chain, l.txs[t].hash)
        /\ Numbered(l.txs[t].operations)
        /\ IF l.txs[t].hash.block = 0 THEN NoClaims(l.txs[t].operations)
           ELSE ClaimsPaidTo(l.txs[t].operations, ClaimantIn(chain, l.txs[t].hash))
    BY <1>1, <1>6 DEF HandlerOK, TransactionsOK
  <2>2. CASE t = l.n
    BY <1>4, <1>6, <2>1, <2>2
  <2>3. CASE t # l.n
    BY <1>6, <2>1, <2>3
  <2> QED
    BY <2>2, <2>3
<1> QED
  BY <1>5, <1>6, <1>7 DEF txs, done

LEMMA FinishBlockTransactionKeepsIInv ==
  ASSUME IInv, NEW r \in Requests, FinishBlockTransaction(r)
  PROVE  IInv'
PROOF
<1> DEFINE l == req[r]
           receipt == l.receipts[l.n]
           done == SetTransferStatus(l.txs[l.n].operations, receipt)
           txs == Replaced(l.txs, l.n, done)
           new == [l EXCEPT !.pc = "blockFees", !.txs = txs, !.n = l.n + 1]
<1>1. /\ l.pc = "logs" /\ l.want.endpoint = "block"
      /\ Become(r, new)
  BY DEF FinishBlockTransaction, Replaced
<1>2. /\ HandlerOK(l, chain) /\ l \in Handler /\ l.n \in DOMAIN l.txs
      /\ l.want \in BlockRequest \cup TransactionRequest
      /\ l.n \in Nat /\ l.n > 0
      /\ receipt \in TransactionResult
  BY <1>1, AtLogs
<1>3. /\ txs \in Seq(RosettaTransaction)
      /\ DOMAIN txs = DOMAIN l.txs
      /\ Len(txs) = Len(l.txs)
      /\ \A t \in DOMAIN l.txs : txs[t].hash = l.txs[t].hash
      /\ \A t \in DOMAIN l.txs : t # l.n => txs[t] = l.txs[t]
      /\ MatchesReceipt(txs[l.n].operations, receipt)
      /\ \A t \in DOMAIN txs :
           /\ InChain(chain, txs[t].hash)
           /\ Numbered(txs[t].operations)
           /\ IF txs[t].hash.block = 0 THEN NoClaims(txs[t].operations)
              ELSE ClaimsPaidTo(txs[t].operations, ClaimantIn(chain, txs[t].hash))
  BY <1>1, StatusStep
<1> HIDE DEF txs
<1>4. l.want \in BlockRequest
  BY <1>1, <1>2 DEF TransactionRequest
<1>5. HasBlock(l) /\ HasReceipts(l)
  BY <1>1 DEF HasBlock, HasReceipts
<1>6. /\ l.id \in BlockIdentifier /\ l.id.index + 1 \in DOMAIN chain
      /\ l.receipts = ParseTransactionResults(chain[l.id.index + 1].receipts)
      /\ l.n \in DOMAIN l.receipts
  BY <1>1, <1>2, <1>5 DEF HandlerOK, BlockOK, ReceiptsOK, LogsOK
<1>7. receipt = chain[l.id.index + 1].receipts[l.n]
  <2>1. receipt # None
    BY <1>1, <1>2 DEF HandlerOK, LogsOK
  <2> QED
    BY <1>6, <2>1 DEF ParseTransactionResults, ParseTransactionResult
<1> HIDE DEF receipt
<1>8. /\ new \in Handler
      /\ new.pc = "blockFees" /\ new.want = l.want /\ new.since = l.since
      /\ new.id = l.id /\ new.parent = l.parent /\ new.txs = txs
      /\ new.n = l.n + 1 /\ new.fa = l.fa /\ new.receipts = l.receipts
  <2>1. l.n + 1 \in Nat
    BY <1>2
  <2> QED
    BY <1>2, <1>3, <2>1 DEF Handler, Steps
<1> HIDE DEF new
<1>9. HasBlock(new) /\ HasReceipts(new) /\ ~HasTransaction(new)
  BY <1>8 DEF HasBlock, HasReceipts, HasTransaction
<1>10. TransactionsOK(new, chain)
  BY <1>3, <1>8 DEF TransactionsOK
<1>11. BlockOK(new, chain)
  BY <1>2, <1>3, <1>5, <1>8, <1>9 DEF HandlerOK, BlockOK, Requested
<1>12. ReceiptsOK(new, chain)
  BY <1>6, <1>8, <1>9 DEF ReceiptsOK
<1>13. WantsOK(new) /\ LoopOK(new, chain) /\ LogsOK(new, chain)
  BY <1>2, <1>4, <1>8 DEF WantsOK, LoopOK, LogsOK, Steps
<1>14. Unfinished(new, chain)
  <2>1. ASSUME NEW t \in DOMAIN new.txs, t >= l.n + 1
        PROVE  Fresh(new.txs[t], chain)
    <3>1. t \in DOMAIN l.txs /\ t > l.n /\ t # l.n
      BY <1>2, <1>3, <1>8, <2>1
    <3>2. Fresh(l.txs[t], chain)
      BY <1>1, <1>2, <1>5, <3>1 DEF HandlerOK, Unfinished
    <3> QED
      BY <1>3, <1>8, <3>1, <3>2
  <2> QED
    BY <1>8, <1>9, <2>1 DEF Unfinished
<1>15. Finished(new, chain)
  <2>1. ASSUME NEW t \in DOMAIN new.txs, t < l.n + 1
        PROVE  MatchesReceipt(new.txs[t].operations, chain[l.id.index + 1].receipts[t])
    <3>1. t \in DOMAIN l.txs /\ t \in Nat
      BY <1>3, <1>8
    <3>2. CASE t = l.n
      BY <1>3, <1>7, <1>8, <3>2
    <3>3. CASE t < l.n
      <4>1. t # l.n
        BY <1>2, <3>1, <3>3
      <4>2. new.txs[t] = l.txs[t]
        BY <1>3, <1>8, <3>1, <4>1
      <4> QED
        BY <1>2, <1>5, <3>1, <3>3, <4>2 DEF HandlerOK, Finished
    <3> QED
      BY <1>2, <2>1, <3>1, <3>2, <3>3
  <2> QED
    BY <1>8, <1>9, <2>1 DEF Finished
<1>16. HandlerOK(new, chain)
  BY <1>8, <1>10, <1>11, <1>12, <1>13, <1>14, <1>15 DEF HandlerOK
<1> QED
  BY <1>1, <1>16, OneHandler

LEMMA AnswerTransactionKeepsIInv ==
  ASSUME IInv, NEW r \in Requests, AnswerTransaction(r)
  PROVE  IInv'
PROOF
<1> DEFINE l == req[r]
           receipt == l.receipts[l.n]
           done == SetTransferStatus(l.txs[l.n].operations, receipt)
           txs == Replaced(l.txs, l.n, done)
           new == [l EXCEPT !.pc = "answered", !.txs = txs]
<1>1. l.pc = "logs" /\ l.want.endpoint = "transaction"
  BY DEF AnswerTransaction
<1>2. /\ HandlerOK(l, chain) /\ l \in Handler
      /\ l.want \in BlockRequest \cup TransactionRequest
  BY <1>1, AtLogs
<1>3. HasTransaction(l) /\ l.n = 1
  BY <1>1, <1>2 DEF HasTransaction, HandlerOK, ReceiptsOK
<1>4. Become(r, new)
  BY <1>3 DEF AnswerTransaction, Replaced
<1>5. /\ txs \in Seq(RosettaTransaction)
      /\ \A t \in DOMAIN txs :
           /\ InChain(chain, txs[t].hash)
           /\ Numbered(txs[t].operations)
           /\ IF txs[t].hash.block = 0 THEN NoClaims(txs[t].operations)
              ELSE ClaimsPaidTo(txs[t].operations, ClaimantIn(chain, txs[t].hash))
  BY <1>1, StatusStep
<1> HIDE DEF txs
<1>6. /\ new \in Handler
      /\ new.pc = "answered" /\ new.want = l.want /\ new.txs = txs /\ new.n = l.n
  BY <1>2, <1>5 DEF Handler, Outcomes
<1> HIDE DEF new
<1>7. ~HasBlock(new) /\ ~HasReceipts(new) /\ ~HasTransaction(new)
  BY <1>1, <1>6 DEF HasBlock, HasReceipts, HasTransaction
<1>8. TransactionsOK(new, chain)
  BY <1>5, <1>6 DEF TransactionsOK
<1>9. /\ WantsOK(new) /\ BlockOK(new, chain) /\ ReceiptsOK(new, chain)
      /\ Unfinished(new, chain) /\ Finished(new, chain)
      /\ LoopOK(new, chain) /\ LogsOK(new, chain)
  BY <1>1, <1>2, <1>3, <1>6, <1>7
  DEF WantsOK, BlockOK, ReceiptsOK, Unfinished, Finished, LoopOK, LogsOK, Steps
<1>10. HandlerOK(new, chain)
  BY <1>6, <1>8, <1>9 DEF HandlerOK
<1> QED
  BY <1>4, <1>10, OneHandler

-------------------------------------------------------------------------------
(* The steps of /block/transaction before the logs. *)

LEMMA GetTransactionKeepsIInv ==
  ASSUME IInv, NEW r \in Requests, GetTransaction(r)
  PROVE  IInv'
PROOF
<1> DEFINE l == req[r]
           hash == l.want.hash
           raw == BlockAt(hash.block).txs[hash.position]
           ops == ParseTransaction(raw)
           tx == [hash |-> hash, operations |-> ops]
           new == [l EXCEPT !.pc = "getTransactionResult", !.txs = << tx >>]
<1>1. CASE Fail(r, "ErrWrongBlockHash")
  BY <1>1, FailKeepsIInv DEF ErrorNames
<1>2. CASE Abort(r)
  BY <1>2, AbortKeepsIInv
<1>3. CASE InBlock(hash) /\ Become(r, new)
  <2>1. /\ HandlerOK(l, chain) /\ l \in Handler /\ ChainOK(chain)
        /\ l.pc = "getTransaction" /\ l.want \in TransactionRequest
        /\ l.n = 1 /\ l.fa = SystemScore
    BY DEF GetTransaction, IInv, HandlerOK, WantsOK, LoopOK, Steps
  <2>2. hash \in TxHashes
    BY <2>1 DEF TransactionRequest
  <2>3. /\ hash.block \in Nat /\ hash.block + 1 \in DOMAIN chain
        /\ hash.position \in DOMAIN chain[hash.block + 1].txs
    BY <1>3, <2>1, <2>2 DEF InBlock, Height, BlockAt, TxHashes, ChainOK
  <2>4. hash.block > 0
    BY <2>1, <2>3 DEF ChainOK, Genesis
  <2>5. raw \in Transaction
    BY <2>1, <2>3, BodyFields DEF BlockAt
  <2>6. /\ ops \in Seq(Operation)
        /\ Numbered(ops)
        /\ NoClaims(ops)
    BY <2>5, ParsedOperations
  <2>7. InChain(chain, hash) /\ raw = RawIn(chain, hash)
    BY <2>3 DEF InChain, RawIn, BlockAt
  <2> HIDE DEF raw
  <2>8. Fresh(tx, chain)
    BY <2>4, <2>7 DEF Fresh
  <2> HIDE DEF ops
  <2>9. tx \in RosettaTransaction /\ tx.hash = hash /\ tx.operations = ops
    BY <2>2, <2>6 DEF RosettaTransaction
  <2> HIDE DEF tx, hash
  <2>10. << tx >> \in Seq(RosettaTransaction)
    BY <2>9
  <2>11. /\ new \in Handler
         /\ new.pc = "getTransactionResult" /\ new.want = l.want /\ new.txs = << tx >>
         /\ new.n = 1 /\ new.fa = SystemScore
    BY <2>1, <2>10 DEF Handler, Steps
  <2> HIDE DEF new
  <2>12. ~HasBlock(new) /\ ~HasReceipts(new)
    BY <2>11 DEF HasBlock, HasReceipts
  <2>13. TransactionsOK(new, chain)
    BY <2>4, <2>6, <2>7, <2>9, <2>11 DEF TransactionsOK, NoClaims, ClaimsPaidTo
  <2>14. Unfinished(new, chain)
    BY <2>8, <2>11 DEF Unfinished
  <2>15. ReceiptsOK(new, chain)
    BY <2>4, <2>9, <2>11, <2>12 DEF ReceiptsOK, hash
  <2>16. /\ WantsOK(new) /\ BlockOK(new, chain) /\ Finished(new, chain)
         /\ LoopOK(new, chain) /\ LogsOK(new, chain)
    BY <2>1, <2>11, <2>12 DEF WantsOK, BlockOK, Finished, LoopOK, LogsOK
  <2>17. HandlerOK(new, chain)
    BY <2>11, <2>13, <2>14, <2>15, <2>16 DEF HandlerOK
  <2> QED
    BY <1>3, <2>17, OneHandler
<1> QED
  BY <1>1, <1>2, <1>3 DEF GetTransaction

LEMMA GetTransactionResultKeepsIInv ==
  ASSUME IInv, NEW r \in Requests, GetTransactionResult(r)
  PROVE  IInv'
PROOF
<1> DEFINE l == req[r]
           hash == l.want.hash
           raw == BlockAt(hash.block).receipts[hash.position]
           receipts == << ParseTransactionResult(raw) >>
           new == [l EXCEPT !.pc = "txFees", !.receipts = receipts]
<1>1. CASE Fail(r, "ErrWrongBlockHash")
  BY <1>1, FailKeepsIInv DEF ErrorNames
<1>2. CASE hash.position \in DOMAIN BlockAt(hash.block).receipts /\ Become(r, new)
  <2>1. /\ HandlerOK(l, chain) /\ l \in Handler /\ ChainOK(chain)
        /\ l.pc = "getTransactionResult" /\ l.want \in TransactionRequest
        /\ l.n = 1 /\ l.fa = SystemScore /\ HasTransaction(l)
    BY DEF GetTransactionResult, IInv, HandlerOK, WantsOK, LoopOK, Steps, HasTransaction
  <2>2. ParseTransactionResult(raw) \in TransactionResult \cup {None}
    <3>1. Len(l.txs) = 1 /\ l.txs[1].hash = hash /\ l.txs \in Seq(RosettaTransaction)
      BY <2>1 DEF HandlerOK, ReceiptsOK, Handler
    <3>2. hash.block + 1 \in DOMAIN chain
      BY <2>1, <3>1 DEF HandlerOK, TransactionsOK, InChain
    <3>3. raw \in TransactionResult
      BY <1>2, <2>1, <3>2, BodyFields DEF BlockAt
    <3> QED
      BY <3>3 DEF ParseTransactionResult
  <2>3. receipts \in Seq(TransactionResult \cup {None})
    BY <2>2
  <2> HIDE DEF receipts
  <2>4. /\ new \in Handler
        /\ new.pc = "txFees" /\ new.want = l.want /\ new.txs = l.txs
        /\ new.n = 1 /\ new.fa = SystemScore
    BY <2>1, <2>3 DEF Handler, Steps
  <2> HIDE DEF new
  <2>5. ~HasBlock(new) /\ ~HasReceipts(new) /\ HasTransaction(new)
    BY <2>4 DEF HasBlock, HasReceipts, HasTransaction
  <2>6. TransactionsOK(new, chain)
    BY <2>1, <2>4 DEF HandlerOK, TransactionsOK
  <2>7. Unfinished(new, chain)
    BY <2>1, <2>4, <2>5 DEF HandlerOK, Unfinished
  <2>8. ReceiptsOK(new, chain)
    BY <2>1, <2>4, <2>5 DEF HandlerOK, ReceiptsOK
  <2>9. /\ WantsOK(new) /\ BlockOK(new, chain) /\ Finished(new, chain)
        /\ LoopOK(new, chain) /\ LogsOK(new, chain)
    BY <2>1, <2>4, <2>5 DEF WantsOK, BlockOK, Finished, LoopOK, LogsOK
  <2>10. HandlerOK(new, chain)
    BY <2>4, <2>6, <2>7, <2>8, <2>9 DEF HandlerOK
  <2> QED
    BY <1>2, <2>10, OneHandler
<1> QED
  BY <1>1, <1>2 DEF GetTransactionResult

-------------------------------------------------------------------------------
(* The theorems. *)

LEMMA NextKeepsIInv == IInv /\ [Next]_vars => IInv'
PROOF
<1> SUFFICES ASSUME IInv, [Next]_vars
             PROVE  IInv'
  OBVIOUS
<1>1. CASE ProduceBlock
  BY <1>1, GrowingKeepsIInv
<1>2. ASSUME NEW r \in Requests, Block(r)
      PROVE  IInv'
  <2>1. PICK want \in BlockWants : Accept(r, want, "getBlock")
    BY <1>2 DEF Block
  <2>2. want \in BlockRequest
    BY BlockAssumption DEF BlockWants, BlockRequest, BlockHashes
  <2> QED
    BY <2>1, <2>2, AcceptKeepsIInv
<1>3. ASSUME NEW r \in Requests, BlockTransaction(r)
      PROVE  IInv'
  <2>1. PICK want \in TransactionWants : Accept(r, want, "getTransaction")
    BY <1>3 DEF BlockTransaction
  <2>2. want \in TransactionRequest
    BY BlockAssumption DEF TransactionWants, TransactionRequest, TxHashes
  <2> QED
    BY <2>1, <2>2, AcceptKeepsIInv
<1>4. ASSUME NEW r \in Requests, Handle(r)
      PROVE  IInv'
  BY <1>4, GetBlockKeepsIInv, GetBlockReceiptsKeepsIInv, BlockFeesKeepsIInv,
     AppendLogKeepsIInv, FinishBlockTransactionKeepsIInv, AnswerBlockKeepsIInv,
     GetTransactionKeepsIInv, GetTransactionResultKeepsIInv,
     TransactionFeesKeepsIInv, AnswerTransactionKeepsIInv
  DEF Handle
<1>5. ASSUME NEW r \in Requests, Deliver(r)
      PROVE  IInv'
  BY <1>5, DeliverKeepsIInv
<1>6. CASE UNCHANGED vars
  BY <1>6 DEF vars, IInv
<1> QED
  BY <1>1, <1>2, <1>3, <1>4, <1>5, <1>6 DEF Next

\* Whatever the requests and the blocks, every handler is at every step where
\* IInv says it is.
THEOREM Invariance == Spec => []IInv
PROOF
<1> QED
  BY InitOK, NextKeepsIInv, PTL DEF Spec

\* The variables keep their types: a handler never holds a value that the code
\* could not have at that point.
THEOREM TypeCorrect == Spec => []TypeOK
PROOF
<1>1. IInv => TypeOK
  <2> SUFFICES ASSUME IInv
               PROVE  TypeOK
    OBVIOUS
  <2>1. mode \in {"ONLINE", "OFFLINE"} /\ chain \in Seq(Body)
    BY DEF IInv, ChainOK
  <2>2. \A r \in Requests : req[r] \in Handler
    BY DEF IInv, HandlerOK
  <2>3. req \in [Requests -> Handler]
    BY <2>2 DEF IInv
  <2> QED
    BY <2>1, <2>3 DEF TypeOK
<1> QED
  BY <1>1, Invariance, PTL

\* The hand-kept index of the log loop never slips, whatever the event logs of
\* a receipt: operations are numbered 0, 1, 2, ... and relate to earlier ones.
THEOREM WellFormed == Spec => []OperationsWellFormed
PROOF
<1>1. IInv => OperationsWellFormed
  <2> SUFFICES ASSUME IInv, NEW r \in Requests, NEW t \in DOMAIN req[r].txs
               PROVE  Numbered(req[r].txs[t].operations)
    BY DEF OperationsWellFormed, Numbered
  <2> QED
    BY DEF IInv, HandlerOK, TransactionsOK
<1> QED
  BY <1>1, Invariance, PTL

\* However many transactions a block has, in whatever order, a claim is credited
\* to the sender of the transaction that made it.
THEOREM ClaimsRight == Spec => []ClaimsAttributed
PROOF
<1>1. IInv => ClaimsAttributed
  <2> SUFFICES ASSUME IInv, NEW r \in Requests, NEW t \in DOMAIN req[r].txs
               PROVE  ClaimsPaidTo(req[r].txs[t].operations,
                                   Claimant(req[r].txs[t].hash))
    BY DEF ClaimsAttributed, ClaimsPaidTo
  <2> DEFINE tx == req[r].txs[t]
  <2>1. IF tx.hash.block = 0 THEN NoClaims(tx.operations)
        ELSE ClaimsPaidTo(tx.operations, ClaimantIn(chain, tx.hash))
    BY DEF IInv, HandlerOK, TransactionsOK
  <2>2. ClaimantIn(chain, tx.hash) = Claimant(tx.hash)
    BY DEF ClaimantIn, Claimant, RawIn, Raw, BlockAt
  <2>3. NoClaims(tx.operations) => ClaimsPaidTo(tx.operations, Claimant(tx.hash))
    BY DEF NoClaims, ClaimsPaidTo
  <2> QED
    BY <2>1, <2>2, <2>3
<1> QED
  BY <1>1, Invariance, PTL

\* An answer to /block describes one block of the chain, the one asked for,
\* however far the chain grows between the calls the answer is made from.
THEOREM OneBlock == Spec => []AnswersOneBlock
PROOF
<1>1. IInv => AnswersOneBlock
  <2> SUFFICES ASSUME IInv, NEW r \in Requests,
                      req[r].pc = "answered", req[r].want.endpoint = "block"
               PROVE  LET l == req[r]
                          h == l.id.index
                          block == BlockAt(h)
                      IN /\ h \in Height
                         /\ Requested(l)
                         /\ l.id = Identifier(h)
                         /\ l.parent = ParentIdentifier(h)
                         /\ h > 0 => Len(l.txs) =
                              IF \A i \in DOMAIN block.txs : block.txs[i].wellFormed
                              THEN Len(block.txs) ELSE 0
                         /\ \A i \in DOMAIN l.txs :
                              /\ l.txs[i].hash = TxHash(h, i)
                              /\ MatchesReceipt(l.txs[i].operations, block.receipts[i])
    BY DEF AnswersOneBlock
  <2> DEFINE l == req[r]
             h == l.id.index
             block == BlockAt(h)
  <2>1. HandlerOK(l, chain) /\ ChainOK(chain) /\ HasBlock(l) /\ HasReceipts(l)
    BY DEF IInv, HasBlock, HasReceipts
  <2>2. /\ l.id \in BlockIdentifier /\ h + 1 \in DOMAIN chain
        /\ Requested(l)
        /\ l.id = Identifier(h)
        /\ l.parent = ParentIdentifier(h)
        /\ h > 0 => Len(l.txs) =
             IF \A i \in DOMAIN block.txs : block.txs[i].wellFormed
             THEN Len(block.txs) ELSE 0
        /\ \A i \in DOMAIN l.txs : l.txs[i].hash = TxHash(h, i)
    BY <2>1 DEF HandlerOK, BlockOK, BlockAt
  <2>3. h \in Height
    BY <2>1, <2>2 DEF ChainOK, Height, BlockIdentifier
  <2>4. l.txs \in Seq(RosettaTransaction) /\ l.n \in Nat
    BY <2>1 DEF HandlerOK, Handler
  <2>5. l.n > 0 /\ l.n \notin DOMAIN l.txs
    BY <2>1 DEF HandlerOK, LoopOK
  <2>6. \A i \in DOMAIN l.txs : i < l.n
    BY <2>4, <2>5
  <2>7. \A i \in DOMAIN l.txs :
          MatchesReceipt(l.txs[i].operations, block.receipts[i])
    BY <2>1, <2>6 DEF HandlerOK, Finished, BlockAt
  <2> QED
    BY <2>2, <2>3, <2>7
<1> QED
  BY <1>1, Invariance, PTL
===============================================================================
