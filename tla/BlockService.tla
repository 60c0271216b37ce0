----------------------------- MODULE BlockService -----------------------------
(***************************************************************************)
(* The /block and /block/transaction endpoints (services/block_service.go, *)
(* icon/client.go and the block part of icon/client_v1).                   *)
(*                                                                         *)
(* Every HTTP request runs its own handler.  A handler makes two JSON-RPC  *)
(* calls to the node, one for the block (or transaction) and one for its   *)
(* receipts, and then rewrites the operations it parsed, transaction by    *)
(* transaction and event log by event log.  Handlers interleave with each  *)
(* other and with the node, whose chain grows between their calls.         *)
(***************************************************************************)
EXTENDS Operations

CONSTANTS
  Requests,         \* the HTTP requests that may be open at one time
  Bodies,           \* the contents that a block after the genesis may have
  GenesisAccounts,  \* the accounts of the genesis transaction
  MaxHeight,        \* bound: height of the last block the node produces
  MaxPosition       \* bound: position in its block of a transaction asked for

SupportedVersions == {"0.1a", "0.3", "0.4", "0.5"}

Body == [version : SupportedVersions \cup {"other"}, txs : Seq(Transaction),
         receipts : Seq(TransactionResult)]

ASSUME BlockAssumption ==
  /\ Bodies \subseteq Body
  /\ GenesisAccounts \in Seq(GenesisAccount)
  /\ MaxHeight \in Nat
  /\ MaxPosition \in Nat
  /\ None \notin TransactionResult

\* A rule of the ICON network: a block that issues carries its base transaction
\* first.
ASSUME BaseAssumption ==
  \A body \in Bodies : \A i \in DOMAIN body.txs : IsBase(body.txs[i]) => i = 1

VARIABLES
  mode,   \* the MODE the process was started in; never changes
  chain,  \* the node's blocks; block h is chain[h + 1]
  req     \* the local variables of the handler of each request

vars == <<mode, chain, req>>

-------------------------------------------------------------------------------
(* The node's chain.  ICON blocks are final, so a hash stands for one      *)
(* place in the chain: the block at a height, the transaction at a         *)
(* position of a block.                                                    *)

BlockHash(h) == [block |-> h]
BlockHashes  == [block : Nat]

TxHash(h, i) == [block |-> h, position |-> i]
TxHashes     == [block : Nat, position : Nat]

Height == 0..(Len(chain) - 1)

BlockAt(h) == chain[h + 1]

GenesisReceipt ==
  [success |-> TRUE, stepUsed |-> 0, stepPrice |-> 0,
   stepDetails |-> [a \in Address |-> 0], eventLogs |-> <<>>, wellFormed |-> TRUE]

\* Its one transaction is GenesisAccounts, which is not a Transaction.
Genesis ==
  [version |-> "0.1a", txs |-> <<>>, receipts |-> << GenesisReceipt >>]

-------------------------------------------------------------------------------
(* Parsing what the node answers.                                          *)

BlockIdentifier == [index : Nat, hash : BlockHashes]

Identifier(h) == [index |-> h, hash |-> BlockHash(h)]

\* Mutant of ParentIdentifier: no exception for the genesis block.
ParentBelow(h) == Identifier(h - 1)

ParentIdentifier(h) == IF h = 0 THEN Identifier(0) ELSE Identifier(h - 1)

\* Both callers drop the error: one bad transaction leaves none.
ParseTransactions(h, raws) ==
  IF \A i \in DOMAIN raws : raws[i].wellFormed
  THEN [i \in DOMAIN raws |->
          [hash |-> TxHash(h, i), operations |-> ParseTransaction(raws[i])]]
  ELSE <<>>

ParseGenesisTransaction ==
  << [hash |-> TxHash(0, 1),
      operations |-> ParseGenesisOperationsV2(GenesisAccounts)] >>

ParseBlock(h) ==
  [id |-> Identifier(h), parent |-> ParentIdentifier(h),
   transactions |-> IF h = 0 THEN ParseGenesisTransaction
                    ELSE ParseTransactions(h, BlockAt(h).txs)]

\* Here too the error is dropped: a bad receipt becomes a nil pointer.
ParseTransactionResult(raw) == IF raw.wellFormed THEN raw ELSE None

ParseTransactionResults(raws) ==
  [i \in DOMAIN raws |-> ParseTransactionResult(raws[i])]

-------------------------------------------------------------------------------
(* Handlers.                                                               *)

RosettaTransaction == [hash : TxHashes, operations : Seq(Operation)]

BlockRequest ==
  [endpoint : {"block"}, index : Nat \cup {None}, hash : BlockHashes \cup {None}]

TransactionRequest == [endpoint : {"transaction"}, hash : TxHashes]

ErrorNames == {"ErrUnavailableOffline", "ErrWrongBlockHash"}

Steps == {"getBlock", "getBlockReceipts", "blockFees", "getTransaction",
          "getTransactionResult", "txFees", "logs"}
Outcomes == {"answered", "failed", "aborted"}

Handler ==
  [pc       : {"idle"} \cup Steps \cup Outcomes,
   want     : BlockRequest \cup TransactionRequest \cup {None},
   since    : Nat,        \* history: the tip when the request arrived
   id       : BlockIdentifier \cup {None},
   parent   : BlockIdentifier \cup {None},
   txs      : Seq(RosettaTransaction),
   receipts : Seq(TransactionResult \cup {None}),
   n        : Nat,        \* transaction being completed, from 1
   k        : Nat,        \* event log being read, from 1
   fa       : Address,    \* whom a claim is credited to
   last     : Int,        \* index of the last operation made
   error    : ErrorNames \cup {None}]

Idle ==
  [pc |-> "idle", want |-> None, since |-> 0, id |-> None, parent |-> None,
   txs |-> <<>>, receipts |-> <<>>, n |-> 1, k |-> 1, fa |-> SystemScore,
   last |-> -1, error |-> None]

Become(r, handler) ==
  /\ req' = [req EXCEPT ![r] = handler]
  /\ UNCHANGED <<mode, chain>>

Fail(r, e) == Become(r, [req[r] EXCEPT !.pc = "failed", !.error = e])

\* A panic: net/http recovers it and closes the connection.
Abort(r) == Become(r, [req[r] EXCEPT !.pc = "aborted"])

\* What a handler holds keeps its type in all orders of the steps; None stands
\* only where the code has no value yet, or drops one.
TypeOK ==
  /\ mode \in {"ONLINE", "OFFLINE"}
  /\ chain \in Seq(Body)
  /\ req \in [Requests -> Handler]

Init ==
  /\ mode \in {"ONLINE", "OFFLINE"}
  /\ chain = << Genesis >>
  /\ req = [r \in Requests |-> Idle]

-------------------------------------------------------------------------------
(* The node, which is not this repository's code.                          *)

ProduceBlock ==
  /\ Len(chain) <= MaxHeight
  /\ \E body \in Bodies : chain' = Append(chain, body)
  /\ UNCHANGED <<mode, req>>

-------------------------------------------------------------------------------
(* /block *)

RequestedHeight(want) ==
  IF want.index # None THEN want.index
  ELSE IF want.hash # None THEN want.hash.block
  ELSE Len(chain) - 1

Accept(r, want, pc) ==
  LET arrived == [Idle EXCEPT !.want = want, !.since = Len(chain) - 1]
  IN /\ req[r].pc = "idle"
     /\ Become(r, IF mode = "ONLINE"
                  THEN [arrived EXCEPT !.pc = pc]
                  ELSE [arrived EXCEPT !.pc = "failed",
                                       !.error = "ErrUnavailableOffline"])

\* The block asked for may be one this node does not have yet.
BlockWants ==
  [endpoint : {"block"}, index : (0..MaxHeight) \cup {None},
   hash : [block : 0..MaxHeight] \cup {None}]

Block(r) ==
  \E want \in BlockWants : Accept(r, want, "getBlock")

GetBlock(r) ==
  LET h == RequestedHeight(req[r].want)
      block == ParseBlock(h)
  IN /\ req[r].pc = "getBlock"
     /\ \/ /\ h \in Height
           /\ BlockAt(h).version \in SupportedVersions
           /\ Become(r, [req[r] EXCEPT !.pc = "getBlockReceipts",
                                       !.id = block.id,
                                       !.parent = block.parent,
                                       !.txs = block.transactions])
        \/ Fail(r, "ErrWrongBlockHash")

\* Mutant of GetBlockReceipts: the receipts of the last block, not of this one.
GetLastBlockReceipts(r) ==
  /\ req[r].pc = "getBlockReceipts"
  /\ \/ Become(r, [req[r] EXCEPT
                   !.pc = "blockFees",
                   !.receipts = ParseTransactionResults(chain[Len(chain)].receipts)])
     \/ Fail(r, "ErrWrongBlockHash")

\* Mutant of GetBlockReceipts: starting again when the second call fails.
GetBlockReceiptsOrRetry(r) ==
  LET h == req[r].id.hash.block
  IN /\ req[r].pc = "getBlockReceipts"
     /\ \/ Become(r, [req[r] EXCEPT
                        !.pc = "blockFees",
                        !.receipts = ParseTransactionResults(BlockAt(h).receipts)])
        \/ Become(r, [req[r] EXCEPT !.pc = "getBlock"])

\* The receipts are asked for by the hash of the block just parsed.
GetBlockReceipts(r) ==
  LET h == req[r].id.hash.block
  IN /\ req[r].pc = "getBlockReceipts"
     /\ \/ Become(r, [req[r] EXCEPT
                        !.pc = "blockFees",
                        !.receipts = ParseTransactionResults(BlockAt(h).receipts)])
        \/ Fail(r, "ErrWrongBlockHash")

\* Otherwise the code panics: on a nil receipt, on one receipt too few, or on
\* a fee where there is no amount to set.
ReceiptFits(operations, receipts, n) ==
  /\ n \in DOMAIN receipts
  /\ receipts[n] # None
  /\ IsGeneral(operations) /\ receipts[n].stepUsed # 0 =>
       operations[4].amount # None

\* Mutant of ClaimAccount: the account is set once and for all.
FirstClaimAccount(operations, fa) ==
  IF IsGeneral(operations) /\ fa = SystemScore THEN operations[1].account ELSE fa

\* fa is declared outside the loop of MakeBlockWithReceipts and keeps its value
\* over a transaction that is not general.
ClaimAccount(operations, fa) ==
  IF IsGeneral(operations) THEN operations[1].account ELSE fa

\* MakeBlockWithReceipts, first part of the loop body.
BlockFees(r) ==
  LET l == req[r]
      operations == l.txs[l.n].operations
  IN /\ l.pc = "blockFees"
     /\ l.n \in DOMAIN l.txs
     /\ \/ /\ ~ReceiptFits(operations, l.receipts, l.n)
           /\ Abort(r)
        \/ /\ ReceiptFits(operations, l.receipts, l.n)
           /\ Become(r, [l EXCEPT
                !.pc = "logs",
                !.k = 1,
                !.txs[l.n].operations = RewriteFees(operations, l.receipts[l.n]),
                !.fa = ClaimAccount(operations, @),
                !.last = Len(operations) - 1])

AnswerBlock(r) ==
  /\ req[r].pc = "blockFees"
  /\ req[r].n \notin DOMAIN req[r].txs
  /\ Become(r, [req[r] EXCEPT !.pc = "answered"])

-------------------------------------------------------------------------------
(* GetOperations, run by both endpoints.                                   *)

AppendLog(r) ==
  LET l == req[r]
      logs == l.receipts[l.n].eventLogs
  IN /\ l.pc = "logs"
     /\ l.k \in DOMAIN logs
     /\ Become(r, [l EXCEPT
          !.txs[l.n].operations = @ \o LogOps(l.fa, logs[l.k], l.last),
          !.last = @ + LogAdvance(logs[l.k]),
          !.k = @ + 1])

\* Mutant of FinishBlockTransaction: the status of the receipt is not used.
FinishWithoutStatus(r) ==
  LET l == req[r]
  IN /\ l.pc = "logs"
     /\ l.want.endpoint = "block"
     /\ l.k \notin DOMAIN l.receipts[l.n].eventLogs
     /\ Become(r, [l EXCEPT !.pc = "blockFees", !.n = @ + 1])

\* The last part of the loop body of MakeBlockWithReceipts.
FinishBlockTransaction(r) ==
  LET l == req[r]
      receipt == l.receipts[l.n]
  IN /\ l.pc = "logs"
     /\ l.want.endpoint = "block"
     /\ l.k \notin DOMAIN receipt.eventLogs
     /\ Become(r, [l EXCEPT
          !.pc = "blockFees",
          !.txs[l.n].operations = SetTransferStatus(@, receipt),
          !.n = @ + 1])

-------------------------------------------------------------------------------
(* /block/transaction *)

TransactionWants ==
  [endpoint : {"transaction"},
   hash : [block : 1..MaxHeight, position : 1..MaxPosition]]

BlockTransaction(r) ==
  \E want \in TransactionWants : Accept(r, want, "getTransaction")

InBlock(hash) ==
  /\ hash.block \in Height
  /\ hash.position \in DOMAIN BlockAt(hash.block).txs

\* ParseTransactions is given the one transaction; txs[0] panics when it
\* returns none.
GetTransaction(r) ==
  LET hash == req[r].want.hash
      raw == BlockAt(hash.block).txs[hash.position]
  IN /\ req[r].pc = "getTransaction"
     /\ \/ /\ InBlock(hash)
           /\ raw.wellFormed
           /\ Become(r, [req[r] EXCEPT
                !.pc = "getTransactionResult",
                !.txs = << [hash |-> hash,
                            operations |-> ParseTransaction(raw)] >>])
        \/ /\ InBlock(hash)
           /\ ~raw.wellFormed
           /\ Abort(r)
        \/ Fail(r, "ErrWrongBlockHash")

GetTransactionResult(r) ==
  LET hash == req[r].want.hash
      receipts == BlockAt(hash.block).receipts
  IN /\ req[r].pc = "getTransactionResult"
     /\ \/ /\ hash.position \in DOMAIN receipts
           /\ Become(r, [req[r] EXCEPT
                !.pc = "txFees",
                !.receipts = << ParseTransactionResult(receipts[hash.position]) >>])
        \/ Fail(r, "ErrWrongBlockHash")

\* MakeTransactionWithReceipt repeats the loop body for one transaction.
TransactionFees(r) ==
  LET l == req[r]
      operations == l.txs[1].operations
  IN /\ l.pc = "txFees"
     /\ \/ /\ ~ReceiptFits(operations, l.receipts, 1)
           /\ Abort(r)
        \/ /\ ReceiptFits(operations, l.receipts, 1)
           /\ Become(r, [l EXCEPT
                !.pc = "logs",
                !.k = 1,
                !.txs[1].operations = RewriteFees(operations, l.receipts[1]),
                !.fa = ClaimAccount(operations, @),
                !.last = Len(operations) - 1])

AnswerTransaction(r) ==
  LET l == req[r]
      receipt == l.receipts[1]
  IN /\ l.pc = "logs"
     /\ l.want.endpoint = "transaction"
     /\ l.k \notin DOMAIN receipt.eventLogs
     /\ Become(r, [l EXCEPT
          !.pc = "answered",
          !.txs[1].operations = SetTransferStatus(@, receipt)])

-------------------------------------------------------------------------------

\* The response (or the closed connection) reaches the caller.
Deliver(r) ==
  /\ req[r].pc \in Outcomes
  /\ Become(r, Idle)

Handle(r) ==
  \/ GetBlock(r)
  \/ GetBlockReceipts(r)
  \/ BlockFees(r)
  \/ AppendLog(r)
  \/ FinishBlockTransaction(r)
  \/ AnswerBlock(r)
  \/ GetTransaction(r)
  \/ GetTransactionResult(r)
  \/ TransactionFees(r)
  \/ AnswerTransaction(r)

Next ==
  \/ ProduceBlock
  \/ \E r \in Requests :
       Block(r) \/ BlockTransaction(r) \/ Handle(r) \/ Deliver(r)

Spec == Init /\ [][Next]_vars

\* The node answers or fails every call, and the runtime schedules every
\* handler; nothing obliges callers to send or the node to produce blocks.
FairSpec == Spec /\ \A r \in Requests : WF_vars(Handle(r)) /\ WF_vars(Deliver(r))

-------------------------------------------------------------------------------
(* Properties. *)

\* Rosetta's rule for every transaction a handler holds, at every step of
\* MakeBlockWithReceipts and GetOperations: operations are numbered 0, 1, 2 ...
\* in order and relate only to earlier ones, although the numbers come from
\* lastOpIndex, which the log loop advances by hand, apart from the list.
OperationsWellFormed ==
  \A r \in Requests : \A t \in DOMAIN req[r].txs :
    LET operations == req[r].txs[t].operations
    IN \A i \in DOMAIN operations :
         /\ operations[i].index = i - 1
         /\ \A j \in operations[i].related : j < i - 1

Raw(hash) == BlockAt(hash.block).txs[hash.position]

\* The account a claim of this transaction pays.
Claimant(hash) ==
  IF IsBase(Raw(hash)) THEN SystemScore ELSE Raw(hash).from

\* An I-Score claim is credited to the sender of the transaction whose receipt
\* logged it, never to the sender of another transaction of the block: the
\* variable fa of MakeBlockWithReceipts outlives the transaction that set it.
ClaimsAttributed ==
  \A r \in Requests : \A t \in DOMAIN req[r].txs :
    LET tx == req[r].txs[t]
    IN \A i \in DOMAIN tx.operations :
         /\ tx.operations[i].type = "CLAIM"
         /\ tx.operations[i].related # {}
         => tx.operations[i].account = Claimant(tx.hash)

Requested(l) ==
  IF l.want.index # None THEN l.id.index = l.want.index
  ELSE IF l.want.hash # None THEN l.id.hash = l.want.hash
  ELSE l.id.index >= l.since

\* What the receipt of the same transaction of the same block says.
MatchesReceipt(operations, receipt) ==
  /\ IsGeneral(operations) /\ operations[4].type = "FEE" /\ receipt.stepUsed # 0 =>
       operations[4].amount = receipt.stepUsed * receipt.stepPrice
  /\ \A i \in DOMAIN operations :
       operations[i].type = "TRANSFER" =>
         operations[i].status = StatusFlag(receipt)

\* A block answer is put together from two calls to the node while its chain
\* grows, yet it describes one block: the one asked for (for "latest", one no
\* older than the tip when the request arrived), with that block's parent, its
\* transactions all and in order, and each with its own receipt.  Only a block
\* with a transaction that cannot be parsed loses its transactions, all of them.
AnswersOneBlock ==
  \A r \in Requests :
    LET l == req[r]
        h == l.id.index
        block == BlockAt(h)
    IN l.pc = "answered" /\ l.want.endpoint = "block" =>
         /\ h \in Height
         /\ Requested(l)
         /\ l.id = Identifier(h)
         /\ l.parent = ParentIdentifier(h)
         /\ h > 0 => Len(l.txs) =
              IF \A i \in DOMAIN block.txs : block.txs[i].wellFormed
              THEN Len(block.txs) ELSE 0
         /\ \A i \in DOMAIN l.txs :
              /\ l.txs[i].hash = TxHash(h, i)
              /\ MatchesReceipt(l.txs[i].operations, block.receipts[i])

\* /block and /block/transaction, whose code is written twice, give the same
\* operations for the same transaction.
EndpointsAgree ==
  \A r1, r2 \in Requests :
    /\ req[r1].pc = "answered" /\ req[r1].want.endpoint = "block"
    /\ req[r2].pc = "answered" /\ req[r2].want.endpoint = "transaction"
    => \A t \in DOMAIN req[r1].txs :
         req[r1].txs[t].hash = req[r2].want.hash =>
           req[r1].txs[t] = req[r2].txs[1]

\* Every request that reaches a handler ends, answered, refused or aborted,
\* however the node and the other handlers interleave with it.
EveryRequestEnds ==
  \A r \in Requests : req[r].pc \in Steps ~> req[r].pc \in Outcomes
===============================================================================
