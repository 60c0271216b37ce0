# A verification of rosetta-icon

rosetta-icon is a Rosetta API server for the ICON blockchain: an HTTP server that
answers Rosetta requests by calling an ICON node over JSON-RPC and rewriting what
the node says as Rosetta blocks, operations and balances.  This directory holds
TLA+ models of it, the configurations that TLC checks them with, and theorems that
TLAPS proves.  Paths below are relative to the repository.

The program keeps almost no state of its own.  What can go wrong in it is in the
local state of a handler that builds its answer over several calls to a node whose
chain moves meanwhile, in loops that carry variables from one transaction to the
next, in errors that are dropped half-way, and in code that is written twice.

## Inventory

| Component | Source | State | Operations |
|---|---|---|---|
| Operations | `icon/client_v1/operations.go`, `transactions.go`, `parser.go`, `types.go` | none; pure functions | build the operations of a transaction, append those of event logs, rewrite fees and status from the receipt |
| Block API | `services/block_service.go`, `icon/client.go`, `icon/client_v1/client.go`, `blocks.go` | the local variables of each handler | `/block`, `/block/transaction` |
| Account API | `services/account_service.go`, `icon/client_v1/client.go` (`GetBalance`), `types.go` (`DebugAccount`) | the local variables of each handler; whether a debug endpoint was found at start | `/account/balance` |
| Network API | `services/network_service.go`, `icon/client.go` (`GetPeer`) | the local variables of each handler | `/network/list`, `/network/status`, `/network/options` |
| Construction API | `services/construction_service.go`, `services/types.go`, `icon/client_v1/types.go` | none between calls: the caller carries the options, metadata and transactions | derive, preprocess, metadata, payloads, combine, hash, parse, submit |
| JSON-RPC client | `icon/client_v1/jsonrpc.go`, `codec.go` | the HTTP connection pool | `Do`, `DoURL` |
| Server process | `cmd/root.go`, `cmd/run.go`, `main.go` | `SignalReceived`, the contexts, the error group, the HTTP server | start, signal, shutdown |
| Configuration | `configuration/configuration.go` | read once from the environment | `LoadConfiguration` |
| Router | `services/router.go` | none | one handler per request; asserter, logger and CORS are the SDK's |
| Address check | `icon/address.go`, `icon/errors.go` | none | `CheckAddress` |
| Sample client, deployment files | `test_client`, `docker`, `rosetta-cli-conf` | none | not part of the server |

**Interactions.**  The router starts a goroutine per request.  A handler of
`services/` checks the mode, calls `icon/client.go`, which makes one to three
JSON-RPC calls through `icon/client_v1` and waits for each.  Handlers share nothing
that they write; they meet in the node, whose chain grows between any two calls.  A
panic in a handler is recovered by `net/http`, which closes the connection.  The
construction endpoints hand state to each other only through the caller.

**What is hard, and what makes each component correct.**

- *Operations.*  `lastOpIndex` is advanced by hand in every branch of
  `GetOperations`, apart from what is appended.  Correct: operations numbered
  0, 1, 2 ... and related to earlier ones only; value neither made nor lost, apart
  from what the receipt issues, returns or burns and the fees others pay; only
  published operation types.
- *Block API.*  A block and its receipts are two calls; the claimant `fa` outlives
  the transaction that set it; the errors of `ParseTransactions` and
  `ParseTransactionResult` are dropped; the loop body is written once per endpoint.
  Correct: one answer describes one block, the one asked for, with its own receipts;
  a claim is credited to the sender of its own transaction; both endpoints agree;
  every request ends.
- *Account API.*  The block identifier and the balance are two calls; every failure
  becomes one error.  Correct: the balance is the account's at the block answered or
  at a later one; staking is not visible; only published errors.
- *Network API.*  Two block reads and a loop over peers, each of which may fail; the
  error of the loop is ignored.  Correct: the status names blocks of one chain, the
  current one no older than the request; a failing peer does not take it down.
- *Construction API.*  The caller may repeat, reorder, delay and mix calls, in processes
  of either mode; a submit may be given up before the node takes the transaction.
  Correct: what is signed is what the operations said, `/construction/parse` gives that
  back signed or unsigned, the hash announced is the hash submitted, what reaches the
  chain was placed and authorized by its payer, once and in time.
- *JSON-RPC client.*  An error path for each combination of status, `Content-Type` and
  body, one of which leaves the body open and one of which makes an error that is not
  nil of a nil pointer.  Correct: a call that failed is never taken for an answer, a
  connection is given back, and calls end.
- *Server process.*  Four goroutines that end each other through a context, a channel
  and a shared variable.  Correct: the process serves until it is stopped, then ends,
  and says so when it was a signal that stopped it.
- *Configuration.*  The address of the debug endpoint is made in two places, the network
  id in a third.  Correct: the places agree, and no two networks share an id.

## Plan

1. `Operations`, `BlockService`, with `BlockApi` as the abstract specification of the
   block endpoints and `BlockRefinement` between them; `AccountBalance`.  *Done*, with
   the theorems listed under "What is proved".
2. `Construction`, with `ConstructionFlow` as the abstract specification and
   `ConstructionRefinement` between them.  *Done*, with its theorems.
3. `NetworkStatus`, `JsonRpcClient`, `Lifecycle`, `Configuration`.  *Done*, with the
   theorems listed under "What is proved".
4. Proofs: that the endpoints of `Construction` implement the flow; that each step of
   `BlockService` is a step or a stutter of `BlockApi`, with the invariant that says what
   the log loop has made so far; `EndpointsAgree` and `SupplyAccounted` from it.  *Done*:
   every safety property that a run passes is a theorem.
5. `Reconciliation`: `BlockService` and `AccountBalance` over one ledger, for the rule
   that the operations of the blocks between two reads explain the two balances.

## The modules

| Module | What it is |
|---|---|
| `Operations` | the operators for `operations.go`, `GetDataType`, `Values`, `GetUserStep` and the rewriting of fees and status |
| `BlockService` | the state machine of `/block` and `/block/transaction`, and its properties |
| `BlockApi` | the abstract specification: a call is decided in one step from one block |
| `BlockRefinement` | the refinement mapping, `SupplyAccounted`, `TypesPublished` |
| `MCBlockService` | block contents, receipts and genesis accounts for TLC |
| `AccountBalance` | the state machine of `/account/balance`, and its properties |
| `MCAccountBalance` | initial holdings for TLC |
| `Construction` | the eight endpoints, the wallets, the node's pool, and the properties |
| `ConstructionFlow` | the abstract specification: an order is placed, authorized, taken |
| `ConstructionRefinement` | the refinement mapping, `ImplementsFlow` |
| `MCConstruction` | wallets, operations and foreign transactions for TLC |
| `NetworkStatus`, `MCNetworkStatus` | `/network/status` and the node it asks |
| `JsonRpcClient`, `MCJsonRpcClient` | `DoURL` and what the handlers make of its errors |
| `Lifecycle`, `MCLifecycle` | the goroutines of the process |
| `Configuration`, `MCConfiguration` | the environment, the two addresses and the network id |
| `BlockServiceProofs` | lemmas about the operators of `Operations`, the inductive invariant of the handlers and its theorems |
| `BlockRefinementProofs` | what the loops make, the refinement of `BlockApi`, and sums |
| `AccountBalanceProofs`, `NetworkStatusProofs`, `JsonRpcClientProofs`, `LifecycleProofs`, `ConfigurationProofs`, `ConstructionProofs` | the inductive invariants and the theorems |

### Operations

An operation is a record of its index, the set of indices it relates to, its type,
status, account and amount.  Amounts are integers where the code keeps decimal strings
of `big.Int`, which do not overflow.  The operators keep the names of the Go functions.
`TransferAndFee` is the list that `ParseOperationsV2` and `ParseOperationsV3` share,
`LogOps` and `LogAdvance` are the two effects of one iteration of `GetOperations`: what
it appends, and by how much it moves `lastOpIndex`.  They are two operators because the
code does them apart, which is the hazard.  Metadata, currencies and the decoding of
message data are left out.

Addresses, event signatures and data types are members of small sets.  A message that
`json.Unmarshal` rejects is one whose field `wellFormed` is FALSE.

### BlockService

`req[r]` holds the local variables of the handler of request `r` together with the
place `pc` where it is.  The steps of a handler:

| Action | Code |
|---|---|
| `Block`, `BlockTransaction` | the handlers of `block_service.go` up to the mode check |
| `GetBlock` | the choice of parameters in `icon/client.go`, `ClientV3.GetBlock`, `ParseBlock` and all it calls |
| `GetBlockReceipts` | `ClientV3.GetBlockReceipts` by the hash of the block just parsed |
| `BlockFees` | first part of the loop body of `MakeBlockWithReceipts`, or a panic |
| `AppendLog` | one iteration of `GetOperations` |
| `FinishBlockTransaction` | last part of the loop body: the status |
| `AnswerBlock` | the end of the loop |
| `GetTransaction`, `GetTransactionResult` | the two calls of `/block/transaction` |
| `TransactionFees`, `AppendLog`, `AnswerTransaction` | `MakeTransactionWithReceipt` |
| `Deliver` | the response leaves; the request's place is free again |
| `ProduceBlock` | the node (external) |

A call to the node and what the code does with the answer up to the next call or the
next loop iteration is one action: the handler reads nothing in between that another
process writes.  Every call may fail.  Failure is `failed` with the error of
`wrapErr`; a nil pointer or an index out of range is `aborted`.

ICON blocks are final, so a hash is modelled as the place it identifies: the block at
a height, the transaction at a position of a block.  The fields `since` of a handler
(the tip when the request arrived) and `seen` in `AccountBalance` are history
variables: no action reads them.

### BlockApi and the refinement

`BlockApi` has the node's chain and, per request, a status and an answer.  It decides a
call in one step, from one block, and says what the operations of a transaction are by
what each part of the transaction and its receipt moves, numbering them by their
places, with no loop and no counter.  It says too what the code does with input it
cannot digest: a block with a transaction that does not parse is answered without
transactions; a receipt that is missing or does not parse (not `Fits`) aborts the answer, and
so does, for `/block/transaction`, a transaction that does not parse; nothing else does.  The
mapping hides everything of a handler but its request and its
finished answer.

`SupplyAccounted` adds up an answer.  The transaction itself moves nothing but the part of
its fee that others pay (`SharedFee`): where no step was counted the code keeps the
provisional fee, all of it the sender's, whatever the step details say.

### AccountBalance

The ledger records what each account holds, in coins, stake and unstakes, after each
block; `moves[h]` is what block `h` moved.  A handler reads the tip (`GetLastBlock`),
then the account as it is by then (`GetAccount`).  `debugEndPoint` is what
`guessDebugEndpoint` found at start.  The account answer may lack a field that `Balance`
dereferences: then the handler aborts.

### Construction

The endpoints keep nothing, so the state is elsewhere: `prepared`, `signatures` and
`signed` are what the wallets hold, `onWire` and `taken` what the network does, `req` the
handlers.  A wallet may hand any artifact to any endpoint, in a process of any mode, as
often as it likes and at any time; `Foreign` are unsigned transactions of other tools.

| Action | Code |
|---|---|
| `ConstructionDerive`, `ConstructionPreprocess`, `ConstructionMetadata`, `ConstructionCombine`, `ConstructionHash`, `ConstructionParse` | the handlers of these names: they wait for nothing, so each is one step |
| `ConstructionPayloads` | the handler up to `EstimateStep`: the rewriting of a contract call with nothing, the match, the transaction with its timestamp |
| `EstimateStep` | the rest: step limit, `CalcHash`, payload |
| `ConstructionSubmit`, `SendTransaction` | the handler up to the call, and from it |
| `Deliver` | the response leaves |
| `Sign`, `Tick`, `LateArrival` | the wallets, time, and a transaction that arrives after its submit was given up (external) |

A hash is the function it is made from, `CalcHash(tx)` on `HashedFields`, so that two
hashes are equal exactly when what was written into them is; the node's hash is of all
fields it is *sent*.  That these are the same fields is not built in: `CalcHash` and
`ToJSON` list them separately.  A signature is a key and the hash it is over.  Amounts
are texts (`Number`): a sign and a natural number, so that `-0` exists.
`parser.MatchOperations` of the SDK is modelled from how the two descriptions use it.

`ConstructionFlow` knows orders only: who pays how much to whom, with what limit, time
and data.  It decides in its own words which operations place one (`Pays`, `Worth`) and
has neither endpoints nor errors.  In the mapping an order is an unsigned transaction
that the wallet holds, without its signature, and it is authorized when the key of its
payer has signed exactly it.

### NetworkStatus

A handler makes the calls one by one: `GetGenesisBlock`, `GetGenesisReceipts`,
`GetLastBlock`, `GetLastReceipts` (the two `GetBlock`s of `NetworkStatus`),
`GetMainPReps` and `GetPRep` for each element of the list (`GetPeer`).  In between the
node produces blocks, elects, stops and starts.  Whatever goes wrong in a block read is
`ErrWrongBlockHash`; the error of `GetPeer` is not looked at; a failed `GetPRep` is a nil
pointer that is dereferenced.

### JsonRpcClient

`Connect`, `DoURL` and `Return` are the steps of a call, `Respond` and `Break` those of
the node or of a gateway before it.  `Outcome` is the tree of conditions of `DoURL`,
`Released` says which of its paths give the connection back.  `Return` is what the
caller does with the error: `Passed` lists for each method whether it goes to `wrapErr`,
which calls `Error()` on it and panics if it is a nil `*Error`, into a text, or nowhere.

### Lifecycle

One variable per goroutine (`main`, `handler`, `listener`, `waiter`) says where it is.
`Load`, `Start` and `Wait` are `runRunCmd`, `NotifySignals` and `HandleSignal` the
goroutine of `handleSignals`, `Listen`, `FailAccept` and `CloseListener` that of
`ListenAndServe`, `BeginShutdown` and `FinishShutdown` the one that shuts the server
down.  `HandleSignal` takes two steps, since another goroutine may run between the
assignment to `SignalReceived` and the cancellation.

### Configuration

`LoadConfiguration`, `NewClientV3` and `MapNetwork`.  An address is its path as a list of
segments, and whether it has a scheme; `guessDebugEndpoint` works on that list as the
code does.  `Restart` starts the process with another environment.

## What TLC checks

| Run | Module, configuration | Properties | Shows |
|---|---|---|---|
| `block_one` | `MCBlockService`, `BlockOne.cfg` | `TypeOK`, `AnswersOneBlock`, `SupplyAccounted`, `ImplementsApi`, `EveryRequestEnds` | one request of either endpoint against every kind of block: an answer is one block, its amounts add up, it is what `BlockApi` allows, and under fairness there is one |
| `block_two` | `MCBlockService`, `BlockTwo.cfg` | `OperationsWellFormed`, `ClaimsAttributed`, `EndpointsAgree` | two requests at a time: numbers and claimants are right at every step of the loops, and the endpoints agree |
| `block_types` | `MCBlockService`, `BlockTypes.cfg` | `TypesPublished` | violated, see Findings |
| `balance` | `MCAccountBalance`, `Balance.cfg` | `TypeOK`, `BalanceNotOlder`, `StakingInvisible` | two requests about two accounts that transfer, stake and unstake |
| `balance_errors` | `MCAccountBalance`, `BalanceErrors.cfg` | `ErrorsPublished` | violated, see Findings |
| `construction_one` | `MCConstruction`, `ConstructionOne.cfg` | `TypeOK`, `PayloadsCombine`, `ParseConfirms`, `PreprocessAgrees` | every kind of operations, one payload: its signer can complete it, `parse` gives the operations back, `preprocess` and `payloads` agree |
| `construction_mix` | `MCConstruction`, `ConstructionMix.cfg` | `CombinedAuthentic`, `IdentifiersTaken`, `ImplementsFlow` | two payments and a foreign transaction whose artifacts are mixed, given up, repeated and late |
| `construction_offline` | `MCConstruction`, `ConstructionOffline.cfg` | `OfflineCallsNoNode` | violated, see Findings |
| `status` | `MCNetworkStatus`, `Status.cfg` | `TypeOK`, `StatusCurrent`, `PeersOfOneMoment`, `StatusEnds` | two requests while the chain grows, P-Reps change and the node stops once |
| `json_rpc` | `MCJsonRpcClient`, `JsonRpc.cfg` | `TypeOK`, `AnsweredDone`, `ConnectionsAccounted`, `CallsEnd` | two calls at a time against every reply |
| `lifecycle` | `MCLifecycle`, `Lifecycle.cfg` | `TypeOK`, `SignalReported`, `ServesUntilStopped`, `Stops` | every interleaving of the goroutines with two signals and two requests |
| `configurations` | `MCConfiguration`, `Configurations.cfg` | `TypeOK`, `DebugEndpointsAgree`, `NidsDistinct` | every environment over a few addresses and ports, with restarts |

**Bounds.**  They are constants and appear only in the guards of the environment's
actions (`MaxPrepared` in that of `ConstructionPayloads`, which a wallet starts).
`MaxHeight` bounds the chain, `MaxPosition` the position asked for, `MaxMove` the largest
amount of a block.  Height 2 gives a block after the one asked for and one before it, so
that "latest" can become stale and parents differ; a handler makes two calls, so a third
block shows nothing new.  The bodies of `MCBlockService` contain between them each
version, each kind of transaction, each branch of `GetOperations`, logs before and after
others, a receipt with and without steps, with shared steps, a failed receipt, claims of
two senders behind a base transaction, a transaction and a receipt that do not parse, and
an unsupported version.  `block_two` takes the two richest of them, since two handlers of
the same kind of request do not share what they write.  Two requests are enough for
every property here: each relates at most two answers.

In `Construction`, `MaxPrepared` bounds the payloads that are answered, `MaxSigned` the
signatures and `MaxClock` the time; `Window` is the node's, 0 in `construction_mix` so that a tick
makes a transaction too old.  Two payloads and two signatures are what mixing takes: a
signature of each key for either, and the wrong one for each.  `AllIntents` has a match in
either order of the operations, amounts that differ, the contract call with nothing, data
that cannot be hashed, and one intent for each way to be refused.  There is one
request at a time in these runs: handlers share nothing, and what they leave with the
wallet, the wire and the node is changed in one atomic step each, so that a wallet that
makes one call after another meets the same states as one that makes two at once.

`MaxElections` and `MaxStops` bound the changes behind `/network/status`: one election
and one stop may fall between any two calls of a handler.  `MaxUntyped` bounds the
connections that are left open: 2, as many as calls, which is what a limit on them would need to
hold up a call; `MCMethods` has one method for each way to pass an error.  `MaxSignals` is
2, one more than the channel is read for.

**Symmetry.**  `block_two` and `balance` use the permutations of the requests, which
the specifications treat alike; runs with liveness properties use none.

**Fairness.**  `FairSpec` of `BlockService` has weak fairness of each handler's steps and
of the delivery of its response.  The Go runtime schedules every handler.  For the calls
to the node it is an assumption about the node: it answers or refuses every call.  The
HTTP client of `jsonrpc.go` has no timeout and handlers pass no context to it, so the
program itself does not ensure that.  `NetworkStatus` assumes the same of `Proceed`;
`JsonRpcClient` says it in two parts, the goroutine (`Proceed`) and the node, which replies
or whose connection breaks (`Node`).  `Lifecycle` assumes that each goroutine of the
process is scheduled, and nothing of the handlers: `Stops` holds although they may wait
for ever.  Callers need not call, the node need not produce blocks, signals need not come.

**Deadlock** is checked in every run but `lifecycle`, where a process that has exited does
nothing more.  Elsewhere the callers may always call again.

## Findings

- `TypesPublished`.  `getDepositWithdrawn` (`icon/client_v1/operations.go:414`) makes
  operations of type `WITHDRAWN`, which is not among the types that
  `icon/client_v1/types.go:33` publishes and `API.md` lists.
- `ErrorsPublished`.  `/account/balance` answers every failure with `ErrInvalidAddress`
  (`services/account_service.go:51`), which is not in `Errors`, although the comment at
  `services/errors.go:22` says that the list contains all errors that could be returned.

- `OfflineCallsNoNode`.  `/construction/payloads` estimates the steps with the node whatever the
  mode (`services/construction_service.go:252`), although the comment at
  `configuration/configuration.go:36` says that in OFFLINE mode the implementation is not
  permitted to make outbound connections.

Also visible in the models, and stated as what the code does:

- a contract call with the amount 0 becomes a transaction in `payloads` but is refused by
  `preprocess`, which `API.md:890` puts before it (the exception in `PreprocessAgrees`);
  `parse` answers `-0` for its debit, which equals 0 as a number only;
- amounts that differ are accepted: the value is that of the credit (`Worth`);
- a submit that fails may still be taken, then or later (`LateArrival`);
- a status other than 200 with JSON but no error member makes `wrapErr` panic, so that a
  failed broadcast is not answered as `ErrBroadcastFailed`; a reply without a
  `Content-Type` leaves its connection open (`ConnectionsAccounted`);
- a failed `getPRep` aborts `/network/status`, while a failed `getMainPReps` only leaves
  the peers out; a node that is not ready is answered as `ErrWrongBlockHash`, and nothing
  returns `ErrNotReady`;
- requests in flight are cut off when the process stops, since `Shutdown` is given a context that is
  done; a signal that comes while the server stops after an error hides that error; a signal
  before `signal.Notify` kills the process at once;
- an `ENDPOINT` with a segment `api` of its own leaves the client without a debug endpoint.

In the block and account endpoints: a block loses all its
transactions when one does not parse; the treasury's fee credit exceeds the sender's
debit when a SCORE shares the steps; a claim is credited to the sender of the
transaction, although the second version of the event names the claimant; balances and
their block come from two calls, so a balance may be newer than its block.

## What is proved

TLAPS proves, for all values of the constants that satisfy the assumptions:

| Theorem | States |
|---|---|
| `BlockServiceProofs!TypeCorrect` | `Spec => []TypeOK` |
| `BlockServiceProofs!WellFormed` | `Spec => []OperationsWellFormed` |
| `BlockServiceProofs!ClaimsRight` | `Spec => []ClaimsAttributed` |
| `BlockServiceProofs!OneBlock` | `Spec => []AnswersOneBlock` |
| `BlockRefinementProofs!Making` | `Spec => []MInv`, see below |
| `BlockRefinementProofs!Agree` | `Spec => []EndpointsAgree` |
| `BlockRefinementProofs!Supply` | `Spec => []SupplyAccounted` |
| `BlockRefinementProofs!Refinement` | `Spec => ImplementsApi` |
| `AccountBalanceProofs!TypeCorrect` | `Spec => []TypeOK` |
| `AccountBalanceProofs!NotOlder` | `Spec => []BalanceNotOlder` |
| `AccountBalanceProofs!Staking` | `Spec => []StakingInvisible` |
| `NetworkStatusProofs!TypeCorrect` | `Spec => []TypeOK` |
| `NetworkStatusProofs!Current` | `Spec => []StatusCurrent` |
| `NetworkStatusProofs!OneMoment` | `Spec => []PeersOfOneMoment` |
| `JsonRpcClientProofs!TypeCorrect` | `Spec => []TypeOK` |
| `JsonRpcClientProofs!Answered` | `Spec => []AnsweredDone` |
| `JsonRpcClientProofs!Accounted` | `Spec => []ConnectionsAccounted` |
| `LifecycleProofs!TypeCorrect` | `Spec => []TypeOK` |
| `LifecycleProofs!SignalSeen` | `Spec => []SignalReported` |
| `LifecycleProofs!Serving` | `Spec => []ServesUntilStopped` |
| `ConfigurationProofs!TypeCorrect` | `Spec => []TypeOK` |
| `ConfigurationProofs!Agreement` | `Spec => []DebugEndpointsAgree` |
| `ConfigurationProofs!Distinct` | `Spec => []NidsDistinct` |
| `ConstructionProofs!TypeCorrect` | `Spec => []TypeOK` |
| `ConstructionProofs!Completable` | `Spec => []PayloadsCombine` |
| `ConstructionProofs!CombinedRight` | `Spec => []CombinedAuthentic` |
| `ConstructionProofs!Identified` | `Spec => []IdentifiersTaken` |
| `ConstructionProofs!Agreed` | `Spec => []PreprocessAgrees` |
| `ConstructionProofs!Confirmed` | `Spec => []ParseConfirms` |
| `ConstructionProofs!Refinement` | `Spec => ImplementsFlow` |

Each follows from a theorem `Invariance`, `Spec => []IInv`, those of
`BlockRefinementProofs` from `Making` as well.

**Assumptions.**  `AddressAssumption`: the treasury and the system SCORE are addresses,
and `None` is not a value.  `BlockAssumption` and `BalanceAssumption` type the
constants; the first also says that `None`, the nil pointer that a receipt which does not
parse leaves, is no receipt.  `BaseAssumption` is a rule of the ICON network: a block that
issues carries its base transaction first.  `ClaimsAttributed` needs it: `fa` starts as the system
SCORE and a base transaction does not set it, so a base transaction behind another
would credit its claims to the sender before it.  `StatusAssumption`,
`JsonRpcAssumption`, `LifecycleAssumption` and `ConfigurationAssumption` type the
constants and say that `None` is no value of a field; the last one also that the names
which the code puts into an address are segments of addresses.  `ConstructionAssumption`
types the wallets' constants and keeps `None` and `Malformed` apart from values; it also
says that no two keys have one address, as no two are known to.  `ImplementsFlow`
needs that: with two keys of one address the same order could be signed twice, and the
node, which tells signed transactions apart by all of their fields, would take both.

**The invariant of the block handlers.**  The properties are not inductive.
`OperationsWellFormed` says nothing of `last`, so a step that appends at `last + 1`
could break it; `ClaimsAttributed` says nothing of `fa`; `AnswersOneBlock` speaks of
finished handlers only.  `IInv` says of each handler, at each `pc`, where its
transactions come from (`txs[i]` was parsed from the transaction at its hash, which is
in the chain), that the first `n - 1` are finished and those after `n` are as parsed,
that during the log loop `last` is one less than the length of the list being extended
and `fa` is the claimant of transaction `n`, and before it that `fa` is still the
system SCORE while `n = 1`; and of the receipts, that they are the block's own.  It also
says of the chain that it starts with `Genesis` and continues with members of `Bodies`,
which gives that a block once read stays where it was.  The lemmas of
`BlockServiceProofs` carry the facts about lists: each operator that changes a list keeps
it numbered and keeps its first operations' shape.

**What the loops make.**  `IInv` says that the operations of an answer have the right
shape, not that they are the right ones.  `MInv`, on top of it, says which they are at
each `pc`: before the fee step those of the parser; in the log loop, with `k - 1` logs read,
`Written(MovesTo(tx, receipt, k - 1))`, the moves that `BlockApi` has for the transaction and
these logs, written as operations; and once a transaction is finished `OperationsOf(tx,
receipt)` itself (`Complete`).  The steps of the proof are equations between the two ways of
saying it: the fee step rewrites what was parsed into the transaction's own moves
(`OwnWritten`), what `GetOperations` appends at `last + 1` is what a log moves, at the next
places (`LogWritten`, where `last` is one less than the length of the list by `IInv`),
the status is that of the moves (`StatusWritten`).  That the moves of the first `k` logs are
those of `k - 1` and one more is the definition of `FlattenSeq`, an induction on `k`.  It is
done with `SetInduction`: a set of numbers that has 0, and `n + 1` with `n`, has all,
by the well-foundedness of `<`.  `EndpointsAgree` follows: each of the two answers has the
operations that its receipt calls for, and the receipt is the same.

**The refinement of the block interface.**  `ProduceBlock` is `Grow`, `Block` and
`BlockTransaction` are `Submit`, or `Refuse` offline, a failed call is `Fail`, a nil pointer is
`Abort`, `AnswerBlock`, `AnswerTransaction` and `Deliver` are the steps of these names and
`Return`; every other step is a stutter, which is that it changes `pc` among `Steps` and
neither `want` nor `error`.  An answer is one `BlockApi` could give, since every transaction
in it is `Complete`; an abort is one, since a handler that has no receipt where it
looks for one asked for a block or transaction in which a receipt does not fit, or for a transaction that
did not parse.

**Sums.**  `MapThenSumSet` takes the members of a set in an order that is not known.  The
lemmas show first that the function it recurs on exists for finite sets (`SumExists`) and
that any member may be taken first (`SumAny`, by induction on cardinality), then that
it therefore comes to the sum of a list in its order (`SumRuns`), and that such a sum of
two lists together is that of the one and the other (`SumConcatenated`).  With `MInv` the rest is
one induction on the logs: each adds to the answer what it creates (`LogCounts`), and the
transaction itself begins with `SharedFee` (`OwnCounts`), in which a transfer that failed
counts on neither side (`TransferCounts`).

**The invariant of the balance handlers** has two parts that `StakingInvisible` lacks: what
a finished handler answered is what the account owned at the block it was read at, and
(`Kept`) an account that no block between two others transferred to or from owns the
same at both.  `Kept` relates all pairs of blocks so far, which makes it inductive: a
new block extends it by one step, where the move is a transfer to or from the account,
or leaves the sum of its three parts as it was.  That holdings stay natural numbers
comes from the guard of `ProduceBlock`, that a block moves no more than there is.

**The invariant of the status handlers** says for each `pc` what has been read: the genesis
index, then the current block, of a height between the tip at arrival and the tip now,
then the list of one election, of whose first elements the peers are.  It is stable since
blocks and elections are only added.

**The invariant of the JSON-RPC client** counts.  `ConnectionsAccounted` is an inequality, and
a step that gives a connection back could break its lower side, which `open \in Nat` needs;
the invariant is an equation, open + leaving = in flight + untyped, where `Leaving` are the
calls whose reply will not be read.  For `AnsweredDone` it adds that a reply is one the
node can send, and that an outcome `"answer"` was computed from a result.

**The invariant of the process** says in which order a stop is passed on: a signal is recorded
in `SignalReceived` before it cancels the context (`SignalPassed`), the context is done before
the server is shut down (`StopPassed`), and both goroutines of the group have returned
before the process ends other than by a refused configuration or a signal's default
(`Ended`).  `SignalReported` follows: the main goroutine reads `SignalReceived` only
after whatever `cause` says was recorded.

**The invariant of the configuration** says where the two addresses come from.  In both, the
segment `api` that the client looks for is the one that the configuration has put there,
since the endpoint has none of its own, so that both places put `debug` behind it.

**The invariant of the construction** follows an artifact on its way.  A payload is what
`payloads` makes of an intent that it accepts (`Built`), with an estimate of the node and a
time in the past; what was signed is the hash of an unsigned transaction that somebody
holds (`SignaturesOK`); a signed transaction carries a signature of its own hash by the key of
its sender, and is an unsigned one that somebody holds if the signature is taken off (`SignedOK`); what is
on the wire is held by a wallet and what the node took is signed (`NetworkOK`).  Each
handler is somewhere on that way (`HandlerOK`), and one of `payloads` that has no
transaction was refused for the reason that `PayloadsError` computes, which is what
`PreprocessAgrees` compares with `preprocess`.  `ParseConfirms` rests on what a match is: two
operations, one debit and one credit, in either order (`Matched`), so that the set of
movements asked for is that of the transaction, also if `payloads` rewrote it.

**The refinement of the flow.**  `EstimateStep` that answers is a step `Place`, `Sign` is
`Authorize` if the key is that of the payer, `SendTransaction` and `LateArrival` are `Take`
where the node takes the transaction, `Tick` is `Pass`; every other step is a stutter.  Two facts
carry the proof: the hashes of the unsigned transactions are the orders, so that a foreign
signature is no authorization of any of them, and two signed transactions of one order are
the same one, so that the node's refusal of what it took before is a refusal of the order.

**Only model-checked.**  `EveryRequestEnds`, `StatusEnds`, `CallsEnd` and `Stops` are
liveness under fairness, which the provers do not cover.

## What is not modelled

- `/network/list` and `/network/options` beyond the two lists they publish: constants.
- What no handler uses of the JSON-RPC client: `Raw`, `RequestURL`, headers, the pre-hook.
- The cryptography of goloop: a signature verifies for the key and hash it was made of.
- Formatting: hexadecimal and decimal numbers, JSON, currencies, metadata; the
  operations' amounts keep their values and signs.
- The SDK (router, asserter, response encoding), the node and its consensus: the models
  say of them only what the code relies on.
- Forks: ICON blocks are final.
- `test_client`, `docker` and `rosetta-cli-conf`: no logic of the server.

## Running

    tlc -workers 2 -config BlockOne.cfg MCBlockService
    tlapm BlockServiceProofs.tla

Most runs take less than a minute, `block_two` and `construction_mix` one to two.
Operators whose comment begins with "Mutant of" are variants of a definition with a
plausible mistake in it; PROJECT.json names the property that each one breaks.
