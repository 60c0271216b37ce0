---------------------------- MODULE MCBlockService ----------------------------
(***************************************************************************)
(* BlockService with block contents small enough to enumerate.  Between    *)
(* them the bodies hold every kind of transaction, event log and receipt   *)
(* that the parsing code distinguishes.                                    *)
(***************************************************************************)
EXTENDS BlockRefinement, TLC

CONSTANTS Alice, Bob, r1, r2

Transfer(from, to, value) ==
  [version |-> 3, dataType |-> None, from |-> from, to |-> to, value |-> value,
   stepLimit |-> 9, fee |-> 0, wellFormed |-> TRUE]

Call(from, type) ==
  [Transfer(from, SystemScore, None) EXCEPT !.dataType = type]

BaseTx == [Call(SystemScore, "base") EXCEPT !.stepLimit = 0]

Old(from, to, value) ==
  [Transfer(from, to, value) EXCEPT !.version = 2, !.fee = 2, !.stepLimit = 0]

\* The sender pays its steps; a positive "shared" is paid by the SCORE called.
Receipt(payer, steps, shared, logs) ==
  [success |-> TRUE, stepUsed |-> steps + shared, stepPrice |-> 3,
   stepDetails |-> [a \in Address |-> IF a = payer THEN steps ELSE 0], eventLogs |-> logs,
   wellFormed |-> TRUE]

Unpriced(logs) ==
  [GenesisReceipt EXCEPT !.eventLogs = logs]

Failed(receipt) == [receipt EXCEPT !.success = FALSE]
Broken(x) == [x EXCEPT !.wellFormed = FALSE]

ICXTransfer(from, to, value) ==
  [sig |-> "ICXTransfer(Address,Address,int)", indexed |-> <<from, to, value>>,
   data |-> <<>>]
ICXIssued(value) ==
  [sig |-> "ICXIssued(int,int,int,int)", indexed |-> <<>>,
   data |-> <<1, 0, value, 0>>]
Claimed(sig, indexed, value) ==
  [sig |-> sig, indexed |-> indexed, data |-> <<7, value>>]
Burned(sig, indexed, value) ==
  [sig |-> sig, indexed |-> indexed, data |-> <<value>>]
Withdrawn(account, value) ==
  [sig |-> "DepositWithdrawn(bytes,Address,int,int)",
   indexed |-> <<None, account>>, data |-> <<value, 0>>]
OtherLog == [sig |-> "other", indexed |-> <<>>, data |-> <<>>]

\* A block of the current network: issue first, then claims of two senders.
Claims2 ==
  [version |-> "0.5",
   txs |-> << BaseTx, Call(Alice, "call"), Call(Bob, "call") >>,
   receipts |->
     << Unpriced(<< ICXIssued(5) >>),
        Receipt(Alice, 2, 0, <<
          Claimed("IScoreClaimedV2(Address,int,int)", <<Alice>>, 4),
          ICXTransfer(Alice, Bob, 1) >>),
        Receipt(Bob, 1, 0, << OtherLog,
          Claimed("IScoreClaimed(int,int)", <<>>, 6) >>) >>]

\* A transfer that failed, then a call whose steps the SCORE shares.
Shared ==
  [version |-> "0.4",
   txs |-> << Transfer(Alice, Bob, 3), Call(Bob, "call") >>,
   receipts |->
     << Failed(Receipt(Alice, 2, 0, <<>>)),
        Receipt(Bob, 1, 1, << ICXTransfer(SystemScore, Alice, 2),
          Burned("ICXBurnedV2(Address,int,int)", <<Bob>>, 3),
          ICXTransfer(Alice, Bob, 1) >>) >>]

OldBlock ==
  [version |-> "0.1a",
   txs |-> << Old(Alice, Bob, 3), Old(Bob, Bob, 1) >>,
   receipts |-> << Unpriced(<<>>), Failed(Unpriced(<<>>)) >>]

Burning ==
  [version |-> "0.3",
   txs |-> << Call(Alice, "deploy"), Call(Alice, "message") >>,
   receipts |->
     << Receipt(Bob, 2, 0, << Burned("ICXBurned", <<>>, 1) >>),
        Receipt(Alice, 2, 0, << Burned("ICXBurned(int)", <<>>, 1) >>) >>]

Returning ==
  [version |-> "0.5",
   txs |-> << Call(Alice, "call") >>,
   receipts |-> << Receipt(Alice, 1, 0, << Withdrawn(Alice, 4), OtherLog,
          ICXTransfer(Alice, Bob, 1) >>) >>]

BrokenTransaction ==
  [version |-> "0.5",
   txs |-> << Transfer(Alice, Bob, 1), Broken(Transfer(Bob, Alice, 1)) >>,
   receipts |-> << Receipt(Alice, 1, 0, <<>>), Receipt(Bob, 1, 0, <<>>) >>]

BrokenReceipt ==
  [version |-> "0.5",
   txs |-> << BaseTx, Transfer(Alice, Bob, 1) >>,
   receipts |-> << Unpriced(<<>>), Broken(Receipt(Alice, 1, 0, <<>>)) >>]

Unsupported == [OldBlock EXCEPT !.version = "other"]

AllBodies == {Claims2, Shared, OldBlock, Burning, Returning, BrokenTransaction,
              BrokenReceipt, Unsupported}
MainBodies == {Claims2, Shared}

Accounts3 ==
  << [address |-> Alice, balance |-> 8], [address |-> Treasury, balance |-> 0],
     [address |-> Bob, balance |-> 5] >>

RequestSymmetry == Permutations(Requests)
===============================================================================
