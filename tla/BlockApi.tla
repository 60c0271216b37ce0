------------------------------- MODULE BlockApi -------------------------------
(***************************************************************************)
(* What the block endpoints promise, without saying how: a call is decided *)
(* in one step, from one block of the node's chain.  The operations of a   *)
(* transaction are defined here by what each part of the transaction and   *)
(* its receipt moves; their numbers are their places in the list.          *)
(***************************************************************************)
EXTENDS Operations, SequencesExt

CONSTANTS Requests, Bodies, GenesisAccounts, Genesis, SupportedVersions,
          CallSet  \* what callers may ask for

VARIABLES mode, chain, call

vars == <<mode, chain, call>>

-------------------------------------------------------------------------------
Move(type, account, amount) ==
  [type |-> type, account |-> account, amount |-> amount, paired |-> FALSE]

\* The credit that belongs to the move before it.
Credit(type, account, amount) ==
  [Move(type, account, amount) EXCEPT !.paired = TRUE]

LogMoves(claimant, el) ==
  CASE el.sig = "ICXTransfer(Address,Address,int)" ->
         << Move("ICXTRANSFER", el.indexed[1], -el.indexed[3]),
            Credit("ICXTRANSFER", el.indexed[2], el.indexed[3]) >>
    [] el.sig = "ICXIssued(int,int,int,int)" ->
         << Move("ISSUE", Treasury, el.data[3]) >>
    [] el.sig \in Claims ->
         << Move("CLAIM", Treasury, -el.data[2]),
            Credit("CLAIM", claimant, el.data[2]) >>
    [] el.sig \in Burns -> << Move("BURN", SystemScore, -el.data[1]) >>
    [] el.sig = "DepositWithdrawn(bytes,Address,int,int)" ->
         << Move("WITHDRAWN", el.indexed[2], el.data[1]) >>
    [] OTHER -> <<>>

\* The fee is known from the receipt unless no step was counted.
FeeMoves(tx, receipt) ==
  LET provisional == IF tx.version = 3 THEN tx.stepLimit ELSE tx.fee
      counted == receipt.stepUsed > 0
  IN << Credit("FEE", tx.from,
          IF counted
          THEN -(GetUserStep(tx.from, receipt.stepDetails) * receipt.stepPrice)
          ELSE -provisional),
        Credit("FEE", Treasury,
          IF counted THEN receipt.stepUsed * receipt.stepPrice
          ELSE provisional) >>

OwnMoves(tx, receipt) ==
  IF IsBase(tx) THEN << Move("BASE", None, None) >>
  ELSE << Move("TRANSFER", tx.from, -Values(tx)),
          Credit("TRANSFER", tx.to, Values(tx)) >> \o FeeMoves(tx, receipt)

Moves(tx, receipt) ==
  LET claimant == IF IsBase(tx) THEN SystemScore ELSE tx.from
  IN OwnMoves(tx, receipt)
       \o FlattenSeq([i \in DOMAIN receipt.eventLogs |->
                        LogMoves(claimant, receipt.eventLogs[i])])

OperationsOf(tx, receipt) ==
  LET moves == Moves(tx, receipt)
  IN [i \in DOMAIN moves |->
        [index   |-> i - 1,
         related |-> IF moves[i].paired THEN {i - 2} ELSE {},
         type    |-> moves[i].type,
         status  |-> IF moves[i].type = "TRANSFER" THEN StatusFlag(receipt)
                     ELSE SuccessStatus,
         account |-> moves[i].account,
         amount  |-> moves[i].amount]]

-------------------------------------------------------------------------------
\* Answers.  Everything the handlers cannot digest is visible here: a block
\* with a broken transaction is answered without transactions, and a broken
\* receipt leaves no answer at all.

BlockHash(h) == [block |-> h]
TxHash(h, i) == [block |-> h, position |-> i]
Identifier(h) == [index |-> h, hash |-> BlockHash(h)]

Parsed(h) == \A i \in DOMAIN chain[h + 1].txs : chain[h + 1].txs[i].wellFormed

\* There is a receipt for the transaction, and it parses.
Fits(h, i) ==
  /\ i \in DOMAIN chain[h + 1].receipts
  /\ chain[h + 1].receipts[i].wellFormed

AnswerTo(h, i) ==
  [hash |-> TxHash(h, i),
   operations |-> OperationsOf(chain[h + 1].txs[i], chain[h + 1].receipts[i])]

GenesisAnswer ==
  [hash |-> TxHash(0, 1), operations |-> ParseGenesisOperationsV2(GenesisAccounts)]

BlockAnswer(h) ==
  [id |-> Identifier(h),
   parent |-> Identifier(IF h = 0 THEN 0 ELSE h - 1),
   txs |-> IF h = 0 THEN << GenesisAnswer >>
           ELSE IF Parsed(h)
           THEN [i \in DOMAIN chain[h + 1].txs |-> AnswerTo(h, i)]
           ELSE <<>>]

NoAnswer == [id |-> None, parent |-> None, txs |-> <<>>]

Free == [status |-> "free", want |-> None, answer |-> NoAnswer, error |-> None]

Init ==
  /\ mode \in {"ONLINE", "OFFLINE"}
  /\ chain = << Genesis >>
  /\ call = [r \in Requests |-> Free]

Grow ==
  /\ \E body \in Bodies : chain' = Append(chain, body)
  /\ UNCHANGED <<mode, call>>

Decide(r, status, answer, error) ==
  /\ call' = [call EXCEPT ![r] = [status |-> status, want |-> @.want,
                                  answer |-> answer, error |-> error]]
  /\ UNCHANGED <<mode, chain>>

Submit(r) ==
  /\ call[r].status = "free"
  /\ mode = "ONLINE"
  /\ \E want \in CallSet : call' = [call EXCEPT ![r] = [Free EXCEPT
       !.status = "pending", !.want = want]]
  /\ UNCHANGED <<mode, chain>>

Refuse(r) ==
  /\ call[r].status = "free"
  /\ mode = "OFFLINE"
  /\ \E want \in CallSet : call' = [call EXCEPT ![r] = [Free EXCEPT
       !.status = "failed", !.want = want, !.error = "ErrUnavailableOffline"]]
  /\ UNCHANGED <<mode, chain>>

\* Any block may answer a request for the latest one: it was the latest at
\* some time since the request was sent (AnswersOneBlock says that much).
Meets(want, h) ==
  IF want.index # None THEN h = want.index
  ELSE IF want.hash # None THEN BlockHash(h) = want.hash
  ELSE TRUE

AnswerBlock(r) ==
  /\ call[r].status = "pending"
  /\ call[r].want.endpoint = "block"
  /\ \E h \in 0..(Len(chain) - 1) :
       /\ Meets(call[r].want, h)
       /\ chain[h + 1].version \in SupportedVersions
       /\ Parsed(h) => \A i \in DOMAIN chain[h + 1].txs : Fits(h, i)
       /\ Decide(r, "answered", BlockAnswer(h), None)

AnswerTransaction(r) ==
  LET want == call[r].want
      h == want.hash.block
      i == want.hash.position
  IN /\ call[r].status = "pending"
     /\ want.endpoint = "transaction"
     /\ h < Len(chain)
     /\ i \in DOMAIN chain[h + 1].txs
     /\ chain[h + 1].txs[i].wellFormed
     /\ Fits(h, i)
     /\ Decide(r, "answered", [NoAnswer EXCEPT !.txs = << AnswerTo(h, i) >>], None)

Fail(r) ==
  /\ call[r].status = "pending"
  /\ Decide(r, "failed", NoAnswer, "ErrWrongBlockHash")

\* The connection closes without an answer only over something broken in what
\* was asked for.
Abort(r) ==
  LET want == call[r].want
      h == want.hash.block
      i == want.hash.position
  IN /\ call[r].status = "pending"
     /\ \/ /\ want.endpoint = "block"
           /\ \E b \in 1..(Len(chain) - 1) :
                /\ Meets(want, b)
                /\ Parsed(b)
                /\ \E j \in DOMAIN chain[b + 1].txs : ~Fits(b, j)
        \/ /\ want.endpoint = "transaction"
           /\ h < Len(chain)
           /\ i \in DOMAIN chain[h + 1].txs
           /\ chain[h + 1].txs[i].wellFormed => ~Fits(h, i)
     /\ Decide(r, "aborted", NoAnswer, None)

Return(r) ==
  /\ call[r].status \in {"answered", "failed", "aborted"}
  /\ call' = [call EXCEPT ![r] = Free]
  /\ UNCHANGED <<mode, chain>>

Next ==
  \/ Grow
  \/ \E r \in Requests :
       \/ Submit(r) \/ Refuse(r) \/ AnswerBlock(r) \/ AnswerTransaction(r)
       \/ Fail(r) \/ Abort(r) \/ Return(r)

Spec == Init /\ [][Next]_vars
===============================================================================
