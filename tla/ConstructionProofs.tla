---------------------------- MODULE ConstructionProofs ----------------------------
(***************************************************************************)
(* Proofs about Construction, for any wallets, intents and transactions of *)
(* other tools, and that the endpoints implement ConstructionFlow.         *)
(*                                                                         *)
(* The invariant follows an artifact from the intent it was made of        *)
(* (Built) over the signature (SignaturesOK, SignedOK) to the node         *)
(* (NetworkOK), and says of each handler which part of that way it is on.  *)
(***************************************************************************)
EXTENDS ConstructionRefinement, TLAPS

\* The transaction that payloads makes of an intent, but for its step limit.
Built(tx, intent, now) ==
  /\ tx \in Transaction /\ tx.signature = None
  /\ intent \in Intents /\ PayloadsError(intent) = None
  /\ tx.from = First(Rewritten(intent), TRUE).account
  /\ tx.to = First(Rewritten(intent), FALSE).account
  /\ tx.value = IF IsZero(intent) THEN 0 ELSE First(Rewritten(intent), FALSE).amount.abs
  /\ tx.dataType = intent.dataType /\ tx.data = intent.data
  /\ tx.timestamp \in 0..now

PayloadOK(p, now) ==
  /\ Built(p.tx, p.intent, now)
  /\ p.tx.stepLimit \in Estimates
  /\ CanHash(p.tx)
  /\ p.bytes = CalcHash(p.tx)
  /\ p.account = p.tx.from

PreparedOK == prepared \subseteq Payload /\ \A p \in prepared : PayloadOK(p, clock)

\* Whatever was signed is an order that somebody placed.
SignaturesOK == signatures \subseteq Signature /\ \A s \in signatures : s.hash \in Orders

SignedOK ==
  /\ signed \subseteq Transaction
  /\ \A tx \in signed :
       /\ CanHash(tx)
       /\ tx.signature \in signatures
       /\ tx.signature.hash = CalcHash(tx)
       /\ AddressOf[tx.signature.key] = tx.from
       /\ [tx EXCEPT !.signature = None] \in Unsigned

\* The transactions that the wallets hold.
Held == Unsigned \cup signed

NetworkOK == onWire \subseteq Held /\ taken \subseteq signed

\* How payloads refuses an intent.
RefusedAs(l) ==
  \/ l.pc = "aborted" /\ PayloadsError(l.input) = Panic
  \/ l.pc = "failed" /\ l.error = PayloadsError(l.input)

HandlerOK(l, held, sent, now) ==
  /\ l \in Handler
  /\ l.pc = "idle" => l.endpoint = None
  /\ l.pc = "estimate" => l.endpoint = "payloads" /\ Built(l.tx, l.input, now)
  /\ l.pc = "send" => l.endpoint = "submit" /\ l.tx \in held
  /\ l.endpoint = "payloads" /\ l.tx = None => l.input \in Intents /\ RefusedAs(l)
  /\ l.pc = "answered" =>
       /\ l.endpoint = "parse" =>
            l.tx \in Transaction /\ l.answer \in {Parsed(l.tx, b) : b \in BOOLEAN}
       /\ l.endpoint = "hash" => l.tx \in Transaction /\ l.answer = TxHash(l.tx)
       /\ l.endpoint = "submit" => l.tx \in sent /\ l.answer = TxHash(l.tx)

HandlersOK ==
  /\ req = [r \in Requests |-> req[r]]
  /\ \A r \in Requests : HandlerOK(req[r], Held, taken, clock)

IInv ==
  /\ clock \in Nat
  /\ PreparedOK
  /\ SignaturesOK
  /\ SignedOK
  /\ NetworkOK
  /\ HandlersOK

-------------------------------------------------------------------------------
(* Transactions and their hashes. *)

\* What is sent is the transaction, and the node hashes what CalcHash hashed.
LEMMA SentAsIs ==
  ASSUME NEW tx \in Transaction
  PROVE  /\ ToJSON(tx) = tx
         /\ NodeHash(tx) = CalcHash(tx)
         /\ Order(tx) = CalcHash(tx)
         /\ CalcHash(tx) \in Terms
PROOF
<1>1. ToJSON(tx) = tx
  BY DEF Transaction, ToJSON, SentFields, Fields
<1>2. NodeHash(tx) = CalcHash(tx) /\ Order(tx) = CalcHash(tx)
  BY DEF Transaction, NodeHash, CalcHash, Order, HashedFields, Fields
<1>3. CalcHash(tx) \in Terms
  BY DEF Transaction, CalcHash, HashedFields, Fields, Terms
<1> QED
  BY <1>1, <1>2, <1>3

\* A signature changes nothing that is hashed.
LEMMA SignatureNotHashed ==
  ASSUME NEW tx \in Transaction, NEW s
  PROVE  CalcHash([tx EXCEPT !.signature = s]) = CalcHash(tx)
PROOF
  BY DEF Transaction, CalcHash, HashedFields, Fields

\* Two signed transactions are equal if what was signed and the signatures are.
LEMMA SameOrder ==
  ASSUME NEW t1 \in Transaction, NEW t2 \in Transaction,
         CalcHash(t1) = CalcHash(t2), t1.signature = t2.signature
  PROVE  t1 = t2
PROOF
  BY DEF Transaction, CalcHash, HashedFields, Fields

LEMMA HashType ==
  ASSUME NEW tx \in Transaction
  PROVE  /\ TxHash(tx) \in Terms \cup {None}
         /\ TxHash(tx) \in Terms => CanHash(tx)
         /\ CanHash(tx) => TxHash(tx) = CalcHash(tx)
PROOF
  BY SentAsIs, ConstructionAssumption DEF TxHash

-------------------------------------------------------------------------------
(* Operations. *)

\* What matches is one debit and one credit.
LEMMA Matched ==
  ASSUME NEW ops \in Seq(Operation), MatchOperations(ops)
  PROVE  \E i, j \in {1, 2} :
           /\ i # j /\ Len(ops) = 2 /\ DOMAIN ops = {1, 2}
           /\ First(ops, TRUE) = ops[i] /\ First(ops, FALSE) = ops[j]
           /\ i \in Matching(ops, TRUE) /\ j \in Matching(ops, FALSE)
PROOF
<1>1. Len(ops) = 2 /\ DOMAIN ops = {1, 2}
  BY DEF MatchOperations
<1>2. PICK i \in {1, 2} : i \in Matching(ops, TRUE)
  BY <1>1 DEF MatchOperations, Matching
<1>3. PICK j \in {1, 2} : j \in Matching(ops, FALSE)
  BY <1>1 DEF MatchOperations, Matching
<1>4. i # j /\ i \notin Matching(ops, FALSE) /\ j \notin Matching(ops, TRUE)
  BY <1>2, <1>3 DEF Matching
<1>5. Matching(ops, TRUE) = {i} /\ Matching(ops, FALSE) = {j}
  BY <1>1, <1>2, <1>3, <1>4 DEF Matching
<1>6. First(ops, TRUE) = ops[i] /\ First(ops, FALSE) = ops[j]
  BY <1>5 DEF First
<1> QED
  BY <1>1, <1>2, <1>3, <1>4, <1>6

\* A match is of a debit and a credit with accounts and amounts.
LEMMA MatchedFields ==
  ASSUME NEW ops \in Seq(Operation), MatchOperations(ops)
  PROVE  /\ First(ops, TRUE).account \in Accounts \cup {Malformed}
         /\ First(ops, FALSE).account \in Accounts \cup {Malformed}
         /\ First(ops, FALSE).amount.abs \in Nat
PROOF
<1>1. PICK i, j \in {1, 2} :
         /\ Len(ops) = 2
         /\ First(ops, TRUE) = ops[i] /\ First(ops, FALSE) = ops[j]
         /\ i \in Matching(ops, TRUE) /\ j \in Matching(ops, FALSE)
  BY Matched
<1>2. ops[i] \in Operation /\ ops[j] \in Operation
  <2>1. i \in 1..Len(ops) /\ j \in 1..Len(ops)
    BY <1>1
  <2> QED
    BY <2>1
<1> QED
  BY <1>1, <1>2 DEF Matching, Operation, Number

\* A contract call with nothing is rewritten to operations that may match.
LEMMA RewrittenShape ==
  ASSUME NEW intent \in Intents
  PROVE  /\ intent.operations \in Seq(Operation) /\ intent.operations # << >>
         /\ intent.dataType \in DataTypes \cup {Malformed} /\ intent.data \in Datas
         /\ ~IsZero(intent) => Rewritten(intent) = intent.operations
         /\ IsZero(intent) /\ Len(intent.operations) >= 2 =>
              /\ Rewritten(intent) \in Seq(Operation)
              /\ Len(Rewritten(intent)) = Len(intent.operations)
              /\ Rewritten(intent)[1] = [intent.operations[1] EXCEPT !.amount = MinusOne]
              /\ Rewritten(intent)[2] = [intent.operations[2] EXCEPT !.amount = PlusOne]
PROOF
<1> DEFINE ops == intent.operations
<1>1. /\ ops \in Seq(Operation) /\ ops # << >>
      /\ intent.dataType \in DataTypes \cup {Malformed} /\ intent.data \in Datas
  BY ConstructionAssumption DEF Intent
<1>2. ~IsZero(intent) => Rewritten(intent) = ops
  BY DEF Rewritten
<1>3. ASSUME IsZero(intent), Len(ops) >= 2
      PROVE  /\ Rewritten(intent) \in Seq(Operation)
             /\ Len(Rewritten(intent)) = Len(ops)
             /\ Rewritten(intent)[1] = [ops[1] EXCEPT !.amount = MinusOne]
             /\ Rewritten(intent)[2] = [ops[2] EXCEPT !.amount = PlusOne]
  <2>1. Rewritten(intent) = [ops EXCEPT ![1].amount = MinusOne, ![2].amount = PlusOne]
    BY <1>3 DEF Rewritten
  <2>2. /\ ops[1] \in Operation /\ ops[2] \in Operation
        /\ 1 \in DOMAIN ops /\ 2 \in DOMAIN ops /\ Len(ops) \in Nat
    BY <1>1, <1>3
  <2>3. /\ [ops[1] EXCEPT !.amount = MinusOne] \in Operation
        /\ [ops[2] EXCEPT !.amount = PlusOne] \in Operation
    BY <2>2 DEF Operation, Number, MinusOne, PlusOne
  <2> DEFINE a == [ops[1] EXCEPT !.amount = MinusOne]
             b == [ops[2] EXCEPT !.amount = PlusOne]
  <2>4. Rewritten(intent) = [[ops EXCEPT ![1] = a] EXCEPT ![2] = b]
    BY <2>1
  <2> HIDE DEF a, b
  <2>5. /\ [ops EXCEPT ![1] = a] \in Seq(Operation)
        /\ Len([ops EXCEPT ![1] = a]) = Len(ops)
        /\ [ops EXCEPT ![1] = a][1] = a
    BY <1>1, <2>2, <2>3 DEF a
  <2>6. /\ [[ops EXCEPT ![1] = a] EXCEPT ![2] = b] \in Seq(Operation)
        /\ Len([[ops EXCEPT ![1] = a] EXCEPT ![2] = b]) = Len(ops)
        /\ [[ops EXCEPT ![1] = a] EXCEPT ![2] = b][1] = a
        /\ [[ops EXCEPT ![1] = a] EXCEPT ![2] = b][2] = b
    BY <1>1, <2>2, <2>3, <2>5 DEF b
  <2> QED
    BY <2>4, <2>6 DEF a, b
<1> QED
  BY <1>1, <1>2, <1>3

\* What payloads accepts is a match of two addresses.
LEMMA Accepted ==
  ASSUME NEW intent \in Intents, PayloadsError(intent) = None
  PROVE  /\ intent.dataType \in DataTypes /\ intent.dataType # Malformed
         /\ intent.operations[1].amount # None
         /\ Rewritten(intent) \in Seq(Operation) /\ MatchOperations(Rewritten(intent))
         /\ IsZero(intent) => Len(intent.operations) = 2 /\ intent.operations[2].amount # None
         /\ First(Rewritten(intent), TRUE).account \in Accounts
         /\ First(Rewritten(intent), FALSE).account \in Accounts
         /\ First(Rewritten(intent), FALSE).amount.abs \in Nat
PROOF
<1> DEFINE ops == intent.operations
<1>1. None \notin ErrorNames \cup {Panic}
  BY ConstructionAssumption
<1>2. /\ intent.dataType # Malformed /\ ops[1].amount # None
      /\ IsZero(intent) => Len(ops) >= 2 /\ ops[2].amount # None
      /\ MatchOperations(Rewritten(intent))
      /\ Malformed \notin {First(Rewritten(intent), neg).account : neg \in BOOLEAN}
  <2>1. ops[1].amount # None
    BY <1>1 DEF PayloadsError
  <2>2. intent.dataType # Malformed
    BY <1>1, <2>1 DEF PayloadsError, ErrorNames
  <2>3. ~(IsZero(intent) /\ (Len(ops) < 2 \/ ops[2].amount = None))
    BY <1>1, <2>1, <2>2 DEF PayloadsError
  <2>4. MatchOperations(Rewritten(intent))
    BY <1>1, <2>1, <2>2, <2>3 DEF PayloadsError, ErrorNames
  <2>5. Malformed \notin {First(Rewritten(intent), neg).account : neg \in BOOLEAN}
    BY <1>1, <2>1, <2>2, <2>3, <2>4 DEF PayloadsError
  <2>6. Len(ops) \in Nat
    BY RewrittenShape
  <2> QED
    BY <2>1, <2>2, <2>3, <2>4, <2>5, <2>6
<1>3. Rewritten(intent) \in Seq(Operation)
  BY <1>2, RewrittenShape
<1>4. IsZero(intent) => Len(ops) = 2
  BY <1>2, RewrittenShape DEF MatchOperations
<1>5. /\ First(Rewritten(intent), TRUE).account # Malformed
      /\ First(Rewritten(intent), FALSE).account # Malformed
  BY <1>2
<1>6. /\ First(Rewritten(intent), TRUE).account \in Accounts
      /\ First(Rewritten(intent), FALSE).account \in Accounts
      /\ First(Rewritten(intent), FALSE).amount.abs \in Nat
  BY <1>2, <1>3, <1>5, MatchedFields
<1>7. intent.dataType \in DataTypes
  BY <1>2, RewrittenShape
<1> QED
  BY <1>2, <1>3, <1>4, <1>6, <1>7

LEMMA NewTransactionBuilt ==
  ASSUME NEW intent \in Intents, PayloadsError(intent) = None, clock \in Nat
  PROVE  Built(NewTransaction(intent), intent, clock)
PROOF
<1> DEFINE tx == NewTransaction(intent)
           value == IF IsZero(intent) THEN 0 ELSE First(Rewritten(intent), FALSE).amount.abs
<1>1. tx = [version |-> 3, from |-> First(Rewritten(intent), TRUE).account,
            to |-> First(Rewritten(intent), FALSE).account, value |-> value,
            stepLimit |-> TransferStepCost, timestamp |-> clock, nid |-> Nid, nonce |-> 1,
            dataType |-> intent.dataType, data |-> intent.data, signature |-> None]
  BY DEF NewTransaction, Transfer
<1>2. value \in Nat /\ TransferStepCost \in Nat /\ intent.data \in Datas
  <2>1. First(Rewritten(intent), FALSE).amount.abs \in Nat
    BY Accepted
  <2>2. TransferStepCost \in Nat
    BY DEF TransferStepCost
  <2>3. intent.data \in Datas
    BY RewrittenShape
  <2> QED
    BY <2>1, <2>2, <2>3
<1> HIDE DEF tx, value
<1>3. tx \in Transaction
  BY <1>1, <1>2, Accepted DEF Transaction
<1>4. /\ tx.signature = None /\ tx.from = First(Rewritten(intent), TRUE).account
      /\ tx.to = First(Rewritten(intent), FALSE).account /\ tx.value = value
      /\ tx.dataType = intent.dataType /\ tx.data = intent.data /\ tx.timestamp = clock
  BY <1>1
<1>5. clock \in 0..clock
  OBVIOUS
<1> QED
  BY <1>3, <1>4, <1>5 DEF Built, value, tx

\* Operations that payloads refuses as unclear, or panics at, preprocess refuses.
LEMMA RefusedByBoth ==
  ASSUME NEW intent \in Intents, PayloadsError(intent) \in {"ErrUnclearIntent", Panic}
  PROVE  PreprocessError(intent) # None
PROOF
<1> DEFINE ops == intent.operations
<1> SUFFICES ASSUME PreprocessError(intent) = None
             PROVE  FALSE
  OBVIOUS
<1>1. None \notin ErrorNames \cup {Panic} /\ Malformed \notin Accounts
  BY ConstructionAssumption
<1>2. /\ MatchOperations(ops)
      /\ First(ops, TRUE).account \in Accounts /\ First(ops, FALSE).account \in Accounts
  <2>1. MatchOperations(ops)
    BY <1>1 DEF PreprocessError, ErrorNames
  <2> QED
    BY <1>1, <2>1 DEF PreprocessError, ErrorNames, CheckAddress
<1>3. ops \in Seq(Operation)
  BY RewrittenShape
<1> HIDE DEF ops
<1>4. PICK i, j \in {1, 2} :
        i # j /\ i \in Matching(ops, TRUE) /\ j \in Matching(ops, FALSE)
  BY <1>2, <1>3, Matched
<1>5. ops[1].amount # None /\ ops[1].amount # Zero
  BY <1>4 DEF Matching, Zero
<1>6. ~IsZero(intent) /\ Rewritten(intent) = ops
  BY <1>5, RewrittenShape DEF IsZero, ops
<1>7. PayloadsError(intent) \in {None, "ErrUnableToParseIntermediateResult"}
  <2>1. Malformed \notin {First(ops, neg).account : neg \in BOOLEAN}
    BY <1>1, <1>2
  <2> QED
    BY <1>2, <1>5, <1>6, <2>1 DEF PayloadsError, ops
<1> QED
  BY <1>1, <1>7 DEF Panic, ErrorNames

\* What payloads accepts preprocess accepts, but for a contract call with nothing.
LEMMA AcceptedByBoth ==
  ASSUME NEW intent \in Intents, PayloadsError(intent) = None, ~IsZero(intent)
  PROVE  PreprocessError(intent) = None
PROOF
<1>1. Rewritten(intent) = intent.operations
  BY RewrittenShape
<1> QED
  BY <1>1, Accepted DEF PreprocessError, CheckAddress

-------------------------------------------------------------------------------
(* Handlers. *)

Inputs == Intents \cup Transaction \cup Keys \cup Accounts \cup {Malformed, None}

LEMMA ArrivedShape ==
  ASSUME NEW endpoint \in Endpoints, NEW mode \in Modes, NEW input \in Inputs
  PROVE  LET l == Arrived(endpoint, mode, input)
         IN /\ l \in Handler /\ l.pc = "idle" /\ l.endpoint = endpoint /\ l.mode = mode
            /\ l.input = input /\ l.tx = None /\ l.answer = None /\ l.error = None
PROOF
  BY DEF Arrived, Idle, Handler, Inputs

LEMMA AnsweredShape ==
  ASSUME NEW l \in Handler, NEW answer \in Answer \cup {None}
  PROVE  LET k == Answered(l, answer)
         IN /\ k \in Handler /\ k.pc = "answered" /\ k.answer = answer
            /\ k.endpoint = l.endpoint /\ k.input = l.input /\ k.tx = l.tx
PROOF
  BY DEF Answered, Handler

LEMMA RefusedShape ==
  ASSUME NEW l \in Handler, NEW error \in ErrorNames \cup {Panic}
  PROVE  LET k == Refused(l, error)
         IN /\ k \in Handler /\ k.pc \in {"failed", "aborted"}
            /\ error = Panic => k.pc = "aborted"
            /\ error # Panic => k.pc = "failed" /\ k.error = error
            /\ k.endpoint = l.endpoint /\ k.input = l.input /\ k.tx = l.tx
PROOF
  BY DEF Refused, Handler, Panic, ErrorNames

\* A handler stays right when more is held, more is taken and time passes.
LEMMA HandlerStays ==
  ASSUME NEW l, NEW held, NEW sent, NEW now \in Nat, HandlerOK(l, held, sent, now),
         NEW held2, NEW sent2, NEW now2 \in Nat,
         held \subseteq held2, sent \subseteq sent2, now <= now2
  PROVE  HandlerOK(l, held2, sent2, now2)
PROOF
<1>1. Built(l.tx, l.input, now) => Built(l.tx, l.input, now2)
  <2>1. l.tx.timestamp \in 0..now => l.tx.timestamp \in 0..now2
    OBVIOUS
  <2> QED
    BY <2>1 DEF Built
<1> QED
  BY <1>1 DEF HandlerOK

LEMMA HandlersStay ==
  ASSUME IInv, NEW r \in Requests, NEW l, Become(r, l), HandlerOK(l, Held', taken', clock'),
         Held \subseteq Held', taken \subseteq taken', clock' \in Nat, clock <= clock'
  PROVE  HandlersOK'
PROOF
<1>1. /\ req' = [req EXCEPT ![r] = l]
      /\ req = [s \in Requests |-> req[s]]
  BY DEF Become, IInv, HandlersOK
<1>2. /\ req'[r] = l
      /\ \A s \in Requests : s # r => req'[s] = req[s]
      /\ req' = [s \in Requests |-> req'[s]]
  BY <1>1
<1>3. ASSUME NEW s \in Requests
      PROVE  HandlerOK(req[s], Held', taken', clock')
  <2>1. HandlerOK(req[s], Held, taken, clock) /\ clock \in Nat
    BY DEF IInv, HandlersOK
  <2> HIDE DEF Held
  <2> QED
    BY <2>1, HandlerStays
<1> QED
  BY <1>2, <1>3 DEF HandlersOK

\* A step of one handler that nobody else sees.
LEMMA HandlerStep ==
  ASSUME IInv, NEW r \in Requests, NEW l, Become(r, l),
         HandlerOK(l, Held, taken, clock),
         UNCHANGED <<clock, prepared, signatures, signed, onWire, taken>>
  PROVE  IInv'
PROOF
<1>1. Unsigned' = Unsigned /\ Held' = Held /\ Orders' = Orders
  BY DEF Unsigned, Held, Orders
<1>2. HandlersOK'
  BY <1>1, HandlersStay DEF IInv
<1> QED
  BY <1>1, <1>2 DEF IInv, PreparedOK, SignaturesOK, SignedOK, NetworkOK

LEMMA IdleOK ==
  ASSUME NEW held, NEW sent, NEW now
  PROVE  HandlerOK(Idle, held, sent, now)
PROOF
<1>1. Idle \in Handler
  BY DEF Idle, Handler
<1>2. Idle.pc = "idle" /\ Idle.endpoint = None
  BY DEF Idle
<1>3. None \notin Endpoints
  BY ConstructionAssumption
<1> QED
  BY <1>1, <1>2, <1>3 DEF HandlerOK, Endpoints

\* A handler that ends at once, other than that of payloads, is right.
LEMMA RefusedOK ==
  ASSUME NEW l \in Handler, NEW error \in ErrorNames \cup {Panic},
         l.endpoint # "payloads" \/ l.tx # None,
         NEW held, NEW sent, NEW now
  PROVE  HandlerOK(Refused(l, error), held, sent, now)
PROOF
<1> DEFINE k == Refused(l, error)
<1>1. /\ k \in Handler /\ k.pc \in {"failed", "aborted"}
      /\ k.endpoint = l.endpoint /\ k.tx = l.tx
  BY RefusedShape
<1> HIDE DEF k
<1>2. HandlerOK(k, held, sent, now)
  BY <1>1 DEF HandlerOK
<1> QED
  BY <1>2 DEF k

LEMMA AnsweredOK ==
  ASSUME NEW l \in Handler, NEW answer \in Answer \cup {None},
         l.endpoint # "payloads" \/ l.tx # None,
         NEW held, NEW sent, NEW now,
         l.endpoint = "parse" =>
           l.tx \in Transaction /\ answer \in {Parsed(l.tx, b) : b \in BOOLEAN},
         l.endpoint = "hash" => l.tx \in Transaction /\ answer = TxHash(l.tx),
         l.endpoint = "submit" => l.tx \in sent /\ answer = TxHash(l.tx)
  PROVE  HandlerOK(Answered(l, answer), held, sent, now)
PROOF
<1> DEFINE k == Answered(l, answer)
<1>1. /\ k \in Handler /\ k.pc = "answered" /\ k.answer = answer
      /\ k.endpoint = l.endpoint /\ k.tx = l.tx
  BY AnsweredShape
<1> HIDE DEF k
<1>2. HandlerOK(k, held, sent, now)
  BY <1>1 DEF HandlerOK
<1> QED
  BY <1>2 DEF k

\* What the wallets hold are transactions, and None and Malformed are none.
LEMMA HeldTypes ==
  ASSUME IInv
  PROVE  /\ Unsigned \subseteq {tx \in Transaction : tx.signature = None}
         /\ Held \subseteq Transaction
         /\ taken \subseteq Transaction /\ onWire \subseteq Transaction
PROOF
<1>1. Unsigned \subseteq {tx \in Transaction : tx.signature = None}
  <2>1. \A p \in prepared : p.tx \in Transaction /\ p.tx.signature = None
    BY DEF IInv, PreparedOK, PayloadOK, Built
  <2>2. \A tx \in Foreign : tx \in Transaction /\ tx.signature = None
    BY ConstructionAssumption
  <2> QED
    BY <2>1, <2>2 DEF Unsigned
<1> QED
  BY <1>1 DEF IInv, SignedOK, NetworkOK, Held

-------------------------------------------------------------------------------
(* The endpoints that answer at once. *)

LEMMA DeriveKeeps ==
  ASSUME IInv, NEW r \in Requests, ConstructionDerive(r)
  PROVE  IInv'
PROOF
<1>1. PICK mode \in Modes, key \in Keys \cup {Malformed} :
        Become(r, IF key = Malformed
                  THEN Refused(Arrived("derive", mode, key), "ErrUnableToDecompressPubkey")
                  ELSE Answered(Arrived("derive", mode, key), AddressOf[key]))
  BY DEF ConstructionDerive
<1> DEFINE l == Arrived("derive", mode, key)
<1>2. l \in Handler /\ l.endpoint = "derive"
  BY ArrivedShape DEF Endpoints, Inputs
<1> HIDE DEF l
<1>3. HandlerOK(Refused(l, "ErrUnableToDecompressPubkey"), Held, taken, clock)
  BY <1>2, RefusedOK DEF ErrorNames
<1>4. key # Malformed => HandlerOK(Answered(l, AddressOf[key]), Held, taken, clock)
  <2>1. key # Malformed => AddressOf[key] \in Answer
    BY ConstructionAssumption DEF Answer
  <2> QED
    BY <1>2, <2>1, AnsweredOK
<1> QED
  BY <1>1, <1>3, <1>4, HandlerStep DEF l, ConstructionDerive

LEMMA PreprocessKeeps ==
  ASSUME IInv, NEW r \in Requests, ConstructionPreprocess(r)
  PROVE  IInv'
PROOF
<1>1. PICK mode \in Modes, intent \in Intents :
        Become(r, IF PreprocessError(intent) # None
                  THEN Refused(Arrived("preprocess", mode, intent), PreprocessError(intent))
                  ELSE Answered(Arrived("preprocess", mode, intent),
                                First(intent.operations, TRUE).account))
  BY DEF ConstructionPreprocess
<1> DEFINE l == Arrived("preprocess", mode, intent)
<1>2. l \in Handler /\ l.endpoint = "preprocess"
  BY ArrivedShape DEF Endpoints, Inputs
<1> HIDE DEF l
<1>3. PreprocessError(intent) # None =>
        HandlerOK(Refused(l, PreprocessError(intent)), Held, taken, clock)
  <2>1. PreprocessError(intent) # None => PreprocessError(intent) \in ErrorNames
    BY DEF PreprocessError, ErrorNames
  <2> QED
    BY <1>2, <2>1, RefusedOK
<1>4. PreprocessError(intent) = None =>
        HandlerOK(Answered(l, First(intent.operations, TRUE).account), Held, taken, clock)
  <2>1. PreprocessError(intent) = None => First(intent.operations, TRUE).account \in Answer
    BY ConstructionAssumption DEF PreprocessError, ErrorNames, CheckAddress, Answer
  <2> QED
    BY <1>2, <2>1, AnsweredOK
<1> QED
  BY <1>1, <1>3, <1>4, HandlerStep DEF l, ConstructionPreprocess

LEMMA MetadataKeeps ==
  ASSUME IInv, NEW r \in Requests, ConstructionMetadata(r)
  PROVE  IInv'
PROOF
<1>1. PICK mode \in Modes, options \in Accounts \cup {Malformed} :
        LET arrived == Arrived("metadata", mode, options)
        IN  Become(r, IF mode # "ONLINE" THEN Refused(arrived, "ErrUnavailableOffline")
                      ELSE IF options = Malformed
                        THEN Refused(arrived, "ErrUnableToParseIntermediateResult")
                      ELSE Answered(arrived, None))
  BY DEF ConstructionMetadata
<1> DEFINE l == Arrived("metadata", mode, options)
<1>2. l \in Handler /\ l.endpoint = "metadata"
  BY ArrivedShape DEF Endpoints, Inputs
<1> HIDE DEF l
<1>3. /\ HandlerOK(Refused(l, "ErrUnavailableOffline"), Held, taken, clock)
      /\ HandlerOK(Refused(l, "ErrUnableToParseIntermediateResult"), Held, taken, clock)
  BY <1>2, RefusedOK DEF ErrorNames
<1>4. HandlerOK(Answered(l, None), Held, taken, clock)
  BY <1>2, AnsweredOK
<1> QED
  BY <1>1, <1>3, <1>4, HandlerStep DEF l, ConstructionMetadata

LEMMA HashKeeps ==
  ASSUME IInv, NEW r \in Requests, ConstructionHash(r)
  PROVE  IInv'
PROOF
<1>1. PICK mode \in Modes, tx \in Unsigned \cup signed \cup {Malformed} :
        LET arrived == Arrived("hash", mode, tx)
        IN  Become(r, IF tx = Malformed
                      THEN Refused(arrived, "ErrUnableToParseIntermediateResult")
                      ELSE Answered([arrived EXCEPT !.tx = tx], TxHash(tx)))
  BY DEF ConstructionHash
<1> DEFINE l == Arrived("hash", mode, tx)
           k == [l EXCEPT !.tx = tx]
<1>2. tx # Malformed => tx \in Transaction
  BY HeldTypes DEF Held
<1>3. l \in Handler /\ l.endpoint = "hash"
  BY <1>2, ArrivedShape DEF Endpoints, Inputs
<1>4. tx # Malformed => k \in Handler /\ k.endpoint = "hash" /\ k.tx = tx
  BY <1>2, <1>3 DEF Handler
<1> HIDE DEF l, k
<1>5. HandlerOK(Refused(l, "ErrUnableToParseIntermediateResult"), Held, taken, clock)
  BY <1>3, RefusedOK DEF ErrorNames
<1>6. tx # Malformed => HandlerOK(Answered(k, TxHash(tx)), Held, taken, clock)
  <2>1. tx # Malformed => TxHash(tx) \in Answer \cup {None}
    BY <1>2, HashType DEF Answer
  <2> QED
    BY <1>2, <1>4, <2>1, AnsweredOK
<1> QED
  BY <1>1, <1>5, <1>6, HandlerStep DEF l, k, ConstructionHash

LEMMA ParsedType ==
  ASSUME NEW tx \in Transaction, NEW isSigned \in BOOLEAN
  PROVE  Parsed(tx, isSigned) \in Answer
PROOF
<1>1. Values(tx) \in Nat /\ tx.from \in Accounts /\ tx.to \in Accounts
  BY DEF Values, Transaction
<1>2. ParsedOperations(tx) \in Seq(Operation)
  BY <1>1 DEF ParsedOperations, Operation, Number
<1> QED
  BY <1>1, <1>2 DEF Parsed, Answer

LEMMA ParseKeeps ==
  ASSUME IInv, NEW r \in Requests, ConstructionParse(r)
  PROVE  IInv'
PROOF
<1>1. PICK mode \in Modes, tx \in Unsigned \cup signed \cup {Malformed},
           isSigned \in BOOLEAN :
        LET arrived == Arrived("parse", mode, tx)
        IN  Become(r, IF tx = Malformed
                      THEN Refused(arrived, "ErrUnableToParseIntermediateResult")
                      ELSE Answered([arrived EXCEPT !.tx = tx], Parsed(tx, isSigned)))
  BY DEF ConstructionParse
<1> DEFINE l == Arrived("parse", mode, tx)
           k == [l EXCEPT !.tx = tx]
<1>2. tx # Malformed => tx \in Transaction
  BY HeldTypes DEF Held
<1>3. l \in Handler /\ l.endpoint = "parse"
  BY <1>2, ArrivedShape DEF Endpoints, Inputs
<1>4. tx # Malformed => k \in Handler /\ k.endpoint = "parse" /\ k.tx = tx
  BY <1>2, <1>3 DEF Handler
<1> HIDE DEF l, k
<1>5. HandlerOK(Refused(l, "ErrUnableToParseIntermediateResult"), Held, taken, clock)
  BY <1>3, RefusedOK DEF ErrorNames
<1>6. tx # Malformed => HandlerOK(Answered(k, Parsed(tx, isSigned)), Held, taken, clock)
  BY <1>2, <1>4, ParsedType, AnsweredOK
<1> QED
  BY <1>1, <1>5, <1>6, HandlerStep DEF l, k, ConstructionParse

\* What combine answers was signed by its payer, as it is.
LEMMA CombineKeeps ==
  ASSUME IInv, NEW r \in Requests, ConstructionCombine(r)
  PROVE  IInv'
PROOF
<1>1. PICK mode \in Modes, tx \in Unsigned \cup {Malformed},
           signature \in signatures \cup {Malformed} :
        LET arrived == Arrived("combine", mode, tx)
            signedTx == [tx EXCEPT !.signature = signature]
        IN  \/ /\ \E error \in ErrorNames : Become(r, Refused(arrived, error))
               /\ UNCHANGED signed
            \/ /\ tx # Malformed /\ signature # Malformed
               /\ VerifySignature(signedTx)
               /\ Become(r, Answered([arrived EXCEPT !.tx = signedTx], None))
               /\ signed' = signed \cup {signedTx}
  BY DEF ConstructionCombine, ErrorNames
<1> DEFINE l == Arrived("combine", mode, tx)
           signedTx == [tx EXCEPT !.signature = signature]
           k == [l EXCEPT !.tx = signedTx]
<1>2. tx # Malformed => tx \in Transaction /\ tx.signature = None
  BY HeldTypes
<1>3. l \in Handler /\ l.endpoint = "combine"
  BY <1>2, ArrivedShape DEF Endpoints, Inputs
<1>4. UNCHANGED <<clock, prepared, signatures, onWire, taken>>
  BY DEF ConstructionCombine
<1>5. CASE (\E error \in ErrorNames : Become(r, Refused(l, error))) /\ UNCHANGED signed
  <2> HIDE DEF l
  <2> QED
    BY <1>3, <1>4, <1>5, RefusedOK, HandlerStep
<1>6. CASE /\ tx # Malformed /\ signature # Malformed
           /\ VerifySignature(signedTx)
           /\ Become(r, Answered(k, None))
           /\ signed' = signed \cup {signedTx}
  <2>1. signature \in Signature /\ signature.hash \in Terms /\ signature \in signatures
    BY <1>6 DEF IInv, SignaturesOK, Signature
  <2>2. /\ signedTx \in Transaction /\ signedTx.signature = signature
        /\ [signedTx EXCEPT !.signature = None] = tx
    BY <1>2, <1>6, <2>1 DEF Transaction
  <2>3. k \in Handler /\ k.endpoint = "combine" /\ k.tx = signedTx
    BY <1>3, <2>2 DEF Handler
  <2> HIDE DEF k, l, signedTx
  <2>4. /\ CanHash(signedTx) /\ signedTx.signature.hash = CalcHash(signedTx)
        /\ AddressOf[signedTx.signature.key] = signedTx.from
    BY <1>6, <2>1, <2>2, HashType DEF VerifySignature
  <2>5. /\ Unsigned' = Unsigned /\ Orders' = Orders
        /\ Held \subseteq Held' /\ tx \in Unsigned
    BY <1>4, <1>6 DEF Unsigned, Orders, Held
  <2>6. SignedOK'
    BY <1>4, <1>6, <2>1, <2>2, <2>4, <2>5 DEF IInv, SignedOK
  <2>7. HandlerOK(Answered(k, None), Held', taken', clock')
    BY <2>3, AnsweredOK
  <2>8. HandlersOK'
    BY <1>4, <1>6, <2>5, <2>7, HandlersStay DEF IInv
  <2> QED
    BY <1>4, <1>6, <2>5, <2>6, <2>8 DEF IInv, PreparedOK, SignaturesOK, NetworkOK
<1> QED
  BY <1>1, <1>5, <1>6

-------------------------------------------------------------------------------
(* Payloads and submit. *)

LEMMA PayloadsKeeps ==
  ASSUME IInv, NEW r \in Requests, ConstructionPayloads(r)
  PROVE  IInv'
PROOF
<1>1. PICK mode \in Modes, intent \in Intents :
        LET arrived == Arrived("payloads", mode, intent)
        IN  Become(r, IF PayloadsError(intent) # None
                      THEN Refused(arrived, PayloadsError(intent))
                      ELSE [arrived EXCEPT !.pc = "estimate", !.tx = NewTransaction(intent)])
  BY DEF ConstructionPayloads
<1> DEFINE l == Arrived("payloads", mode, intent)
           k == [l EXCEPT !.pc = "estimate", !.tx = NewTransaction(intent)]
           e == Refused(l, PayloadsError(intent))
<1>2. l \in Handler /\ l.endpoint = "payloads" /\ l.input = intent /\ l.tx = None
  BY ArrivedShape DEF Endpoints, Inputs
<1>3. CASE PayloadsError(intent) # None
  <2>1. PayloadsError(intent) \in ErrorNames \cup {Panic}
    BY <1>3 DEF PayloadsError, ErrorNames
  <2>2. /\ e \in Handler /\ e.pc \in {"failed", "aborted"} /\ e.input = intent
        /\ PayloadsError(intent) = Panic => e.pc = "aborted"
        /\ PayloadsError(intent) # Panic =>
             e.pc = "failed" /\ e.error = PayloadsError(intent)
    BY <1>2, <2>1, RefusedShape
  <2> HIDE DEF e, l
  <2>3. RefusedAs(e)
    BY <2>2 DEF RefusedAs
  <2>4. HandlerOK(e, Held, taken, clock)
    BY <2>2, <2>3 DEF HandlerOK
  <2> QED
    BY <1>1, <1>3, <2>4, HandlerStep DEF e, l, ConstructionPayloads
<1>4. CASE PayloadsError(intent) = None
  <2>1. Built(NewTransaction(intent), intent, clock)
    BY <1>4, NewTransactionBuilt DEF IInv
  <2>2. NewTransaction(intent) \in Transaction
    BY <2>1 DEF Built
  <2>3. /\ k \in Handler /\ k.pc = "estimate" /\ k.endpoint = "payloads"
        /\ k.input = intent /\ k.tx = NewTransaction(intent)
    BY <1>2, <2>2 DEF Handler
  <2> HIDE DEF k, l
  <2>4. k.tx # None
    BY <2>2, <2>3, ConstructionAssumption
  <2>5. HandlerOK(k, Held, taken, clock)
    BY <2>1, <2>3, <2>4 DEF HandlerOK
  <2> QED
    BY <1>1, <1>4, <2>5, HandlerStep DEF k, l, ConstructionPayloads
<1> QED
  BY <1>3, <1>4

\* The payload has the hash of the transaction with its final step limit.
LEMMA PayloadOfOK ==
  ASSUME NEW tx, NEW intent, NEW now \in Nat, Built(tx, intent, now), CanHash(tx),
         NEW limit \in Estimates
  PROVE  /\ PayloadOf(intent, tx, limit) \in Payload
         /\ PayloadOK(PayloadOf(intent, tx, limit), now)
PROOF
<1> DEFINE final == [tx EXCEPT !.stepLimit = limit]
           p == PayloadOf(intent, tx, limit)
<1>1. tx \in Transaction /\ limit \in Nat /\ intent \in Intents
  BY ConstructionAssumption DEF Built
<1>2. /\ final \in Transaction /\ final.stepLimit = limit
      /\ final.signature = tx.signature /\ final.from = tx.from /\ final.to = tx.to
      /\ final.value = tx.value /\ final.dataType = tx.dataType /\ final.data = tx.data
      /\ final.timestamp = tx.timestamp
  BY <1>1 DEF Transaction
<1>3. /\ p.tx = final /\ p.account = tx.from /\ p.bytes = TxHash(final)
      /\ p.intent = intent
      /\ p = [tx |-> p.tx, account |-> p.account, bytes |-> p.bytes, intent |-> p.intent]
  BY DEF PayloadOf
<1> HIDE DEF final, p
<1>4. CanHash(final) /\ TxHash(final) = CalcHash(final) /\ CalcHash(final) \in Terms
  BY <1>2, HashType, SentAsIs DEF CanHash
<1>5. p \in Payload
  <2>1. tx.from \in Accounts
    BY <1>1 DEF Transaction
  <2> QED
    BY <1>1, <1>2, <1>3, <1>4, <2>1 DEF Payload
<1>6. Built(final, intent, now)
  BY <1>2 DEF Built
<1>7. PayloadOK(p, now)
  BY <1>2, <1>3, <1>4, <1>6 DEF PayloadOK
<1> QED
  BY <1>5, <1>7 DEF p

LEMMA NodeFailsKeeps ==
  ASSUME IInv, NEW r \in Requests, NEW error \in ErrorNames, NodeFails(r, error),
         req[r].pc \in {"estimate", "send"}
  PROVE  \E l : /\ Become(r, l)
                /\ \A held, sent, now : HandlerOK(l, held, sent, now)
PROOF
<1>1. PICK e \in {error, Panic} : Become(r, Refused(req[r], e))
  BY DEF NodeFails
<1>2. HandlerOK(req[r], Held, taken, clock)
  BY DEF IInv, HandlersOK
<1>3. req[r] \in Handler /\ (req[r].endpoint # "payloads" \/ req[r].tx # None)
  BY <1>2, ConstructionAssumption DEF HandlerOK, Built
<1>4. ASSUME NEW held, NEW sent, NEW now
      PROVE  HandlerOK(Refused(req[r], e), held, sent, now)
  BY <1>3, RefusedOK
<1> QED
  BY <1>1, <1>4

LEMMA EstimateKeeps ==
  ASSUME IInv, NEW r \in Requests, EstimateStep(r)
  PROVE  IInv'
PROOF
<1> DEFINE l == req[r]
<1>1. /\ l \in Handler /\ l.endpoint = "payloads" /\ l.tx # None
      /\ Built(l.tx, l.input, clock) /\ clock \in Nat
  <2>1. HandlerOK(l, Held, taken, clock) /\ l.pc = "estimate" /\ clock \in Nat
    BY DEF EstimateStep, IInv, HandlersOK
  <2>2. l.tx \in Transaction
    BY <2>1 DEF HandlerOK, Built
  <2> QED
    BY <2>1, <2>2, ConstructionAssumption DEF HandlerOK
<1>2. UNCHANGED <<clock, signatures, signed, onWire, taken>>
  BY DEF EstimateStep
<1>3. CASE /\ CanHash(l.tx)
           /\ \E limit \in Estimates :
                /\ Become(r, Answered(l, None))
                /\ prepared' = prepared \cup {PayloadOf(l.input, l.tx, limit)}
  <2>1. PICK limit \in Estimates :
          /\ Become(r, Answered(l, None))
          /\ prepared' = prepared \cup {PayloadOf(l.input, l.tx, limit)}
    BY <1>3
  <2> DEFINE p == PayloadOf(l.input, l.tx, limit)
  <2>2. p \in Payload /\ PayloadOK(p, clock)
    BY <1>1, <1>3, PayloadOfOK
  <2> HIDE DEF p
  <2>3. prepared' = prepared \cup {p}
    BY <2>1 DEF p
  <2>4. PreparedOK'
    BY <1>2, <2>2, <2>3 DEF IInv, PreparedOK
  <2>5. Unsigned \subseteq Unsigned' /\ Orders \subseteq Orders' /\ Held \subseteq Held'
    BY <1>2, <2>3 DEF Unsigned, Orders, Held
  <2>6. HandlerOK(Answered(l, None), Held', taken', clock')
    BY <1>1, AnsweredOK
  <2>7. HandlersOK'
    BY <1>1, <1>2, <2>1, <2>5, <2>6, HandlersStay
  <2>8. SignaturesOK'
    BY <1>2, <2>5 DEF IInv, SignaturesOK
  <2>9. SignedOK' /\ NetworkOK'
    BY <1>2, <2>5 DEF IInv, SignedOK, NetworkOK
  <2> QED
    BY <1>1, <1>2, <2>4, <2>7, <2>8, <2>9 DEF IInv
<1>4. CASE /\ ~CanHash(l.tx)
           /\ Become(r, Refused(l, "ErrUnclearIntent"))
           /\ UNCHANGED prepared
  <2>1. HandlerOK(Refused(l, "ErrUnclearIntent"), Held, taken, clock)
    BY <1>1, RefusedOK DEF ErrorNames
  <2> QED
    BY <1>2, <1>4, <2>1, HandlerStep
<1>5. CASE NodeFails(r, "ErrUnableToParseIntermediateResult") /\ UNCHANGED prepared
  <2>1. l.pc \in {"estimate", "send"}
    BY DEF EstimateStep
  <2>2. PICK k : Become(r, k) /\ HandlerOK(k, Held, taken, clock)
    BY <1>5, <2>1, NodeFailsKeeps DEF ErrorNames
  <2> QED
    BY <1>2, <1>5, <2>2, HandlerStep
<1> QED
  BY <1>3, <1>4, <1>5 DEF EstimateStep

LEMMA SubmitKeeps ==
  ASSUME IInv, NEW r \in Requests, ConstructionSubmit(r)
  PROVE  IInv'
PROOF
<1>1. PICK mode \in Modes, tx \in Unsigned \cup signed \cup {Malformed} :
        LET arrived == Arrived("submit", mode, tx)
        IN  Become(r, IF mode # "ONLINE" THEN Refused(arrived, "ErrUnavailableOffline")
                      ELSE IF tx = Malformed
                        THEN Refused(arrived, "ErrUnableToParseIntermediateResult")
                      ELSE [arrived EXCEPT !.pc = "send", !.tx = tx])
  BY DEF ConstructionSubmit
<1> DEFINE l == Arrived("submit", mode, tx)
           k == [l EXCEPT !.pc = "send", !.tx = tx]
<1>2. tx # Malformed => tx \in Transaction /\ tx \in Held
  BY HeldTypes DEF Held
<1>3. l \in Handler /\ l.endpoint = "submit"
  BY <1>2, ArrivedShape DEF Endpoints, Inputs
<1>4. tx # Malformed => k \in Handler /\ k.pc = "send" /\ k.endpoint = "submit" /\ k.tx = tx
  BY <1>2, <1>3 DEF Handler
<1> HIDE DEF l, k
<1>5. /\ HandlerOK(Refused(l, "ErrUnavailableOffline"), Held, taken, clock)
      /\ HandlerOK(Refused(l, "ErrUnableToParseIntermediateResult"), Held, taken, clock)
  BY <1>3, RefusedOK DEF ErrorNames
<1>6. tx # Malformed => HandlerOK(k, Held, taken, clock)
  BY <1>2, <1>4 DEF HandlerOK
<1> QED
  BY <1>1, <1>5, <1>6, HandlerStep DEF l, k, ConstructionSubmit

\* The node takes only what combine answered.
LEMMA AuthenticSigned ==
  ASSUME IInv, NEW tx \in Held, Authentic(tx)
  PROVE  tx \in signed
PROOF
  BY HeldTypes DEF Held, Authentic

LEMMA SendKeeps ==
  ASSUME IInv, NEW r \in Requests, SendTransaction(r)
  PROVE  IInv'
PROOF
<1> DEFINE l == req[r]
<1>1. /\ l \in Handler /\ l.pc = "send" /\ l.endpoint = "submit"
      /\ l.tx \in Held /\ l.tx \in Transaction /\ clock \in Nat
  BY HeldTypes DEF SendTransaction, IInv, HandlersOK, HandlerOK
<1>2. ToJSON(l.tx) = l.tx
  BY <1>1, SentAsIs
<1>3. UNCHANGED <<clock, prepared, signatures, signed>>
  BY DEF SendTransaction
<1>4. Unsigned' = Unsigned /\ Orders' = Orders /\ Held' = Held
  BY <1>3 DEF Unsigned, Orders, Held
<1>5. PreparedOK' /\ SignaturesOK' /\ SignedOK' /\ clock' \in Nat
  BY <1>3, <1>4 DEF IInv, PreparedOK, SignaturesOK, SignedOK
<1>6. CASE /\ Takes(l.tx)
           /\ taken' = taken \cup {l.tx}
           /\ Become(r, Answered(l, TxHash(l.tx)))
           /\ UNCHANGED onWire
  <2>1. l.tx \in signed
    BY <1>1, <1>6, AuthenticSigned DEF Takes
  <2>2. NetworkOK'
    BY <1>3, <1>4, <1>6, <2>1 DEF IInv, NetworkOK
  <2>3. TxHash(l.tx) \in Answer \cup {None}
    BY <1>1, HashType DEF Answer
  <2>4. l.tx \in taken' /\ taken \subseteq taken'
    BY <1>6
  <2>5. HandlerOK(Answered(l, TxHash(l.tx)), Held', taken', clock')
    BY <1>1, <2>3, <2>4, AnsweredOK
  <2>6. HandlersOK'
    BY <1>3, <1>4, <1>5, <1>6, <2>4, <2>5, HandlersStay
  <2> QED
    BY <1>5, <2>2, <2>6 DEF IInv
<1>7. CASE /\ NodeFails(r, "ErrBroadcastFailed")
           /\ onWire' \in {onWire, onWire \cup {l.tx}}
           /\ UNCHANGED taken
  <2>1. PICK k : Become(r, k) /\ HandlerOK(k, Held, taken, clock)
    BY <1>1, <1>7, NodeFailsKeeps DEF ErrorNames
  <2>2. HandlerOK(k, Held', taken', clock')
    BY <1>3, <1>4, <1>7, <2>1
  <2>3. HandlersOK'
    BY <1>3, <1>4, <1>5, <1>7, <2>1, <2>2, HandlersStay
  <2>4. NetworkOK'
    BY <1>1, <1>3, <1>4, <1>7 DEF IInv, NetworkOK
  <2> QED
    BY <1>5, <2>3, <2>4 DEF IInv
<1> QED
  BY <1>2, <1>6, <1>7 DEF SendTransaction

-------------------------------------------------------------------------------
(* The wallets, the node and time. *)

LEMMA SignKeeps ==
  ASSUME IInv, Sign
  PROVE  IInv'
PROOF
<1>1. PICK key \in Keys, hash \in {p.bytes : p \in prepared}
                                    \cup {NodeHash(tx) : tx \in Foreign} :
        signatures' = signatures \cup {[key |-> key, hash |-> hash]}
  BY DEF Sign
<1>2. UNCHANGED <<clock, prepared, signed, onWire, taken, req>>
  BY DEF Sign
<1>3. hash \in Orders /\ hash \in Terms
  <2>1. CASE \E p \in prepared : hash = p.bytes
    <3>1. PICK p \in prepared : hash = p.bytes
      BY <2>1
    <3>2. p.tx \in Transaction /\ p.tx \in Unsigned /\ hash = CalcHash(p.tx)
      BY <3>1 DEF IInv, PreparedOK, PayloadOK, Built, Unsigned
    <3> QED
      BY <3>2, SentAsIs DEF Orders
  <2>2. CASE \E tx \in Foreign : hash = NodeHash(tx)
    <3>1. PICK tx \in Foreign : hash = NodeHash(tx)
      BY <2>2
    <3>2. tx \in Transaction /\ tx \in Unsigned
      BY ConstructionAssumption DEF Unsigned
    <3> QED
      BY <3>1, <3>2, SentAsIs DEF Orders
  <2> QED
    BY <2>1, <2>2
<1>4. [key |-> key, hash |-> hash] \in Signature
  BY <1>3 DEF Signature
<1>5. Unsigned' = Unsigned /\ Orders' = Orders /\ Held' = Held
  BY <1>2 DEF Unsigned, Orders, Held
<1>6. SignaturesOK'
  BY <1>1, <1>3, <1>4, <1>5 DEF IInv, SignaturesOK
<1>7. PreparedOK' /\ SignedOK' /\ NetworkOK' /\ HandlersOK'
  BY <1>1, <1>2, <1>5 DEF IInv, PreparedOK, SignedOK, NetworkOK, HandlersOK
<1> QED
  BY <1>2, <1>6, <1>7 DEF IInv

LEMMA WorldKeeps ==
  ASSUME IInv, LateArrival \/ Tick
  PROVE  IInv'
PROOF
<1>1. /\ UNCHANGED <<prepared, signatures, signed, req>>
      /\ clock' \in {clock, clock + 1} /\ clock \in Nat
      /\ taken \subseteq taken' /\ NetworkOK'
  <2>1. CASE Tick
    BY <2>1 DEF Tick, IInv, NetworkOK, Held, Unsigned
  <2>2. CASE LateArrival
    <3>1. PICK js \in onWire :
            /\ onWire' = onWire \ {js}
            /\ taken' = IF Takes(js) THEN taken \cup {js} ELSE taken
      BY <2>2 DEF LateArrival
    <3>2. UNCHANGED <<clock, prepared, signatures, signed, req>>
      BY <2>2 DEF LateArrival
    <3>3. Takes(js) => js \in signed
      BY AuthenticSigned DEF Takes, IInv, NetworkOK
    <3>4. Held' = Held
      BY <3>2 DEF Held, Unsigned
    <3> QED
      BY <3>1, <3>2, <3>3, <3>4 DEF IInv, NetworkOK
  <2> QED
    BY <2>1, <2>2
<1>2. clock' \in Nat /\ clock <= clock'
  BY <1>1
<1>3. Unsigned' = Unsigned /\ Orders' = Orders /\ Held' = Held
  BY <1>1 DEF Unsigned, Orders, Held
<1>4. SignaturesOK' /\ SignedOK'
  BY <1>1, <1>3 DEF IInv, SignaturesOK, SignedOK
<1>5. PreparedOK'
  <2>1. ASSUME NEW p \in prepared
        PROVE  PayloadOK(p, clock')
    <3>1. PayloadOK(p, clock)
      BY DEF IInv, PreparedOK
    <3>2. p.tx.timestamp \in 0..clock => p.tx.timestamp \in 0..clock'
      BY <1>1, <1>2
    <3> QED
      BY <3>1, <3>2 DEF PayloadOK, Built
  <2> QED
    BY <1>1, <2>1 DEF IInv, PreparedOK
<1>6. HandlersOK'
  <2>1. ASSUME NEW r \in Requests
        PROVE  HandlerOK(req[r], Held', taken', clock')
    <3>1. HandlerOK(req[r], Held, taken, clock)
      BY DEF IInv, HandlersOK
    <3> QED
      BY <1>1, <1>2, <1>3, <3>1, HandlerStays
  <2> QED
    BY <1>1, <2>1 DEF IInv, HandlersOK
<1> QED
  BY <1>1, <1>2, <1>4, <1>5, <1>6 DEF IInv

-------------------------------------------------------------------------------
(* The theorems. *)

LEMMA InitIInv ==
  ASSUME Init
  PROVE  IInv
PROOF
<1>1. HandlersOK
  BY IdleOK DEF Init, HandlersOK
<1> QED
  BY <1>1 DEF Init, IInv, PreparedOK, SignaturesOK, SignedOK, NetworkOK

LEMMA NextKeepsIInv ==
  ASSUME IInv, [Next]_vars
  PROVE  IInv'
PROOF
<1>1. ASSUME NEW r \in Requests, Handle(r)
      PROVE  IInv'
  <2>1. CASE Deliver(r)
    BY <2>1, IdleOK, HandlerStep DEF Deliver
  <2> QED
    BY <1>1, <2>1, DeriveKeeps, PreprocessKeeps, MetadataKeeps, PayloadsKeeps,
       EstimateKeeps, CombineKeeps, HashKeeps, ParseKeeps, SubmitKeeps, SendKeeps
    DEF Handle
<1>2. CASE UNCHANGED vars
  <2>1. Unsigned' = Unsigned /\ Orders' = Orders /\ Held' = Held
    BY <1>2 DEF vars, Unsigned, Orders, Held
  <2> QED
    BY <1>2, <2>1
    DEF vars, IInv, PreparedOK, SignaturesOK, SignedOK, NetworkOK, HandlersOK
<1> QED
  BY <1>1, <1>2, SignKeeps, WorldKeeps DEF Next

\* What the wallets hold, sign and send is at every step as it was made of an intent
\* or by another tool.
THEOREM Invariance == Spec => []IInv
PROOF
<1>1. Init => IInv
  BY InitIInv
<1>2. IInv /\ [Next]_vars => IInv'
  BY NextKeepsIInv
<1> QED
  BY <1>1, <1>2, PTL DEF Spec

\* What combine answered is authentic.
LEMMA SignedAuthentic ==
  ASSUME IInv, NEW tx \in signed
  PROVE  tx \in Transaction /\ CanHash(tx) /\ Authentic(tx) /\ Authentic(ToJSON(tx))
PROOF
<1>1. /\ tx \in Transaction /\ CanHash(tx) /\ tx.signature \in signatures
      /\ tx.signature.hash = CalcHash(tx) /\ AddressOf[tx.signature.key] = tx.from
  BY DEF IInv, SignedOK
<1>2. tx.signature.hash \in Terms /\ tx.signature # None
  <2>1. tx.signature \in Signature
    BY <1>1 DEF IInv, SignaturesOK
  <2> QED
    BY <2>1, ConstructionAssumption DEF Signature
<1>3. NodeHash(tx) = CalcHash(tx) /\ ToJSON(tx) = tx
  BY <1>1, SentAsIs
<1> QED
  BY <1>1, <1>2, <1>3 DEF Authentic

\* The variables keep their types: what payloads hands out can be hashed, and what is
\* submitted was parsed.
THEOREM TypeCorrect == Spec => []TypeOK
PROOF
<1>1. IInv => TypeOK
  <2> SUFFICES ASSUME IInv
               PROVE  TypeOK
    OBVIOUS
  <2>1. clock \in Nat /\ prepared \subseteq Payload /\ signatures \subseteq Signature
    BY DEF IInv, PreparedOK, SignaturesOK
  <2>2. signed \subseteq {tx \in Transaction : tx.signature # None}
    <3>1. ASSUME NEW tx \in signed
          PROVE  tx \in Transaction /\ Authentic(tx)
      BY SignedAuthentic, SentAsIs
    <3> QED
      BY <3>1 DEF Authentic
  <2>3. onWire \subseteq Transaction /\ taken \subseteq Transaction
    BY HeldTypes
  <2>4. req \in [Requests -> Handler]
    BY DEF IInv, HandlersOK, HandlerOK
  <2> QED
    BY <2>1, <2>2, <2>3, <2>4 DEF TypeOK
<1> QED
  BY <1>1, Invariance, PTL

\* The signer whom payloads names can complete what it hands out: combine accepts the
\* signature over the payload's bytes for the payload's transaction.
THEOREM Completable == Spec => []PayloadsCombine
PROOF
<1>1. IInv => PayloadsCombine
  <2> SUFFICES ASSUME IInv, NEW p \in prepared, NEW key \in Keys,
                      AddressOf[key] = p.account
               PROVE  VerifySignature([p.tx EXCEPT !.signature =
                                         [key |-> key, hash |-> p.bytes]])
    BY DEF PayloadsCombine
  <2> DEFINE s == [key |-> key, hash |-> p.bytes]
             tx == [p.tx EXCEPT !.signature = s]
  <2>1. /\ p.tx \in Transaction /\ CanHash(p.tx)
        /\ p.bytes = CalcHash(p.tx) /\ p.account = p.tx.from
    BY DEF IInv, PreparedOK, PayloadOK, Built
  <2>2. tx.signature = s /\ tx.from = p.tx.from /\ tx.data = p.tx.data
    BY <2>1 DEF Transaction
  <2>3. TxHash(tx) = CalcHash(p.tx)
    BY <2>1, <2>2, SignatureNotHashed DEF TxHash, CanHash
  <2> HIDE DEF tx
  <2>4. VerifySignature(tx)
    BY <2>1, <2>2, <2>3 DEF VerifySignature
  <2> QED
    BY <2>4 DEF tx
<1> QED
  BY <1>1, Invariance, PTL

\* The node finds authentic whatever combine answers, from whichever payment, tool or
\* wallet the transaction and the signature were.
THEOREM CombinedRight == Spec => []CombinedAuthentic
PROOF
<1>1. IInv => CombinedAuthentic
  BY SignedAuthentic DEF CombinedAuthentic, IInv, SignedOK
<1> QED
  BY <1>1, Invariance, PTL

\* An identifier that submit answers is that of a transaction that the node took, and
\* hash never answers another one for it.
THEOREM Identified == Spec => []IdentifiersTaken
PROOF
<1>1. IInv => IdentifiersTaken
  <2> SUFFICES ASSUME IInv, NEW r \in Requests, req[r].pc = "answered"
               PROVE  LET js == ToJSON(req[r].tx)
                      IN  /\ req[r].endpoint = "submit"
                               => js \in taken /\ req[r].answer = NodeHash(js)
                          /\ req[r].endpoint = "hash" /\ js \in taken
                               => req[r].answer = NodeHash(js)
    BY DEF IdentifiersTaken
  <2> DEFINE tx == req[r].tx
  <2>1. HandlerOK(req[r], Held, taken, clock)
    BY DEF IInv, HandlersOK
  <2>2. ASSUME tx \in taken
        PROVE  tx \in Transaction /\ TxHash(tx) = NodeHash(tx) /\ ToJSON(tx) = tx
    <3>1. tx \in Transaction /\ CanHash(tx)
      BY <2>2, HeldTypes DEF IInv, NetworkOK, SignedOK
    <3> QED
      BY <3>1, SentAsIs, HashType
  <2>3. req[r].endpoint = "submit" => tx \in taken /\ req[r].answer = TxHash(tx)
    BY <2>1 DEF HandlerOK
  <2>4. req[r].endpoint = "hash" =>
          tx \in Transaction /\ ToJSON(tx) = tx /\ req[r].answer = TxHash(tx)
    BY <2>1, SentAsIs DEF HandlerOK
  <2> QED
    BY <2>2, <2>3, <2>4
<1> QED
  BY <1>1, Invariance, PTL

\* preprocess and payloads agree about every intent, but for a contract call with
\* nothing, which only payloads accepts.
THEOREM Agreed == Spec => []PreprocessAgrees
PROOF
<1>1. IInv => PreprocessAgrees
  <2> SUFFICES ASSUME IInv
               PROVE  PreprocessAgrees
    OBVIOUS
  <2>1. ASSUME NEW r \in Requests, req[r].endpoint = "payloads", req[r].tx = None,
               req[r].error = "ErrUnclearIntent" \/ req[r].pc = "aborted"
        PROVE  PreprocessError(req[r].input) # None
    <3>1. req[r].input \in Intents /\ RefusedAs(req[r])
      BY <2>1 DEF IInv, HandlersOK, HandlerOK
    <3>2. PayloadsError(req[r].input) \in {"ErrUnclearIntent", Panic}
      BY <2>1, <3>1 DEF RefusedAs
    <3> QED
      BY <3>1, <3>2, RefusedByBoth
  <2>2. ASSUME NEW p \in prepared
        PROVE  PreprocessError(p.intent) = None \/ IsZero(p.intent)
    BY AcceptedByBoth DEF IInv, PreparedOK, PayloadOK, Built
  <2> QED
    BY <2>1, <2>2 DEF PreprocessAgrees
<1> QED
  BY <1>1, Invariance, PTL

\* The movements of a debit and a credit of the same amount.
LEMMA MatchedMovements ==
  ASSUME NEW ops \in Seq(Operation), MatchOperations(ops), NEW v \in Nat,
         First(ops, TRUE).amount.abs = v, First(ops, FALSE).amount.abs = v
  PROVE  Movements(ops) = {<<First(ops, TRUE).account, -v>>, <<First(ops, FALSE).account, v>>}
PROOF
<1>1. PICK i, j \in {1, 2} :
        /\ i # j /\ Len(ops) = 2 /\ DOMAIN ops = {1, 2}
        /\ First(ops, TRUE) = ops[i] /\ First(ops, FALSE) = ops[j]
        /\ i \in Matching(ops, TRUE) /\ j \in Matching(ops, FALSE)
  BY Matched
<1>2. Movements(ops) = {<<ops[i].account, Quantity(ops[i].amount)>>,
                        <<ops[j].account, Quantity(ops[j].amount)>>}
  BY <1>1 DEF Movements
<1>3. Quantity(ops[i].amount) = -v /\ Quantity(ops[j].amount) = v
  BY <1>1 DEF Matching, Quantity
<1> QED
  BY <1>1, <1>2, <1>3

LEMMA MinusZero == ASSUME NEW n \in Nat, n <= 0 PROVE -n = 0
PROOF
  OBVIOUS

\* Those of a contract call with nothing, whichever signs its zeros have.
LEMMA ZeroMovements ==
  ASSUME NEW intent \in Intents, PayloadsError(intent) = None, IsZero(intent),
         intent.operations[2].amount.abs = 0
  PROVE  Movements(intent.operations) =
           {<<First(Rewritten(intent), TRUE).account, 0>>,
            <<First(Rewritten(intent), FALSE).account, 0>>}
PROOF
<1> DEFINE ops == intent.operations
           rew == Rewritten(intent)
<1>1. /\ ops \in Seq(Operation) /\ Len(ops) = 2 /\ ops[2].amount # None
      /\ rew \in Seq(Operation) /\ MatchOperations(rew)
  BY Accepted, RewrittenShape
<1>2. /\ rew[1] = [ops[1] EXCEPT !.amount = MinusOne]
      /\ rew[2] = [ops[2] EXCEPT !.amount = PlusOne]
  BY <1>1, RewrittenShape
<1>3. ops[1] \in Operation /\ ops[2] \in Operation /\ DOMAIN ops = {1, 2}
  BY <1>1
<1> HIDE DEF rew, ops
<1>4. /\ rew[1].amount = MinusOne /\ rew[1].account = ops[1].account
      /\ rew[2].amount = PlusOne /\ rew[2].account = ops[2].account
  BY <1>2, <1>3 DEF Operation
<1>5. PICK i, j \in {1, 2} :
        /\ i # j /\ Len(rew) = 2 /\ DOMAIN rew = {1, 2}
        /\ First(rew, TRUE) = rew[i] /\ First(rew, FALSE) = rew[j]
        /\ i \in Matching(rew, TRUE) /\ j \in Matching(rew, FALSE)
  BY <1>1, Matched
<1>6. i = 1 /\ j = 2
  BY <1>4, <1>5 DEF Matching, MinusOne, PlusOne
<1>7. Movements(ops) = {<<ops[1].account, Quantity(ops[1].amount)>>,
                        <<ops[2].account, Quantity(ops[2].amount)>>}
  BY <1>3 DEF Movements
<1>8. Quantity(ops[1].amount) = 0
  BY DEF IsZero, Zero, Quantity, ops
<1>9. Quantity(ops[2].amount) = 0
  <2>1. ops[2].amount.abs = 0
    BY DEF ops
  <2>2. ops[2].amount.abs \in Nat /\ ops[2].amount.abs <= 0
    BY <2>1
  <2>3. -ops[2].amount.abs = 0
    BY <2>2, MinusZero
  <2> QED
    BY <2>1, <2>3 DEF Quantity
<1> QED
  BY <1>4, <1>5, <1>6, <1>7, <1>8, <1>9 DEF ops, rew

LEMMA ParsedMovements ==
  ASSUME NEW tx \in Transaction, tx.value \in Nat, NEW isSigned \in BOOLEAN
  PROVE  Movements(Parsed(tx, isSigned).operations) = {<<tx.from, -tx.value>>, <<tx.to, tx.value>>}
PROOF
<1> DEFINE ops == ParsedOperations(tx)
<1>1. Values(tx) = tx.value
  BY ConstructionAssumption DEF Values
<1>2. /\ DOMAIN ops = {1, 2}
      /\ ops[1].account = tx.from /\ Quantity(ops[1].amount) = -tx.value
      /\ ops[2].account = tx.to /\ Quantity(ops[2].amount) = tx.value
  BY <1>1 DEF ParsedOperations, Quantity
<1>3. Parsed(tx, isSigned).operations = ops
  BY DEF Parsed
<1> HIDE DEF ops
<1> QED
  BY <1>2, <1>3 DEF Movements

\* What is parsed back from a transaction, before or after signing, is what was asked
\* for, also if payloads rewrote it; and the signer is the one who signed.
THEOREM Confirmed == Spec => []ParseConfirms
PROOF
<1>1. IInv => ParseConfirms
  <2> SUFFICES ASSUME IInv, NEW r \in Requests,
                      req[r].endpoint = "parse", req[r].pc = "answered"
               PROVE  LET tx == req[r].tx
                      IN  /\ \A p \in prepared :
                               /\ \A f \in HashedFields : tx[f] = p.tx[f]
                               /\ Balanced(p.intent.operations)
                               /\ ~ (IsZero(p.intent) /\ p.intent.operations[2].amount.abs # 0)
                               => Movements(req[r].answer.operations)
                                    = Movements(p.intent.operations)
                          /\ tx \in signed /\ req[r].answer.signers # {}
                               => req[r].answer.signers = {AddressOf[tx.signature.key]}
    BY DEF ParseConfirms
  <2> DEFINE tx == req[r].tx
  <2>1. PICK isSigned \in BOOLEAN :
          tx \in Transaction /\ req[r].answer = Parsed(tx, isSigned)
    BY DEF IInv, HandlersOK, HandlerOK
  <2>2. tx \in signed /\ req[r].answer.signers # {}
          => req[r].answer.signers = {AddressOf[tx.signature.key]}
    <3>1. tx \in signed => AddressOf[tx.signature.key] = tx.from
      BY DEF IInv, SignedOK
    <3>2. req[r].answer.signers = IF isSigned THEN {tx.from} ELSE {}
      BY <2>1 DEF Parsed
    <3> HIDE DEF tx
    <3> QED
      BY <3>1, <3>2
  <2>3. ASSUME NEW p \in prepared,
               \A f \in HashedFields : tx[f] = p.tx[f],
               Balanced(p.intent.operations),
               ~ (IsZero(p.intent) /\ p.intent.operations[2].amount.abs # 0)
        PROVE  Movements(req[r].answer.operations) = Movements(p.intent.operations)
    <3> DEFINE intent == p.intent
               rew == Rewritten(intent)
    <3>1. Built(p.tx, intent, clock)
      BY DEF IInv, PreparedOK, PayloadOK
    <3>2. /\ intent \in Intents /\ PayloadsError(intent) = None
          /\ p.tx.from = First(rew, TRUE).account
          /\ p.tx.to = First(rew, FALSE).account
          /\ p.tx.value = IF IsZero(intent) THEN 0 ELSE First(rew, FALSE).amount.abs
      BY <3>1 DEF Built
    <3>3. tx.from = p.tx.from /\ tx.to = p.tx.to /\ tx.value = p.tx.value
      BY <2>3 DEF HashedFields, Fields
    <3> HIDE DEF tx
    <3>4. /\ rew \in Seq(Operation) /\ MatchOperations(rew)
          /\ First(rew, FALSE).amount.abs \in Nat
      BY <3>2, Accepted
    <3>5. tx.value \in Nat
      <4>1. 0 \in Nat
        OBVIOUS
      <4> QED
        BY <3>2, <3>3, <3>4, <4>1
    <3>6. Movements(req[r].answer.operations)
            = {<<First(rew, TRUE).account, -tx.value>>, <<First(rew, FALSE).account, tx.value>>}
      BY <2>1, <3>2, <3>3, <3>5, ParsedMovements
    <3>7. CASE IsZero(intent)
      <4>1. tx.value = 0 /\ -tx.value = 0
        <5>1. tx.value = 0
          BY <3>2, <3>3, <3>7
        <5>2. tx.value \in Nat /\ tx.value <= 0
          BY <5>1
        <5> QED
          BY <5>1, <5>2, MinusZero
      <4>2. Movements(intent.operations)
              = {<<First(rew, TRUE).account, 0>>, <<First(rew, FALSE).account, 0>>}
        BY <2>3, <3>2, <3>7, ZeroMovements
      <4> QED
        BY <3>6, <4>1, <4>2
    <3>8. CASE ~IsZero(intent)
      <4>1. rew = intent.operations
        BY <3>2, <3>8, RewrittenShape
      <4>2. First(rew, FALSE).amount.abs = tx.value
        BY <3>2, <3>3, <3>8
      <4>3. First(rew, TRUE).amount.abs = tx.value
        BY <2>3, <3>4, <4>1, <4>2 DEF Balanced
      <4> QED
        BY <3>4, <3>5, <3>6, <4>1, <4>2, <4>3, MatchedMovements
    <3> QED
      BY <3>7, <3>8
  <2> QED
    BY <2>2, <2>3
<1> QED
  BY <1>1, Invariance, PTL

-------------------------------------------------------------------------------
(* The endpoints implement the flow.  Orders are the hashes of unsigned         *)
(* transactions: an estimate places one, a signature may authorize one, and     *)
(* the node takes one; every other step is a stutter of the flow.               *)

LEMMA OrderShape ==
  ASSUME NEW tx \in Transaction
  PROVE  /\ Order(tx) = [version |-> 3, from |-> tx.from, to |-> tx.to, value |-> tx.value,
                         stepLimit |-> tx.stepLimit, timestamp |-> tx.timestamp,
                         nid |-> Nid, nonce |-> 1, dataType |-> tx.dataType,
                         data |-> tx.data]
         /\ Order(tx)["from"] = tx.from
         /\ Order(tx).timestamp = tx.timestamp
PROOF
<1>1. Order(tx) = [version |-> tx.version, from |-> tx.from, to |-> tx.to,
                   value |-> tx.value, stepLimit |-> tx.stepLimit,
                   timestamp |-> tx.timestamp, nid |-> tx.nid, nonce |-> tx.nonce,
                   dataType |-> tx.dataType, data |-> tx.data]
  BY DEF Transaction, Order, Fields
<1>2. tx.version = 3 /\ tx.nid = Nid /\ tx.nonce = 1
  BY DEF Transaction
<1> QED
  BY <1>1, <1>2

\* The transaction that is built pays what the intent pays.
LEMMA BuiltPays ==
  ASSUME NEW tx, NEW intent, NEW now, Built(tx, intent, now)
  PROVE  \E i, j \in 1..2 :
           /\ Flow!Pays(intent, i, j)
           /\ intent.operations[i].account = tx.from
           /\ intent.operations[j].account = tx.to
           /\ Flow!Worth(intent, i, j) = tx.value
PROOF
<1> DEFINE ops == intent.operations
           rew == Rewritten(intent)
<1>1. /\ intent \in Intents /\ PayloadsError(intent) = None
      /\ tx.from = First(rew, TRUE).account /\ tx.to = First(rew, FALSE).account
      /\ tx.value = IF IsZero(intent) THEN 0 ELSE First(rew, FALSE).amount.abs
  BY DEF Built
<1>2. /\ rew \in Seq(Operation) /\ MatchOperations(rew) /\ ops \in Seq(Operation)
      /\ tx.from \in Accounts /\ tx.to \in Accounts
  BY <1>1, Accepted, RewrittenShape
<1>3. PICK i, j \in {1, 2} :
        /\ i # j /\ Len(rew) = 2 /\ DOMAIN rew = {1, 2}
        /\ First(rew, TRUE) = rew[i] /\ First(rew, FALSE) = rew[j]
        /\ i \in Matching(rew, TRUE) /\ j \in Matching(rew, FALSE)
  BY <1>2, Matched
<1>4. {i, j} = {1, 2} /\ i \in 1..2 /\ j \in 1..2
  BY <1>3
<1>5. CASE IsZero(intent)
  <2>1. Len(ops) = 2 /\ ops[2].amount # None
    BY <1>1, <1>5, Accepted
  <2>2. /\ rew[1] = [ops[1] EXCEPT !.amount = MinusOne]
        /\ rew[2] = [ops[2] EXCEPT !.amount = PlusOne]
    BY <1>1, <1>5, <2>1, RewrittenShape
  <2>3. ops[1] \in Operation /\ ops[2] \in Operation
    BY <1>2, <2>1
  <2>4. ops[1].amount = Zero /\ intent.dataType # None
    BY <1>5 DEF IsZero
  <2> HIDE DEF ops, rew
  <2>5. /\ rew[1].amount = MinusOne /\ rew[1].account = ops[1].account
        /\ rew[1].type = ops[1].type
        /\ rew[2].amount = PlusOne /\ rew[2].account = ops[2].account
        /\ rew[2].type = ops[2].type
    BY <2>2, <2>3 DEF Operation
  <2>6. i = 1 /\ j = 2
    BY <1>3, <2>5 DEF Matching, MinusOne, PlusOne
  <2>7. ops[1].account = tx.from /\ ops[2].account = tx.to
    BY <1>1, <1>3, <2>5, <2>6
  <2>8. /\ ops[1].type = "TRANSFER" /\ ops[2].type = "TRANSFER"
        /\ ops[1].amount # None /\ ops[1].amount.abs = 0 /\ ~ops[1].amount.neg
    <3>1. ops[1].amount # None
      BY <1>1, Accepted DEF ops
    <3> QED
      BY <1>3, <2>4, <2>5, <2>6, <3>1 DEF Matching, Zero
  <2>9. tx.value = 0
    BY <1>1, <1>5
  <2>10. Flow!Pays(intent, 1, 2)
    BY <1>2, <2>1, <2>4, <2>7, <2>8 DEF Flow!Pays, ops
  <2>11. Flow!Worth(intent, 1, 2) = tx.value
    BY <2>8, <2>9 DEF Flow!Worth, ops
  <2> QED
    BY <2>7, <2>10, <2>11 DEF ops
<1>6. CASE ~IsZero(intent)
  <2>1. rew = ops
    BY <1>1, <1>6, RewrittenShape
  <2> HIDE DEF ops, rew
  <2>2. /\ Len(ops) = 2
        /\ ops[i].type = "TRANSFER" /\ ops[j].type = "TRANSFER"
        /\ ops[i].amount # None /\ ops[j].amount # None
        /\ ops[i].amount.neg = TRUE /\ ops[i].amount.abs > 0
        /\ ops[j].amount.neg = FALSE /\ ops[j].amount.abs > 0
    BY <1>3, <2>1 DEF Matching
  <2>3. /\ ops[i].account = tx.from /\ ops[j].account = tx.to
        /\ tx.value = ops[j].amount.abs
    BY <1>1, <1>3, <1>6, <2>1
  <2>4. Flow!Pays(intent, i, j)
    BY <1>2, <1>3, <1>4, <2>2, <2>3 DEF Flow!Pays, ops
  <2>5. ops[i].amount.abs # 0
    BY <2>2
  <2>6. Flow!Worth(intent, i, j) = tx.value
    BY <2>3, <2>5 DEF Flow!Worth, ops
  <2> QED
    BY <1>4, <2>3, <2>4, <2>6 DEF ops
<1> QED
  BY <1>5, <1>6

\* What is taken was signed with the key of its payer, and what was signed is an order.
LEMMA SignedOrder ==
  ASSUME IInv, NEW tx \in signed
  PROVE  /\ tx \in Transaction /\ Order(tx) = tx.signature.hash
         /\ Order(tx) = CalcHash(tx) /\ Order(tx) \in Authorized
PROOF
<1>1. /\ tx \in Transaction /\ tx.signature \in signatures
      /\ tx.signature.hash = CalcHash(tx) /\ AddressOf[tx.signature.key] = tx.from
  BY DEF IInv, SignedOK
<1>2. Order(tx) = CalcHash(tx) /\ Order(tx)["from"] = tx.from
  BY <1>1, SentAsIs, OrderShape
<1>3. Order(tx) \in Orders
  BY <1>1, <1>2 DEF IInv, SignaturesOK
<1> QED
  BY <1>1, <1>2, <1>3 DEF Authorized

\* An order is signed with one key, so that it is one signed transaction.
LEMMA OrderSignedOnce ==
  ASSUME IInv, NEW t1 \in signed, NEW t2 \in signed, Order(t1) = Order(t2)
  PROVE  t1 = t2
PROOF
<1>1. /\ t1 \in Transaction /\ t2 \in Transaction
      /\ CalcHash(t1) = CalcHash(t2)
      /\ t1.signature.hash = t2.signature.hash
  BY SignedOrder
<1>2. t1.from = t2.from
  BY <1>1, OrderShape
<1>3. /\ t1.signature \in Signature /\ t2.signature \in Signature
      /\ AddressOf[t1.signature.key] = t1.from /\ AddressOf[t2.signature.key] = t2.from
  BY DEF IInv, SignedOK, SignaturesOK
<1>4. t1.signature.key = t2.signature.key
  BY <1>2, <1>3, ConstructionAssumption DEF Signature
<1>5. t1.signature = t2.signature
  BY <1>1, <1>3, <1>4 DEF Signature
<1> QED
  BY <1>1, <1>5, SameOrder

LEMMA InitFlow ==
  ASSUME Init
  PROVE  Flow!FlowInit
PROOF
<1>1. Unsigned = Foreign
  BY DEF Init, Unsigned
<1>2. Orders = {Order(tx) : tx \in Foreign}
  BY <1>1 DEF Orders
<1>3. Authorized = {} /\ {Order(js) : js \in taken} = {} /\ clock = 0
  BY DEF Init, Authorized
<1> QED
  BY <1>2, <1>3 DEF Flow!FlowInit

\* What the flow does not see.
LEMMA FlowStutter ==
  ASSUME UNCHANGED <<clock, prepared, signatures, taken>>
  PROVE  UNCHANGED Flow!fvars
PROOF
<1>1. Orders' = Orders
  BY DEF Orders, Unsigned
<1>2. Authorized' = Authorized
  BY <1>1 DEF Authorized
<1> QED
  BY <1>1, <1>2 DEF Flow!fvars

LEMMA EstimatePlaces ==
  ASSUME IInv, NEW r \in Requests, EstimateStep(r)
  PROVE  Flow!Place \/ UNCHANGED Flow!fvars
PROOF
<1> DEFINE l == req[r]
<1>1. Built(l.tx, l.input, clock) /\ clock \in Nat
  BY DEF EstimateStep, IInv, HandlersOK, HandlerOK
<1>2. UNCHANGED <<clock, signatures, signed, onWire, taken>>
  BY DEF EstimateStep
<1>3. CASE UNCHANGED prepared
  BY <1>2, <1>3, FlowStutter
<1>4. CASE CanHash(l.tx) /\ \E limit \in Estimates :
             prepared' = prepared \cup {PayloadOf(l.input, l.tx, limit)}
  <2>1. PICK limit \in Estimates :
          prepared' = prepared \cup {PayloadOf(l.input, l.tx, limit)}
    BY <1>4
  <2> DEFINE p == PayloadOf(l.input, l.tx, limit)
             tx == p.tx
             intent == p.intent
  <2>2. PayloadOK(p, clock)
    BY <1>1, <1>4, PayloadOfOK
  <2>3. prepared' = prepared \cup {p}
    BY <2>1
  <2> HIDE DEF p
  <2>4. /\ Built(tx, intent, clock) /\ tx \in Transaction /\ intent \in Intents
        /\ tx.stepLimit \in Estimates /\ tx.timestamp \in 0..clock /\ CanHash(tx)
        /\ tx.dataType = intent.dataType /\ tx.data = intent.data
    BY <2>2 DEF PayloadOK, Built
  <2>5. intent.data # "numbers" /\ intent.dataType # Malformed
    BY <2>4, Accepted DEF CanHash, Built
  <2>6. Unsigned' = Unsigned \cup {tx}
    BY <2>3 DEF Unsigned
  <2>7. Orders' = Orders \cup {Order(tx)}
    BY <2>6 DEF Orders
  <2>8. Authorized' = Authorized
    BY <1>2, <2>7 DEF Authorized, IInv, SignaturesOK
  <2>9. PICK i, j \in 1..2 :
          /\ Flow!Pays(intent, i, j)
          /\ intent.operations[i].account = tx.from
          /\ intent.operations[j].account = tx.to
          /\ Flow!Worth(intent, i, j) = tx.value
    BY <2>4, BuiltPays
  <2>10. Order(tx) = [version |-> 3, from |-> intent.operations[i].account,
                      to |-> intent.operations[j].account,
                      value |-> Flow!Worth(intent, i, j),
                      stepLimit |-> tx.stepLimit, timestamp |-> tx.timestamp,
                      nid |-> Nid, nonce |-> 1, dataType |-> intent.dataType,
                      data |-> intent.data]
    BY <2>4, <2>9, OrderShape
  <2> HIDE DEF tx, intent
  <2> QED
    BY <1>2, <2>4, <2>5, <2>7, <2>8, <2>9, <2>10 DEF Flow!Place
<1> QED
  BY <1>3, <1>4 DEF EstimateStep

LEMMA SignAuthorizes ==
  ASSUME IInv, Sign
  PROVE  Flow!Authorize \/ UNCHANGED Flow!fvars
PROOF
<1>1. PICK key \in Keys, hash \in {p.bytes : p \in prepared}
                                    \cup {NodeHash(tx) : tx \in Foreign} :
        signatures' = signatures \cup {[key |-> key, hash |-> hash]}
  BY DEF Sign
<1>2. UNCHANGED <<clock, prepared, taken>>
  BY DEF Sign
<1>3. Orders' = Orders
  BY <1>2 DEF Orders, Unsigned
<1> DEFINE s == [key |-> key, hash |-> hash]
<1>4. s.key = key /\ s.hash = hash /\ signatures' = signatures \cup {s}
  BY <1>1
<1> HIDE DEF s
<1>5. hash \in Orders
  BY <1>3, <1>4, SignKeeps DEF IInv, SignaturesOK
<1>6. CASE AddressOf[key] = hash["from"]
  <2>1. Authorized' = Authorized \cup {hash}
    BY <1>3, <1>4, <1>5, <1>6 DEF Authorized
  <2> QED
    BY <1>2, <1>3, <1>5, <2>1 DEF Flow!Authorize
<1>7. CASE AddressOf[key] # hash["from"]
  <2>1. Authorized' = Authorized
    BY <1>3, <1>4, <1>7 DEF Authorized
  <2> QED
    BY <1>2, <1>3, <2>1 DEF Flow!fvars
<1> QED
  BY <1>6, <1>7

\* The node takes an order that was authorized and that it had not taken, in time.
LEMMA NodeTakes ==
  ASSUME IInv, NEW tx \in Held, Takes(tx), taken' = taken \cup {tx},
         UNCHANGED <<clock, prepared, signatures>>
  PROVE  Flow!Take
PROOF
<1> DEFINE done == {Order(js) : js \in taken}
<1>1. tx \in signed /\ tx \notin taken
  BY AuthenticSigned DEF Takes
<1>2. Order(tx) \in Authorized /\ tx \in Transaction
  BY <1>1, SignedOrder
<1>3. Order(tx) \notin done
  <2> SUFFICES ASSUME NEW js \in taken, Order(js) = Order(tx)
               PROVE  FALSE
    OBVIOUS
  <2>1. js \in signed
    BY DEF IInv, NetworkOK
  <2> QED
    BY <1>1, <2>1, OrderSignedOnce
<1>4. clock - Order(tx).timestamp <= Window
  BY <1>2, OrderShape DEF Takes
<1>5. Orders' = Orders
  BY DEF Orders, Unsigned
<1>6. Authorized' = Authorized
  BY <1>5 DEF Authorized
<1>7. {Order(js) : js \in taken}' = done \cup {Order(tx)}
  OBVIOUS
<1> QED
  BY <1>2, <1>3, <1>4, <1>5, <1>6, <1>7 DEF Flow!Take

LEMMA StepFlow ==
  ASSUME IInv, [Next]_vars
  PROVE  [Flow!FlowNext]_(Flow!fvars)
PROOF
<1>1. ASSUME NEW r \in Requests, Handle(r)
      PROVE  Flow!FlowNext \/ UNCHANGED Flow!fvars
  <2>1. CASE EstimateStep(r)
    BY <2>1, EstimatePlaces DEF Flow!FlowNext
  <2>2. CASE SendTransaction(r)
    <3>1. req[r].tx \in Held /\ ToJSON(req[r].tx) = req[r].tx
      BY <2>2, SentAsIs, HeldTypes DEF SendTransaction, IInv, HandlersOK, HandlerOK
    <3>2. UNCHANGED <<clock, prepared, signatures>>
      BY <2>2 DEF SendTransaction
    <3>3. \/ Takes(req[r].tx) /\ taken' = taken \cup {req[r].tx}
          \/ UNCHANGED taken
      BY <2>2, <3>1 DEF SendTransaction
    <3> QED
      BY <3>1, <3>2, <3>3, NodeTakes, FlowStutter DEF Flow!FlowNext
  <2>3. CASE \/ ConstructionDerive(r) \/ ConstructionPreprocess(r)
             \/ ConstructionMetadata(r) \/ ConstructionPayloads(r)
             \/ ConstructionCombine(r) \/ ConstructionHash(r) \/ ConstructionParse(r)
             \/ ConstructionSubmit(r) \/ Deliver(r)
    <3>1. UNCHANGED <<clock, prepared, signatures, taken>>
      BY <2>3
      DEF ConstructionDerive, ConstructionPreprocess, ConstructionMetadata,
          ConstructionPayloads, ConstructionCombine, ConstructionHash,
          ConstructionParse, ConstructionSubmit, Deliver
    <3> QED
      BY <3>1, FlowStutter
  <2> QED
    BY <1>1, <2>1, <2>2, <2>3 DEF Handle
<1>2. CASE Sign
  BY <1>2, SignAuthorizes DEF Flow!FlowNext
<1>3. CASE LateArrival
  <2>1. PICK js \in onWire : taken' = IF Takes(js) THEN taken \cup {js} ELSE taken
    BY <1>3 DEF LateArrival
  <2>2. js \in Held
    BY DEF IInv, NetworkOK
  <2>3. UNCHANGED <<clock, prepared, signatures>>
    BY <1>3 DEF LateArrival
  <2>4. CASE Takes(js)
    BY <2>1, <2>2, <2>3, <2>4, NodeTakes DEF Flow!FlowNext
  <2>5. CASE ~Takes(js)
    BY <2>1, <2>3, <2>5, FlowStutter
  <2> QED
    BY <2>4, <2>5
<1>4. CASE Tick
  <2>1. clock < MaxClock /\ clock' = clock + 1 /\ UNCHANGED <<prepared, signatures, taken>>
    BY <1>4 DEF Tick
  <2>2. Orders' = Orders
    BY <2>1 DEF Orders, Unsigned
  <2>3. Authorized' = Authorized
    BY <2>1, <2>2 DEF Authorized
  <2> QED
    BY <2>1, <2>2, <2>3 DEF Flow!FlowNext, Flow!Pass
<1>5. CASE UNCHANGED vars
  BY <1>5, FlowStutter DEF vars
<1> QED
  BY <1>1, <1>2, <1>3, <1>4, <1>5 DEF Next

\* The endpoints, the wallets and the node implement the flow: what the node takes is,
\* at every step and for any requests, an order that was placed for an intent or by
\* another tool, that its payer authorized, in time and once.
THEOREM Refinement == Spec => ImplementsFlow
PROOF
<1>1. Init => Flow!FlowInit
  BY InitFlow
<1>2. IInv /\ [Next]_vars => [Flow!FlowNext]_(Flow!fvars)
  BY StepFlow
<1> QED
  BY <1>1, <1>2, Invariance, PTL DEF Spec, ImplementsFlow, Flow!FlowSpec

===================================================================================
