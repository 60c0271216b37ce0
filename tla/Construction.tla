------------------------------ MODULE Construction ------------------------------
(***************************************************************************)
(* The Construction API (services/construction_service.go, the Transaction *)
(* of icon/client_v1/types.go, EstimateStep and SendTransaction of the     *)
(* clients).                                                               *)
(*                                                                         *)
(* The endpoints keep no state: what one answers, the wallet hands to the  *)
(* next, which may run in another process, at another time, or on the      *)
(* artifact of another payment.  So the state is what the wallet holds,    *)
(* what the handlers hold while they wait for the node, what is still on   *)
(* the wire, and what the node took.                                       *)
(***************************************************************************)
EXTENDS Integers, Sequences, FiniteSets

CONSTANTS
  Requests,    \* the HTTP requests that may be open at one time
  Modes,       \* the MODEs of the processes that serve them
  Accounts,    \* the well-formed addresses
  Keys,        \* the key pairs of the wallets
  AddressOf,   \* the address of each public key
  Malformed,   \* an address, a key, a signature, a dataType, options or a
               \* transaction that cannot be parsed
  None,        \* a field that is not set
  Intents,     \* the operations and metadata a wallet may ask for
  Foreign,     \* unsigned transactions that other tools made
  Nid,         \* the id of the network that the process and the node are in
  Estimates,   \* the step estimates that the node may answer
  Window,      \* how old a transaction may be when the node takes it
  MaxClock,    \* bound: the clock stops there
  MaxPrepared, \* bound: with so many payloads the wallets ask for no more
  MaxSigned    \* bound: signatures that the wallet makes

Number == [neg : BOOLEAN, abs : Nat]   \* a decimal text: "-0" is not "0"

Zero == [neg |-> FALSE, abs |-> 0]
PlusOne == [neg |-> FALSE, abs |-> 1]
MinusOne == [neg |-> TRUE, abs |-> 1]

\* An operation in another currency than ICX counts as one of another type.
Operation == [type    : {"TRANSFER", "OTHER"},
              account : Accounts \cup {Malformed, None},
              amount  : Number \cup {None}]

DataTypes == {"call", None}
Datas == {"strings", "numbers", None}   \* SerializeValue knows no numbers

Intent == [operations : Seq(Operation),
           dataType   : DataTypes \cup {Malformed},
           data       : Datas]

Fields == {"version", "from", "to", "value", "stepLimit", "timestamp", "nid",
           "nonce", "dataType", "data", "signature"}

\* Mutant of HashedFields: the kind of call is not hashed.
HashedFieldsButDataType == Fields \ {"signature", "dataType"}

\* What CalcHash writes into the hash, and what ToJSON sends to the node.
HashedFields == Fields \ {"signature"}

SentFields == Fields

Terms == [version : {3}, from : Accounts, to : Accounts, value : Nat \cup {None},
          stepLimit : Nat, timestamp : Nat, nid : {Nid}, nonce : {1},
          dataType : DataTypes, data : Datas]

Signature == [key : Keys, hash : Terms]

Transaction == [version : {3}, from : Accounts, to : Accounts,
                value : Nat \cup {None}, stepLimit : Nat, timestamp : Nat,
                nid : {Nid}, nonce : {1}, dataType : DataTypes, data : Datas,
                signature : Signature \cup {None}]

VARIABLES
  clock,       \* what the time is
  prepared,    \* the payloads that were answered
  signatures,  \* the signatures that the wallets made
  signed,      \* the signed transactions that were answered
  onWire,      \* transactions whose submit was given up before the node took them
  taken,       \* the transactions that the node took
  req          \* the local variables of the handler of each request

vars == <<clock, prepared, signatures, signed, onWire, taken, req>>

-------------------------------------------------------------------------------
(* Hashes and signatures.  A hash is the function it is made from: it is    *)
(* the same for two transactions exactly when they agree on those fields.  *)

CalcHash(tx) == [f \in HashedFields |-> tx[f]]

CanHash(tx) == tx.data # "numbers"

TxHash(tx) == IF CanHash(tx) THEN CalcHash(tx) ELSE None

\* The key that is recovered from a signature of something else is nobody's,
\* and none is recovered for the empty hash.
VerifySignature(tx) ==
  /\ tx.signature.hash = TxHash(tx)
  /\ AddressOf[tx.signature.key] = tx.from

ToJSON(tx) == [f \in SentFields |-> tx[f]]

\* The node hashes every field that it is sent, except the signature.
NodeHash(js) == [f \in DOMAIN js \ {"signature"} |-> js[f]]

Authentic(js) ==
  /\ js["signature"] # None
  /\ js["signature"].hash = NodeHash(js)
  /\ AddressOf[js["signature"].key] = js["from"]

\* A transaction that was taken before is refused, so are old ones.
Takes(js) ==
  /\ Authentic(js)
  /\ js["data"] # "numbers"
  /\ js["nid"] = Nid
  /\ clock - js["timestamp"] <= Window
  /\ js \notin taken

-------------------------------------------------------------------------------
(* What payloads and preprocess make of operations.                        *)

\* The operations that a description with this sign matches.
Matching(ops, neg) ==
  {i \in DOMAIN ops :
     /\ ops[i].type = "TRANSFER"
     /\ ops[i].account # None
     /\ ops[i].amount # None
     /\ ops[i].amount.neg = neg
     /\ ops[i].amount.abs > 0}

\* parser.MatchOperations of the SDK: one debit, one credit, in either order.
MatchOperations(ops) ==
  /\ Len(ops) = 2
  /\ Matching(ops, TRUE) # {}
  /\ Matching(ops, FALSE) # {}

First(ops, neg) == ops[CHOOSE i \in Matching(ops, neg) : TRUE]

CheckAddress(address) == address \in Accounts

\* Mutant of PreprocessError: only the sender's address is checked.
PreprocessErrorFrom(intent) ==
  LET ops == intent.operations
  IN IF ~MatchOperations(ops) THEN "ErrUnclearIntent"
     ELSE IF CheckAddress(First(ops, TRUE).account) THEN None
     ELSE "ErrInvalidAddress"

PreprocessError(intent) ==
  LET ops == intent.operations
  IN IF ~MatchOperations(ops) THEN "ErrUnclearIntent"
     ELSE IF /\ CheckAddress(First(ops, TRUE).account)
             /\ CheckAddress(First(ops, FALSE).account) THEN None
     ELSE "ErrInvalidAddress"

\* A contract call whose first amount is 0: only there the operations are
\* rewritten, so that they match.
IsZero(intent) ==
  intent.dataType # None /\ intent.operations[1].amount = Zero

Rewritten(intent) ==
  IF IsZero(intent)
  THEN [intent.operations EXCEPT ![1].amount = MinusOne, ![2].amount = PlusOne]
  ELSE intent.operations

Panic == "panic"   \* a nil pointer is dereferenced, or goloop panics

\* How the handler ends before it calls the node; None if it calls it.
PayloadsError(intent) ==
  LET ops == intent.operations
  IN IF ops[1].amount = None THEN Panic
     ELSE IF intent.dataType = Malformed
       THEN "ErrUnableToParseIntermediateResult"
     ELSE IF IsZero(intent) /\ (Len(ops) < 2 \/ ops[2].amount = None) THEN Panic
     ELSE IF ~MatchOperations(Rewritten(intent)) THEN "ErrUnclearIntent"
     ELSE IF Malformed \in {First(Rewritten(intent), neg).account : neg \in BOOLEAN}
       THEN Panic
     ELSE None

TransferStepCost == 100000   \* the step limit until the node has estimated one

\* A transaction from the account of the debit to that of the credit.
Transfer(intent, value) ==
  LET ops == Rewritten(intent)
  IN [version |-> 3, from |-> First(ops, TRUE).account,
      to |-> First(ops, FALSE).account, value |-> value,
      stepLimit |-> TransferStepCost, timestamp |-> clock, nid |-> Nid, nonce |-> 1,
      dataType |-> intent.dataType, data |-> intent.data, signature |-> None]

\* Mutant of NewTransaction: the 1 of a rewritten contract call is sent.
NewTransactionUnreset(intent) ==
  Transfer(intent, First(Rewritten(intent), FALSE).amount.abs)

\* Mutant of NewTransaction: the value is that of the debit.
NewTransactionOfDebit(intent) ==
  Transfer(intent, IF IsZero(intent) THEN 0
                   ELSE First(Rewritten(intent), TRUE).amount.abs)

NewTransaction(intent) ==
  Transfer(intent, IF IsZero(intent) THEN 0
                   ELSE First(Rewritten(intent), FALSE).amount.abs)

-------------------------------------------------------------------------------
(* What parse makes of a transaction.                                      *)

Values(tx) == IF tx.value = None THEN 0 ELSE tx.value

\* The sign of the debit is a character in front of the value.
ParsedOperations(tx) ==
  << [type |-> "TRANSFER", account |-> tx.from,
      amount |-> [neg |-> TRUE, abs |-> Values(tx)]],
     [type |-> "TRANSFER", account |-> tx.to,
      amount |-> [neg |-> FALSE, abs |-> Values(tx)]] >>

Parsed(tx, isSigned) ==
  [operations |-> ParsedOperations(tx), signers |-> IF isSigned THEN {tx.from} ELSE {}]

-------------------------------------------------------------------------------
(* Handlers.                                                               *)

Endpoints == {"derive", "preprocess", "metadata", "payloads", "combine", "hash",
              "parse", "submit"}

ErrorNames == {"ErrUnavailableOffline", "ErrUnableToDecompressPubkey",
               "ErrUnclearIntent", "ErrUnableToParseIntermediateResult",
               "ErrSignatureInvalid", "ErrBroadcastFailed", "ErrInvalidAddress"}

Answer == Accounts \cup Terms \cup [operations : Seq(Operation), signers : SUBSET Accounts]

Handler ==
  [pc       : {"idle", "estimate", "send", "answered", "failed", "aborted"},
   endpoint : Endpoints \cup {None},
   mode     : Modes \cup {None},     \* that of the process it runs in
   input    : Intents \cup Transaction \cup Keys \cup Accounts \cup {Malformed, None},
   tx       : Transaction \cup {None},
   answer   : Answer \cup {None},
   error    : ErrorNames \cup {None}]

ASSUME ConstructionAssumption ==
  /\ Modes \subseteq {"ONLINE", "OFFLINE"}
  /\ AddressOf \in [Keys -> Accounts]
  /\ \A k1, k2 \in Keys : AddressOf[k1] = AddressOf[k2] => k1 = k2
  /\ {Malformed, None} \cap Accounts = {}
  /\ Malformed # None
  /\ None \notin Nat \cup Terms \cup Signature \cup Transaction
  /\ None \notin Endpoints \cup ErrorNames \cup {Panic}
  /\ Intents \subseteq {i \in Intent : i.operations # << >>}
  /\ Foreign \subseteq {tx \in Transaction : tx.signature = None}
  /\ Estimates \subseteq Nat
  /\ {Window, MaxClock, MaxPrepared, MaxSigned} \subseteq Nat

Idle == [pc |-> "idle", endpoint |-> None, mode |-> None, input |-> None, tx |-> None,
         answer |-> None, error |-> None]

Payload == [tx : Transaction, account : Accounts, bytes : Terms, intent : Intents]

\* What the wallet holds and what the node took keep their types: what payloads
\* hands out can be hashed, and what is submitted was parsed.
TypeOK ==
  /\ clock \in Nat
  /\ prepared \subseteq Payload
  /\ signatures \subseteq Signature
  /\ signed \subseteq {tx \in Transaction : tx.signature # None}
  /\ onWire \subseteq Transaction
  /\ taken \subseteq Transaction
  /\ req \in [Requests -> Handler]

Init ==
  /\ clock = 0
  /\ prepared = {}
  /\ signatures = {}
  /\ signed = {}
  /\ onWire = {}
  /\ taken = {}
  /\ req = [r \in Requests |-> Idle]

Become(r, handler) == req' = [req EXCEPT ![r] = handler]

Arrived(endpoint, mode, input) ==
  [Idle EXCEPT !.endpoint = endpoint, !.mode = mode, !.input = input]

Answered(handler, answer) == [handler EXCEPT !.pc = "answered", !.answer = answer]

\* A handler that ends without an answer: with an error, or in a panic that
\* net/http recovers.
Refused(handler, error) ==
  IF error = Panic THEN [handler EXCEPT !.pc = "aborted"]
  ELSE [handler EXCEPT !.pc = "failed", !.error = error]

\* The unsigned transactions that the wallet holds.
Unsigned == {p.tx : p \in prepared} \cup Foreign

\* A call to the node that fails, with whatever error: the nil *Error that a
\* refusal without a JSON error leaves makes wrapErr panic.
NodeFails(r, error) ==
  \E e \in {error, Panic} : Become(r, Refused(req[r], e))

-------------------------------------------------------------------------------
(* The endpoints that compute their answer at once.                        *)

ConstructionDerive(r) ==
  /\ req[r].pc = "idle"
  /\ \E mode \in Modes, key \in Keys \cup {Malformed} :
       LET arrived == Arrived("derive", mode, key)
       IN Become(r, IF key = Malformed
                    THEN Refused(arrived, "ErrUnableToDecompressPubkey")
                    ELSE Answered(arrived, AddressOf[key]))
  /\ UNCHANGED <<clock, prepared, signatures, signed, onWire, taken>>

ConstructionPreprocess(r) ==
  /\ req[r].pc = "idle"
  /\ \E mode \in Modes, intent \in Intents :
       LET arrived == Arrived("preprocess", mode, intent)
           error == PreprocessError(intent)
       IN Become(r, IF error # None THEN Refused(arrived, error)
                    ELSE Answered(arrived, First(intent.operations, TRUE).account))
  /\ UNCHANGED <<clock, prepared, signatures, signed, onWire, taken>>

\* The options are parsed and not used: the answer is always the step price.
ConstructionMetadata(r) ==
  /\ req[r].pc = "idle"
  /\ \E mode \in Modes, options \in Accounts \cup {Malformed} :
       LET arrived == Arrived("metadata", mode, options)
       IN Become(r, IF mode # "ONLINE" THEN Refused(arrived, "ErrUnavailableOffline")
                    ELSE IF options = Malformed
                      THEN Refused(arrived, "ErrUnableToParseIntermediateResult")
                    ELSE Answered(arrived, None))
  /\ UNCHANGED <<clock, prepared, signatures, signed, onWire, taken>>

\* Any signature may come with any transaction.
ConstructionCombine(r) ==
  /\ req[r].pc = "idle"
  /\ \E mode \in Modes, tx \in Unsigned \cup {Malformed},
        signature \in signatures \cup {Malformed} :
       LET arrived == Arrived("combine", mode, tx)
           signedTx == [tx EXCEPT !.signature = signature]
       IN \/ /\ tx = Malformed
             /\ Become(r, Refused(arrived, "ErrUnableToParseIntermediateResult"))
             /\ UNCHANGED signed
          \/ /\ tx # Malformed
             /\ signature = Malformed
             /\ Become(r, Refused(arrived, "ErrSignatureInvalid"))
             /\ UNCHANGED signed
          \/ /\ tx # Malformed
             /\ signature # Malformed
             /\ ~VerifySignature(signedTx)
             /\ Become(r, Refused(arrived, "ErrUnableToParseIntermediateResult"))
             /\ UNCHANGED signed
          \/ /\ tx # Malformed
             /\ signature # Malformed
             /\ VerifySignature(signedTx)
             /\ Become(r, Answered([arrived EXCEPT !.tx = signedTx], None))
             /\ signed' = signed \cup {signedTx}
  /\ UNCHANGED <<clock, prepared, signatures, onWire, taken>>

ConstructionHash(r) ==
  /\ req[r].pc = "idle"
  /\ \E mode \in Modes, tx \in Unsigned \cup signed \cup {Malformed} :
       LET arrived == Arrived("hash", mode, tx)
       IN Become(r, IF tx = Malformed
                    THEN Refused(arrived, "ErrUnableToParseIntermediateResult")
                    ELSE Answered([arrived EXCEPT !.tx = tx], TxHash(tx)))
  /\ UNCHANGED <<clock, prepared, signatures, signed, onWire, taken>>

\* The wallet says whether the transaction is signed; nobody looks.
ConstructionParse(r) ==
  /\ req[r].pc = "idle"
  /\ \E mode \in Modes, tx \in Unsigned \cup signed \cup {Malformed},
        isSigned \in BOOLEAN :
       LET arrived == Arrived("parse", mode, tx)
       IN Become(r, IF tx = Malformed
                    THEN Refused(arrived, "ErrUnableToParseIntermediateResult")
                    ELSE Answered([arrived EXCEPT !.tx = tx], Parsed(tx, isSigned)))
  /\ UNCHANGED <<clock, prepared, signatures, signed, onWire, taken>>

-------------------------------------------------------------------------------
(* Payloads and submit, which wait for the node.                           *)

\* The time is taken before the node is called, in whatever mode.
ConstructionPayloads(r) ==
  /\ req[r].pc = "idle"
  /\ Cardinality(prepared) < MaxPrepared
  /\ \E mode \in Modes, intent \in Intents :
       LET arrived == Arrived("payloads", mode, intent)
           error == PayloadsError(intent)
       IN Become(r, IF error # None THEN Refused(arrived, error)
                    ELSE [arrived EXCEPT !.pc = "estimate", !.tx = NewTransaction(intent)])
  /\ UNCHANGED <<clock, prepared, signatures, signed, onWire, taken>>

\* Mutant of PayloadOf: the hash is taken before the step limit is set.
PayloadHashedEarly(intent, tx, limit) ==
  [tx |-> [tx EXCEPT !.stepLimit = limit], account |-> tx.from,
   bytes |-> TxHash(tx), intent |-> intent]

PayloadOf(intent, tx, limit) ==
  LET final == [tx EXCEPT !.stepLimit = limit]
  IN [tx |-> final, account |-> tx.from, bytes |-> TxHash(final), intent |-> intent]

\* Mutant of EstimateStep: the error of CalcHash is not looked at.
EstimateStepUnchecked(r) ==
  /\ req[r].pc = "estimate"
  /\ \E limit \in Estimates :
       /\ Become(r, Answered(req[r], None))
       /\ prepared' = prepared \cup {PayloadOf(req[r].input, req[r].tx, limit)}
  /\ UNCHANGED <<clock, signatures, signed, onWire, taken>>

EstimateStep(r) ==
  /\ req[r].pc = "estimate"
  /\ \/ /\ CanHash(req[r].tx)
        /\ \E limit \in Estimates :
             /\ Become(r, Answered(req[r], None))
             /\ prepared' = prepared \cup {PayloadOf(req[r].input, req[r].tx, limit)}
     \/ /\ ~CanHash(req[r].tx)
        /\ Become(r, Refused(req[r], "ErrUnclearIntent"))
        /\ UNCHANGED prepared
     \/ /\ NodeFails(r, "ErrUnableToParseIntermediateResult")
        /\ UNCHANGED prepared
  /\ UNCHANGED <<clock, signatures, signed, onWire, taken>>

ConstructionSubmit(r) ==
  /\ req[r].pc = "idle"
  /\ \E mode \in Modes, tx \in Unsigned \cup signed \cup {Malformed} :
       LET arrived == Arrived("submit", mode, tx)
       IN Become(r, IF mode # "ONLINE" THEN Refused(arrived, "ErrUnavailableOffline")
                    ELSE IF tx = Malformed
                      THEN Refused(arrived, "ErrUnableToParseIntermediateResult")
                    ELSE [arrived EXCEPT !.pc = "send", !.tx = tx])
  /\ UNCHANGED <<clock, prepared, signatures, signed, onWire, taken>>

\* Mutant of SendTransaction: a refusal of the node is answered with the hash.
SendTransactionUnchecked(r) ==
  LET js == ToJSON(req[r].tx)
  IN /\ req[r].pc = "send"
     /\ taken' = IF Takes(js) THEN taken \cup {js} ELSE taken
     /\ Become(r, Answered(req[r], TxHash(req[r].tx)))
     /\ UNCHANGED <<clock, prepared, signatures, signed, onWire>>

\* The node takes the transaction, or refuses it, or the handler sees the call
\* fail while the transaction is still on its way.
SendTransaction(r) ==
  LET js == ToJSON(req[r].tx)
  IN /\ req[r].pc = "send"
     /\ \/ /\ Takes(js)
           /\ taken' = taken \cup {js}
           /\ Become(r, Answered(req[r], TxHash(req[r].tx)))
           /\ UNCHANGED onWire
        \/ /\ NodeFails(r, "ErrBroadcastFailed")
           /\ UNCHANGED <<onWire, taken>>
        \/ /\ NodeFails(r, "ErrBroadcastFailed")
           /\ onWire' = onWire \cup {js}
           /\ UNCHANGED taken
     /\ UNCHANGED <<clock, prepared, signatures, signed>>

Deliver(r) ==
  /\ req[r].pc \in {"answered", "failed", "aborted"}
  /\ Become(r, Idle)
  /\ UNCHANGED <<clock, prepared, signatures, signed, onWire, taken>>

-------------------------------------------------------------------------------
(* The wallets, the node and time.                                         *)

\* A wallet signs the bytes of a payload, or a transaction of another tool.
Sign ==
  /\ Cardinality(signatures) < MaxSigned
  /\ \E key \in Keys, hash \in {p.bytes : p \in prepared}
                                 \cup {NodeHash(tx) : tx \in Foreign} :
       signatures' = signatures \cup {[key |-> key, hash |-> hash]}
  /\ UNCHANGED <<clock, prepared, signed, onWire, taken, req>>

LateArrival ==
  /\ \E js \in onWire :
       /\ onWire' = onWire \ {js}
       /\ taken' = IF Takes(js) THEN taken \cup {js} ELSE taken
  /\ UNCHANGED <<clock, prepared, signatures, signed, req>>

Tick ==
  /\ clock < MaxClock
  /\ clock' = clock + 1
  /\ UNCHANGED <<prepared, signatures, signed, onWire, taken, req>>

Handle(r) ==
  \/ ConstructionDerive(r) \/ ConstructionPreprocess(r) \/ ConstructionMetadata(r)
  \/ ConstructionPayloads(r) \/ EstimateStep(r) \/ ConstructionCombine(r)
  \/ ConstructionHash(r) \/ ConstructionParse(r) \/ ConstructionSubmit(r)
  \/ SendTransaction(r) \/ Deliver(r)

Next == (\E r \in Requests : Handle(r)) \/ Sign \/ LateArrival \/ Tick

Spec == Init /\ [][Next]_vars

-------------------------------------------------------------------------------
(* Properties.                                                             *)

\* What payloads hands out can be completed: a signature over its bytes, made
\* with the key of the account it names, is one that combine accepts for its
\* transaction, although the step limit is only known after the transaction is
\* built, and the bytes are not looked at again.
PayloadsCombine ==
  \A p \in prepared, key \in Keys :
    AddressOf[key] = p.account
      => VerifySignature([p.tx EXCEPT !.signature = [key |-> key, hash |-> p.bytes]])

\* What combine answers, from whichever payment the signature was, the node finds
\* authentic: nothing of what is sent to it is left out of what was signed.
CombinedAuthentic ==
  \A tx \in signed : CanHash(tx) /\ Authentic(ToJSON(tx))

\* The amounts of a transfer are the same number with opposite signs.
Balanced(ops) ==
  MatchOperations(ops) => First(ops, TRUE).amount.abs = First(ops, FALSE).amount.abs

Quantity(amount) == IF amount.neg THEN -amount.abs ELSE amount.abs

Movements(ops) ==
  {<<ops[i].account, Quantity(ops[i].amount)>> : i \in DOMAIN ops}

\* A wallet that parses a transaction before or after signing sees the operations
\* it asked for, also those that payloads rewrote; and for a signed one the
\* account whose key signed it.
ParseConfirms ==
  \A r \in Requests :
    LET tx == req[r].tx
    IN req[r].endpoint = "parse" /\ req[r].pc = "answered" =>
         /\ \A p \in prepared :
              /\ \A f \in HashedFields : tx[f] = p.tx[f]
              /\ Balanced(p.intent.operations)
              /\ ~ (IsZero(p.intent) /\ p.intent.operations[2].amount.abs # 0)
              => Movements(req[r].answer.operations) = Movements(p.intent.operations)
         /\ tx \in signed /\ req[r].answer.signers # {}
              => req[r].answer.signers = {AddressOf[tx.signature.key]}

\* An identifier that submit answers is that of a transaction that the node took,
\* and hash answered the same one for it beforehand.
IdentifiersTaken ==
  \A r \in Requests :
    LET js == ToJSON(req[r].tx)
    IN /\ req[r].endpoint = "submit" /\ req[r].pc = "answered"
            => js \in taken /\ req[r].answer = NodeHash(js)
       /\ req[r].endpoint = "hash" /\ req[r].pc = "answered" /\ js \in taken
            => req[r].answer = NodeHash(js)

\* preprocess and payloads, which each describe the operations for themselves, agree
\* about them: what payloads refuses as unclear, or panics at, preprocess refuses; and
\* what payloads accepts preprocess accepts too, except a contract call with nothing.
PreprocessAgrees ==
  /\ \A r \in Requests :
       /\ req[r].endpoint = "payloads" /\ req[r].tx = None
       /\ req[r].error = "ErrUnclearIntent" \/ req[r].pc = "aborted"
       => PreprocessError(req[r].input) # None
  /\ \A p \in prepared : PreprocessError(p.intent) = None \/ IsZero(p.intent)

\* configuration.go:36-37 has it that in OFFLINE mode "the implementation is not
\* permitted to make outbound connections."
OfflineCallsNoNode ==
  \A r \in Requests :
    req[r].mode = "OFFLINE" => req[r].pc \notin {"estimate", "send"}
===============================================================================
