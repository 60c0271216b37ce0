-------------------------- MODULE AccountBalanceProofs --------------------------
(***************************************************************************)
(* Proofs about AccountBalance, for any requests, accounts, holdings and   *)
(* bounds.  The inductive invariant adds to the types what each handler    *)
(* has read, and that an account nothing was transferred to or from still  *)
(* owns what it did.                                                       *)
(***************************************************************************)
EXTENDS AccountBalance, TLAPS

LedgerOK ==
  /\ ledger \in Seq([Accounts -> Holding])
  /\ moves \in Seq(Move)
  /\ Len(ledger) = Len(moves) + 1

\* Owned and Touches, with the ledger and the moves as arguments.
OwnedIn(c, account, h) ==
  c[h + 1][account]["coin"] + c[h + 1][account]["stake"] + c[h + 1][account]["unstake"]

Untouched(ms, account, h1, h2) ==
  \A h \in (h1 + 1)..h2 :
    ~(Transfers(ms[h]) /\ account \in {ms[h].from, ms[h].to})

Kept(c, ms) ==
  \A a \in Accounts : \A h1, h2 \in Nat :
    h1 <= h2 /\ h2 < Len(c) /\ Untouched(ms, a, h1, h2) =>
      OwnedIn(c, a, h1) = OwnedIn(c, a, h2)

HandlerOK(l, c) ==
  /\ l \in Handler
  /\ l.pc \in {"getLastBlock", "getAccount"} => l.account \in Accounts \cup {Malformed}
  /\ l.pc \in {"getLastBlock", "getAccount", "answered"} => l.since < Len(c)
  /\ l.pc \in {"getAccount", "answered"} =>
       l.id \in Nat /\ l.since <= l.id /\ l.id < Len(c)
  /\ l.pc = "answered" =>
       /\ l.account \in Accounts
       /\ l.seen \in Nat /\ l.id <= l.seen /\ l.seen < Len(c)
       /\ l.value = OwnedIn(c, l.account, l.seen)

IInv ==
  /\ mode \in {"ONLINE", "OFFLINE"}
  /\ debugEndPoint \in BOOLEAN
  /\ LedgerOK
  /\ Kept(ledger, moves)
  /\ req = [r \in Requests |-> req[r]]
  /\ \A r \in Requests : HandlerOK(req[r], ledger)

-------------------------------------------------------------------------------
(* A new block. *)

\* What a move leaves each account with is of the right type, and an account it
\* does not transfer to or from owns what it did.
LEMMA MovedHolding ==
  ASSUME NEW m \in Move, NEW held \in [Accounts -> Holding], Possible(m, held),
         NEW new, new = Moved(m, held)
  PROVE  /\ new \in [Accounts -> Holding]
         /\ \A a \in Accounts :
              ~(Transfers(m) /\ a \in {m.from, m.to}) =>
                new[a]["coin"] + new[a]["stake"] + new[a]["unstake"]
                  = held[a]["coin"] + held[a]["stake"] + held[a]["unstake"]
PROOF
<1>1. /\ m.from \in Accounts /\ m.to \in Accounts /\ m.amount \in Nat
      /\ m.out \in Parts /\ m.in \in Parts
  BY DEF Move
<1>2. m.amount <= held[m.from][m.out]
  BY DEF Possible
<1>3. ASSUME NEW a \in Accounts, NEW p \in Parts
      PROVE  /\ held[a][p] \in Nat
             /\ new[a][p] = held[a][p]
                  - (IF a = m.from /\ p = m.out THEN m.amount ELSE 0)
                  + (IF a = m.to /\ p = m.in THEN m.amount ELSE 0)
             /\ new[a][p] \in Nat
  <2>1. held[a] \in [Parts -> Nat]
    BY DEF Holding
  <2>2. held[a][p] \in Nat
    BY <2>1
  <2>3. new[a][p] = held[a][p]
                  - (IF a = m.from /\ p = m.out THEN m.amount ELSE 0)
                  + (IF a = m.to /\ p = m.in THEN m.amount ELSE 0)
    BY DEF Moved
  <2>4. new[a][p] \in Nat
    <3>1. CASE a = m.from /\ p = m.out
      BY <1>1, <1>2, <2>2, <2>3, <3>1
    <3>2. CASE ~(a = m.from /\ p = m.out)
      BY <1>1, <2>2, <2>3, <3>2
    <3> QED
      BY <3>1, <3>2
  <2> QED
    BY <2>2, <2>3, <2>4
<1>4. new \in [Accounts -> Holding]
  <2>1. new = [a \in Accounts |-> [p \in Parts |-> new[a][p]]]
    BY DEF Moved
  <2>2. \A a \in Accounts : [p \in Parts |-> new[a][p]] \in [Parts -> Nat]
    BY <1>3
  <2> QED
    BY <2>1, <2>2 DEF Holding
<1>5. ASSUME NEW a \in Accounts, ~(Transfers(m) /\ a \in {m.from, m.to})
      PROVE  new[a]["coin"] + new[a]["stake"] + new[a]["unstake"]
               = held[a]["coin"] + held[a]["stake"] + held[a]["unstake"]
  <2>1. "coin" \in Parts /\ "stake" \in Parts /\ "unstake" \in Parts
    BY DEF Parts
  <2>2. CASE a # m.from /\ a # m.to
    BY <1>3, <2>1, <2>2
  <2>3. CASE a = m.from /\ a = m.to
    <3>1. \A p \in Parts :
            /\ held[a][p] \in Nat
            /\ new[a][p] = held[a][p] - (IF p = m.out THEN m.amount ELSE 0)
                                     + (IF p = m.in THEN m.amount ELSE 0)
      BY <1>3, <2>3
    <3>2. /\ new[a]["coin"] = held[a]["coin"]
               - (IF "coin" = m.out THEN m.amount ELSE 0)
               + (IF "coin" = m.in THEN m.amount ELSE 0)
          /\ new[a]["stake"] = held[a]["stake"]
               - (IF "stake" = m.out THEN m.amount ELSE 0)
               + (IF "stake" = m.in THEN m.amount ELSE 0)
          /\ new[a]["unstake"] = held[a]["unstake"]
               - (IF "unstake" = m.out THEN m.amount ELSE 0)
               + (IF "unstake" = m.in THEN m.amount ELSE 0)
      BY <2>1, <3>1
    <3>3. /\ held[a]["coin"] \in Nat /\ held[a]["stake"] \in Nat
          /\ held[a]["unstake"] \in Nat
      BY <2>1, <3>1
    <3>4. /\ m.out = "coin" \/ m.out = "stake" \/ m.out = "unstake"
          /\ m.in = "coin" \/ m.in = "stake" \/ m.in = "unstake"
      BY <1>1 DEF Parts
    <3> QED
      BY <1>1, <3>2, <3>3, <3>4
  <2>4. (a = m.from /\ a = m.to) \/ (a # m.from /\ a # m.to)
    BY <1>5 DEF Transfers
  <2> QED
    BY <2>2, <2>3, <2>4
<1> QED
  BY <1>4, <1>5

LEMMA KeptByBlock ==
  ASSUME NEW c \in Seq([Accounts -> Holding]), NEW ms \in Seq(Move),
         Len(c) = Len(ms) + 1, Kept(c, ms),
         NEW m \in Move, NEW new \in [Accounts -> Holding],
         \A a \in Accounts :
           ~(Transfers(m) /\ a \in {m.from, m.to}) =>
             new[a]["coin"] + new[a]["stake"] + new[a]["unstake"]
               = c[Len(c)][a]["coin"] + c[Len(c)][a]["stake"] + c[Len(c)][a]["unstake"]
  PROVE  /\ Kept(Append(c, new), Append(ms, m))
         /\ \A h \in Nat : h < Len(c) => Append(c, new)[h + 1] = c[h + 1]
PROOF
<1> DEFINE d == Append(c, new)
           ns == Append(ms, m)
<1>1. Len(c) \in Nat /\ Len(ms) \in Nat
  OBVIOUS
<1>2. /\ d \in Seq([Accounts -> Holding]) /\ Len(d) = Len(c) + 1
      /\ \A h \in Nat : h < Len(c) => d[h + 1] = c[h + 1]
      /\ d[Len(c) + 1] = new
  <2>1. \A h \in 1..Len(c) : d[h] = c[h]
    OBVIOUS
  <2> QED
    BY <1>1, <2>1
<1>3. /\ ns \in Seq(Move) /\ Len(ns) = Len(ms) + 1
      /\ \A h \in 1..Len(ms) : ns[h] = ms[h]
      /\ ns[Len(ms) + 1] = m
  OBVIOUS
<1> HIDE DEF d, ns
<1>4. ASSUME NEW a \in Accounts, NEW h1 \in Nat, NEW h2 \in Nat,
             h1 <= h2, h2 < Len(d), Untouched(ns, a, h1, h2)
      PROVE  OwnedIn(d, a, h1) = OwnedIn(d, a, h2)
  <2>1. CASE h2 < Len(c)
    <3>1. Untouched(ms, a, h1, h2)
      <4>1. ASSUME NEW h \in (h1 + 1)..h2
            PROVE  ns[h] = ms[h]
        <5>1. h \in 1..Len(ms)
          BY <1>1, <2>1
        <5> QED
          BY <1>3, <5>1
      <4> QED
        BY <1>4, <4>1 DEF Untouched
    <3>2. OwnedIn(c, a, h1) = OwnedIn(c, a, h2)
      BY <1>4, <2>1, <3>1 DEF Kept
    <3>3. d[h1 + 1] = c[h1 + 1] /\ d[h2 + 1] = c[h2 + 1]
      <4>1. h1 < Len(c)
        BY <1>1, <1>4, <2>1
      <4> QED
        BY <1>2, <2>1, <4>1
    <3> QED
      BY <3>2, <3>3 DEF OwnedIn
  <2>2. CASE h2 = Len(c) /\ h1 < h2
    <3> DEFINE tip == Len(c) - 1
    <3>1. tip \in Nat /\ tip + 1 = Len(c) /\ h1 <= tip /\ tip < Len(c)
      BY <1>1, <2>2
    <3>2. Untouched(ms, a, h1, tip)
      <4>1. ASSUME NEW h \in (h1 + 1)..tip
            PROVE  ns[h] = ms[h] /\ h \in (h1 + 1)..h2
        BY <1>1, <1>3, <2>2
      <4> QED
        BY <1>4, <4>1 DEF Untouched
    <3>3. OwnedIn(c, a, h1) = OwnedIn(c, a, tip)
      BY <3>1, <3>2 DEF Kept
    <3>4. h2 \in (h1 + 1)..h2 /\ ns[h2] = m
      BY <1>1, <1>3, <2>2
    <3>5. ~(Transfers(m) /\ a \in {m.from, m.to})
      BY <1>4, <3>4 DEF Untouched
    <3>6. OwnedIn(d, a, h2) = OwnedIn(c, a, tip)
      BY <1>2, <2>2, <3>1, <3>5 DEF OwnedIn
    <3>7. OwnedIn(d, a, h1) = OwnedIn(c, a, h1)
      BY <1>2, <3>1 DEF OwnedIn
    <3> QED
      BY <3>3, <3>6, <3>7
  <2>3. CASE h1 = h2
    BY <2>3
  <2>4. h2 < Len(c) \/ (h2 = Len(c) /\ h1 < h2) \/ h1 = h2
    BY <1>1, <1>2, <1>4
  <2> QED
    BY <2>1, <2>2, <2>3, <2>4
<1> QED
  BY <1>2, <1>4 DEF Kept, d, ns

LEMMA GrowingKeepsIInv ==
  ASSUME IInv, ProduceBlock
  PROVE  IInv'
PROOF
<1>1. /\ ledger \in Seq([Accounts -> Holding]) /\ moves \in Seq(Move)
      /\ Len(ledger) = Len(moves) + 1 /\ Kept(ledger, moves)
      /\ Tip + 1 = Len(ledger)
  BY DEF IInv, LedgerOK, Tip
<1>2. PICK m \in Wants : /\ Possible(m, ledger[Tip + 1])
                         /\ moves' = Append(moves, m)
                         /\ ledger' = Append(ledger, Moved(m, ledger[Tip + 1]))
  BY DEF ProduceBlock
<1>3. m \in Move
  BY BalanceAssumption DEF Wants, Move
<1> DEFINE new == Moved(m, ledger[Len(ledger)])
<1>4. /\ new \in [Accounts -> Holding]
      /\ \A a \in Accounts :
           ~(Transfers(m) /\ a \in {m.from, m.to}) =>
             new[a]["coin"] + new[a]["stake"] + new[a]["unstake"]
               = ledger[Len(ledger)][a]["coin"] + ledger[Len(ledger)][a]["stake"]
                   + ledger[Len(ledger)][a]["unstake"]
  <2>1. ledger[Len(ledger)] \in [Accounts -> Holding]
    BY <1>1
  <2>2. Possible(m, ledger[Len(ledger)])
    BY <1>1, <1>2
  <2> QED
    BY <1>3, <2>1, <2>2, MovedHolding
<1>5. ledger' = Append(ledger, new) /\ moves' = Append(moves, m)
  BY <1>1, <1>2
<1> HIDE DEF new
<1>6. /\ ledger' \in Seq([Accounts -> Holding]) /\ Len(ledger') = Len(ledger) + 1
       /\ moves' \in Seq(Move) /\ Len(moves') = Len(moves) + 1
  BY <1>1, <1>3, <1>4, <1>5
<1>7. /\ Len(ledger') = Len(moves') + 1 /\ Kept(ledger', moves')
      /\ Len(ledger) < Len(ledger')
      /\ \A h \in Nat : h < Len(ledger) => ledger'[h + 1] = ledger[h + 1]
  <2>1. /\ Kept(Append(ledger, new), Append(moves, m))
        /\ \A h \in Nat : h < Len(ledger) => Append(ledger, new)[h + 1] = ledger[h + 1]
    BY <1>1, <1>3, <1>4, KeptByBlock
  <2> QED
    BY <1>1, <1>5, <1>6, <2>1
<1>8. Len(ledger) \in Nat /\ Len(ledger') \in Nat
  BY <1>1, <1>6
<1>9. ASSUME NEW r \in Requests
      PROVE  HandlerOK(req[r], ledger')
  <2> DEFINE l == req[r]
  <2>1. HandlerOK(l, ledger)
    BY DEF IInv
  <2>2. l.since \in Nat
    BY <2>1 DEF HandlerOK, Handler
  <2> HIDE DEF l
  <2>3. \A h \in Nat : h < Len(ledger) =>
          h < Len(ledger') /\ OwnedIn(ledger', l.account, h) = OwnedIn(ledger, l.account, h)
    BY <1>7, <1>8 DEF OwnedIn
  <2>4. HandlerOK(l, ledger')
    BY <2>1, <2>2, <2>3 DEF HandlerOK
  <2> QED
    BY <2>4 DEF l
<1>10. /\ mode' = mode /\ debugEndPoint' = debugEndPoint /\ req' = req
  BY DEF ProduceBlock
<1> QED
  BY <1>7, <1>9, <1>10, <1>6 DEF IInv, LedgerOK

-------------------------------------------------------------------------------
(* The steps of a handler. *)

LEMMA OneHandler ==
  ASSUME IInv, NEW r \in Requests, NEW l, HandlerOK(l, ledger), Become(r, l)
  PROVE  IInv'
PROOF
<1>1. /\ req' = [req EXCEPT ![r] = l] /\ ledger' = ledger /\ moves' = moves
      /\ mode' = mode /\ debugEndPoint' = debugEndPoint
  BY DEF Become
<1>2. req' = [s \in Requests |-> req'[s]]
  BY <1>1 DEF IInv
<1>3. ASSUME NEW s \in Requests
      PROVE  HandlerOK(req'[s], ledger)
  <2>1. req'[s] = IF s = r THEN l ELSE req[s]
    BY <1>1 DEF IInv
  <2>2. HandlerOK(req[s], ledger)
    BY DEF IInv
  <2> QED
    BY <2>1, <2>2
<1> QED
  BY <1>1, <1>2, <1>3 DEF IInv, LedgerOK

LEMMA FailKeepsIInv ==
  ASSUME IInv, NEW r \in Requests, Fail(r)
  PROVE  IInv'
PROOF
<1> DEFINE l == req[r]
           new == [l EXCEPT !.pc = "failed", !.error = "ErrInvalidAddress"]
<1>1. HandlerOK(l, ledger) /\ l \in Handler
  BY DEF IInv, HandlerOK
<1>2. new \in Handler /\ new.pc = "failed"
  BY <1>1 DEF Handler, ErrorNames
<1> HIDE DEF new
<1>3. HandlerOK(new, ledger)
  BY <1>2 DEF HandlerOK
<1> QED
  BY <1>3, OneHandler DEF Fail, new

LEMMA AbortKeepsIInv ==
  ASSUME IInv, NEW r \in Requests, Abort(r)
  PROVE  IInv'
PROOF
<1> DEFINE l == req[r]
           new == [l EXCEPT !.pc = "aborted"]
<1>1. HandlerOK(l, ledger) /\ l \in Handler
  BY DEF IInv, HandlerOK
<1>2. new \in Handler /\ new.pc = "aborted"
  BY <1>1 DEF Handler
<1> HIDE DEF new
<1>3. HandlerOK(new, ledger)
  BY <1>2 DEF HandlerOK
<1> QED
  BY <1>3, OneHandler DEF Abort, new

LEMMA IdleOK ==
  ASSUME NEW c
  PROVE  Idle \in Handler /\ HandlerOK(Idle, c)
PROOF
<1>1. Idle \in Handler
  BY DEF Idle, Handler
<1>2. Idle.pc = "idle"
  BY DEF Idle
<1> HIDE DEF Idle
<1> QED
  BY <1>1, <1>2 DEF HandlerOK

LEMMA InitOK == Init => IInv
PROOF
<1> SUFFICES ASSUME Init PROVE IInv
  OBVIOUS
<1>1. ledger = << Initial >> /\ moves = << >>
  BY DEF Init
<1>2. LedgerOK
  BY <1>1, BalanceAssumption DEF LedgerOK
<1>3. Kept(ledger, moves)
  <2>1. \A h1, h2 \in Nat : h1 <= h2 /\ h2 < Len(ledger) => h1 = h2
    BY <1>1
  <2> QED
    BY <2>1 DEF Kept
<1>4. req = [r \in Requests |-> Idle]
  BY DEF Init
<1>5. \A r \in Requests : HandlerOK(req[r], ledger)
  BY <1>4, IdleOK
<1> QED
  BY <1>2, <1>3, <1>4, <1>5 DEF Init, IInv

LEMMA AccountBalanceKeepsIInv ==
  ASSUME IInv, NEW r \in Requests, AccountBalance(r)
  PROVE  IInv'
PROOF
<1>1. Tip \in Nat /\ Tip < Len(ledger)
  BY DEF IInv, LedgerOK, Tip
<1>2. PICK account \in Accounts \cup {Malformed} :
        LET arrived == [Idle EXCEPT !.account = account, !.since = Tip]
        IN Become(r, IF mode = "ONLINE"
                     THEN [arrived EXCEPT !.pc = "getLastBlock"]
                     ELSE [arrived EXCEPT !.pc = "failed",
                                          !.error = "ErrUnavailableOffline"])
  BY DEF AccountBalance
<1> DEFINE arrived == [Idle EXCEPT !.account = account, !.since = Tip]
           new == IF mode = "ONLINE" THEN [arrived EXCEPT !.pc = "getLastBlock"]
                  ELSE [arrived EXCEPT !.pc = "failed",
                                       !.error = "ErrUnavailableOffline"]
<1>3. Idle \in Handler
  BY IdleOK
<1>4. /\ new \in Handler /\ new.pc \in {"getLastBlock", "failed"}
      /\ new.account = account /\ new.since = Tip
  BY <1>1, <1>3 DEF Handler, ErrorNames
<1>5. Become(r, new)
  BY <1>2
<1> HIDE DEF new
<1>6. HandlerOK(new, ledger)
  BY <1>1, <1>4 DEF HandlerOK
<1> QED
  BY <1>5, <1>6, OneHandler

LEMMA GetLastBlockKeepsIInv ==
  ASSUME IInv, NEW r \in Requests, GetLastBlock(r)
  PROVE  IInv'
PROOF
<1> DEFINE l == req[r]
           new == [l EXCEPT !.pc = "getAccount", !.id = Tip]
<1>1. CASE Fail(r)
  BY <1>1, FailKeepsIInv
<1>2. CASE Become(r, new)
  <2>1. Tip \in Nat /\ Tip + 1 = Len(ledger)
    BY DEF IInv, LedgerOK, Tip
  <2>2. HandlerOK(l, ledger) /\ l \in Handler /\ l.pc = "getLastBlock"
    BY DEF IInv, HandlerOK, GetLastBlock
  <2>3. /\ l.account \in Accounts \cup {Malformed}
        /\ l.since \in Nat /\ l.since <= Tip /\ l.since < Len(ledger)
    BY <2>1, <2>2 DEF HandlerOK, Handler
  <2>4. /\ new \in Handler /\ new.pc = "getAccount"
        /\ new.account = l.account /\ new.since = l.since /\ new.id = Tip
    BY <2>1, <2>2 DEF Handler
  <2> HIDE DEF new
  <2>5. HandlerOK(new, ledger)
    BY <2>1, <2>3, <2>4 DEF HandlerOK
  <2> QED
    BY <1>2, <2>5, OneHandler
<1>3. CASE Abort(r)
  BY <1>3, AbortKeepsIInv
<1> QED
  BY <1>1, <1>2, <1>3 DEF GetLastBlock

LEMMA GetAccountKeepsIInv ==
  ASSUME IInv, NEW r \in Requests, GetAccount(r)
  PROVE  IInv'
PROOF
<1> DEFINE l == req[r]
           value == Balance(ledger[Tip + 1][l.account])
           answered == [l EXCEPT !.pc = "answered", !.value = value, !.seen = Tip]
<1>1. CASE Fail(r)
  BY <1>1, FailKeepsIInv
<1>2. HandlerOK(l, ledger) /\ l \in Handler /\ l.pc = "getAccount"
  BY DEF IInv, HandlerOK, GetAccount
<1>3. CASE Abort(r)
  BY <1>3, AbortKeepsIInv
<1>4. CASE l.account \in Accounts /\ Become(r, answered)
  <2>1. Tip \in Nat /\ Tip + 1 = Len(ledger) /\ Len(ledger) \in Nat
        /\ Len(ledger) \in DOMAIN ledger
    BY DEF IInv, LedgerOK, Tip
  <2>2. ledger[Tip + 1][l.account] \in Holding
    <3>1. ledger[Tip + 1] \in [Accounts -> Holding]
      BY <2>1 DEF IInv, LedgerOK
    <3> QED
      BY <1>4, <3>1
  <2>3. value \in Nat /\ value = OwnedIn(ledger, l.account, Tip)
    BY <2>2 DEF Holding, Parts, Balance, TotalStake, HexIntAdd, OwnedIn
  <2>4. l.id \in Nat /\ l.since <= l.id /\ l.id < Len(ledger) /\ l.since \in Nat
    BY <1>2 DEF HandlerOK, Handler
  <2> HIDE DEF value
  <2>5. /\ answered \in Handler /\ answered.pc = "answered"
        /\ answered.account = l.account /\ answered.since = l.since
        /\ answered.id = l.id /\ answered.seen = Tip /\ answered.value = value
    BY <1>2, <2>1, <2>3 DEF Handler
  <2> HIDE DEF answered
  <2>6. HandlerOK(answered, ledger)
    BY <1>4, <2>1, <2>3, <2>4, <2>5 DEF HandlerOK
  <2> QED
    BY <1>4, <2>6, OneHandler
<1> QED
  BY <1>1, <1>3, <1>4 DEF GetAccount

LEMMA NextKeepsIInv == IInv /\ [Next]_vars => IInv'
PROOF
<1> SUFFICES ASSUME IInv, [Next]_vars
             PROVE  IInv'
  OBVIOUS
<1>1. CASE ProduceBlock
  BY <1>1, GrowingKeepsIInv
<1>2. ASSUME NEW r \in Requests, AccountBalance(r)
      PROVE  IInv'
  BY <1>2, AccountBalanceKeepsIInv
<1>3. ASSUME NEW r \in Requests, GetLastBlock(r)
      PROVE  IInv'
  BY <1>3, GetLastBlockKeepsIInv
<1>4. ASSUME NEW r \in Requests, GetAccount(r)
      PROVE  IInv'
  BY <1>4, GetAccountKeepsIInv
<1>5. ASSUME NEW r \in Requests, Deliver(r)
      PROVE  IInv'
  BY <1>5, IdleOK, OneHandler DEF Deliver
<1>6. CASE UNCHANGED vars
  BY <1>6 DEF vars, IInv, LedgerOK
<1> QED
  BY <1>1, <1>2, <1>3, <1>4, <1>5, <1>6 DEF Next

-------------------------------------------------------------------------------
(* The theorems. *)

\* Every handler is at every step where IInv says it is, and the ledger keeps
\* what no transfer touches.
THEOREM Invariance == Spec => []IInv
PROOF
<1> QED
  BY InitOK, NextKeepsIInv, PTL DEF Spec

\* The variables keep their types, for any holdings and moves: no balance is
\* ever negative.
THEOREM TypeCorrect == Spec => []TypeOK
PROOF
<1>1. IInv => TypeOK
  <2> SUFFICES ASSUME IInv
               PROVE  TypeOK
    OBVIOUS
  <2>1. \A r \in Requests : req[r] \in Handler
    BY DEF IInv, HandlerOK
  <2>2. req \in [Requests -> Handler]
    BY <2>1 DEF IInv
  <2> QED
    BY <2>2 DEF IInv, LedgerOK, TypeOK
<1> QED
  BY <1>1, Invariance, PTL

\* The balance answered is what the account owned at the block answered with it
\* or at a later one, never at an earlier one, however the chain grows between
\* the two calls to the node.
THEOREM NotOlder == Spec => []BalanceNotOlder
PROOF
<1>1. IInv => BalanceNotOlder
  <2> SUFFICES ASSUME IInv, NEW r \in Requests, req[r].pc = "answered"
               PROVE  /\ req[r].since <= req[r].id
                      /\ \E h \in req[r].id..Tip :
                           req[r].value = Owned(req[r].account, h)
    BY DEF BalanceNotOlder
  <2>1. HandlerOK(req[r], ledger) /\ Len(ledger) \in Nat
    BY DEF IInv, LedgerOK
  <2>2. req[r].seen \in req[r].id..Tip
    BY <2>1 DEF HandlerOK, Tip
  <2>3. req[r].value = Owned(req[r].account, req[r].seen)
    BY <2>1 DEF HandlerOK, OwnedIn, Owned
  <2> QED
    BY <2>1, <2>2, <2>3 DEF HandlerOK
<1> QED
  BY <1>1, Invariance, PTL

\* Whatever an account does with its stake, two answers about it differ only if
\* something was transferred to or from it between the reads.
THEOREM Staking == Spec => []StakingInvisible
PROOF
<1>1. IInv => StakingInvisible
  <2> SUFFICES ASSUME IInv, NEW r1 \in Requests, NEW r2 \in Requests,
                      req[r1].pc = "answered", req[r2].pc = "answered",
                      req[r1].account = req[r2].account,
                      \A h \in (req[r1].seen + 1)..req[r2].seen :
                        ~Touches(req[r1].account, h),
                      req[r1].seen <= req[r2].seen
               PROVE  req[r1].value = req[r2].value
    BY DEF StakingInvisible
  <2>1. HandlerOK(req[r1], ledger) /\ HandlerOK(req[r2], ledger)
    BY DEF IInv
  <2>2. /\ req[r1].seen \in Nat /\ req[r2].seen \in Nat
        /\ req[r2].seen < Len(ledger) /\ req[r1].account \in Accounts
    BY <2>1 DEF HandlerOK
  <2>3. Untouched(moves, req[r1].account, req[r1].seen, req[r2].seen)
    BY DEF Untouched, Touches
  <2>4. OwnedIn(ledger, req[r1].account, req[r1].seen)
          = OwnedIn(ledger, req[r1].account, req[r2].seen)
    BY <2>2, <2>3 DEF IInv, Kept
  <2> QED
    BY <2>1, <2>4 DEF HandlerOK
<1> QED
  BY <1>1, Invariance, PTL
===============================================================================
