----------------------------- MODULE AccountBalance -----------------------------
(***************************************************************************)
(* The /account/balance endpoint (services/account_service.go, GetBalance  *)
(* in icon/client.go and icon/client_v1/client.go).                        *)
(*                                                                         *)
(* A handler asks the node for its last block and then, in a second call   *)
(* to the node's debug endpoint, for the account as it is now.  The chain  *)
(* may grow in between, and other handlers run at the same time.           *)
(***************************************************************************)
EXTENDS Integers, Sequences

CONSTANTS
  Requests,   \* the HTTP requests that may be open at one time
  Accounts,   \* the addresses that the node knows
  Malformed,  \* an address that it rejects
  None,       \* a field that is not set
  Initial,    \* what each account holds at the genesis block
  MaxHeight,  \* bound: height of the last block the node produces
  MaxMove     \* bound: largest amount that a block moves

Parts == {"coin", "stake", "unstake"}
Holding == [Parts -> Nat]

ASSUME BalanceAssumption ==
  /\ Malformed \notin Accounts
  /\ None \notin Accounts
  /\ None \notin Nat
  /\ Initial \in [Accounts -> Holding]
  /\ MaxHeight \in Nat
  /\ MaxMove \in Nat

VARIABLES
  mode,           \* the MODE the process was started in; never changes
  debugEndPoint,  \* whether NewClientV3 found one; never changes
  ledger,         \* what each account holds after each block; ledger[h + 1]
  moves,          \* the move that block h made, moves[h]
  req             \* the local variables of the handler of each request

vars == <<mode, debugEndPoint, ledger, moves, req>>

Tip == Len(ledger) - 1

-------------------------------------------------------------------------------
(* The node, which is not this repository's code.  A block transfers coins *)
(* between two accounts, or shifts an account's own coins into its stake,  *)
(* from there to what it is unstaking, and back.                           *)

Move == [from : Accounts, out : Parts, to : Accounts, in : Parts, amount : Nat]

Transfers(m) == m.from # m.to

Shifts == {<<"coin", "stake">>, <<"stake", "unstake">>, <<"unstake", "stake">>,
           <<"unstake", "coin">>}

Possible(m, held) ==
  /\ IF Transfers(m) THEN m.out = "coin" /\ m.in = "coin"
     ELSE <<m.out, m.in>> \in Shifts
  /\ m.amount <= held[m.from][m.out]

Moved(m, held) ==
  [a \in Accounts |-> [p \in Parts |->
     held[a][p]
       - (IF a = m.from /\ p = m.out THEN m.amount ELSE 0)
       + (IF a = m.to /\ p = m.in THEN m.amount ELSE 0)]]

Wants == [from : Accounts, out : Parts, to : Accounts, in : Parts, amount : 1..MaxMove]

ProduceBlock ==
  /\ Tip < MaxHeight
  /\ \E m \in Wants :
       /\ Possible(m, ledger[Tip + 1])
       /\ moves' = Append(moves, m)
       /\ ledger' = Append(ledger, Moved(m, ledger[Tip + 1]))
  /\ UNCHANGED <<mode, debugEndPoint, req>>

-------------------------------------------------------------------------------
(* The debug account that the node sends, and what the code makes of it.   *)

HexIntAdd(x, y) == x + y

\* Mutant of TotalStake: what is being unstaked is forgotten.
StakeOnly(account) == account["stake"]

\* Mutant of TotalStake: what is being unstaked is taken off the stake.
StakeLess(account) == account["stake"] - account["unstake"]

TotalStake(account) == HexIntAdd(account["stake"], account["unstake"])

Balance(account) == HexIntAdd(account["coin"], TotalStake(account))

-------------------------------------------------------------------------------
(* Handlers.                                                               *)

ErrorNames == {"ErrUnavailableOffline", "ErrInvalidAddress"}

Handler ==
  [pc      : {"idle", "getLastBlock", "getAccount", "answered", "failed", "aborted"},
   account : Accounts \cup {Malformed, None},
   since   : Nat,             \* history: the tip when the request arrived
   id      : Nat \cup {None}, \* index of the block identifier answered
   seen    : Nat \cup {None}, \* history: the tip when the account was read
   value   : Nat \cup {None},
   error   : ErrorNames \cup {None}]

Idle == [pc |-> "idle", account |-> None, since |-> 0, id |-> None, seen |-> None,
         value |-> None, error |-> None]

\* The variables keep their types; no balance is ever negative.
TypeOK ==
  /\ mode \in {"ONLINE", "OFFLINE"}
  /\ debugEndPoint \in BOOLEAN
  /\ ledger \in Seq([Accounts -> Holding])
  /\ moves \in Seq(Move)
  /\ req \in [Requests -> Handler]

Init ==
  /\ mode \in {"ONLINE", "OFFLINE"}
  /\ debugEndPoint \in BOOLEAN
  /\ ledger = << Initial >>
  /\ moves = << >>
  /\ req = [r \in Requests |-> Idle]

Become(r, handler) ==
  /\ req' = [req EXCEPT ![r] = handler]
  /\ UNCHANGED <<mode, debugEndPoint, ledger, moves>>

\* Whatever goes wrong in either call is answered with the one error.
Fail(r) ==
  Become(r, [req[r] EXCEPT !.pc = "failed", !.error = "ErrInvalidAddress"])

\* The address is not checked: the node is left to reject a malformed one.
AccountBalance(r) ==
  /\ req[r].pc = "idle"
  /\ \E account \in Accounts \cup {Malformed} :
       LET arrived == [Idle EXCEPT !.account = account, !.since = Tip]
       IN Become(r, IF mode = "ONLINE"
                    THEN [arrived EXCEPT !.pc = "getLastBlock"]
                    ELSE [arrived EXCEPT !.pc = "failed",
                                         !.error = "ErrUnavailableOffline"])

\* Some replies leave an error that holds a nil pointer, for which wrapErr panics.
Abort(r) == Become(r, [req[r] EXCEPT !.pc = "aborted"])

GetLastBlock(r) ==
  /\ req[r].pc = "getLastBlock"
  /\ \/ Become(r, [req[r] EXCEPT !.pc = "getAccount", !.id = Tip])
     \/ Fail(r)
     \/ Abort(r)

\* Mutant of GetAccount: the account is as it was when the request arrived.
GetCachedAccount(r) ==
  LET account == req[r].account
  IN /\ req[r].pc = "getAccount"
     /\ account \in Accounts
     /\ Become(r, [req[r] EXCEPT
          !.pc = "answered",
          !.value = Balance(ledger[req[r].since + 1][account]),
          !.seen = req[r].since])

\* A result without an account, or without one of its amounts, is another nil pointer,
\* that Balance dereferences.
GetAccount(r) ==
  LET account == req[r].account
  IN /\ req[r].pc = "getAccount"
     /\ \/ /\ debugEndPoint
           /\ account \in Accounts
           /\ Become(r, [req[r] EXCEPT !.pc = "answered",
                                       !.value = Balance(ledger[Tip + 1][account]),
                                       !.seen = Tip])
        \/ debugEndPoint /\ Abort(r)
        \/ Fail(r)

Deliver(r) ==
  /\ req[r].pc \in {"answered", "failed", "aborted"}
  /\ Become(r, Idle)

Next ==
  \/ ProduceBlock
  \/ \E r \in Requests :
       AccountBalance(r) \/ GetLastBlock(r) \/ GetAccount(r) \/ Deliver(r)

Spec == Init /\ [][Next]_vars

-------------------------------------------------------------------------------
(* Properties. *)

\* What an account owns, in whatever state of staking.
Owned(account, h) ==
  LET held == ledger[h + 1][account]
  IN held["coin"] + held["stake"] + held["unstake"]

\* The block of an answer and its balance come from two calls, so the balance
\* need not be the one at that block; but it is what the account owned at that
\* block or at a later one of the chain, and the block is no older than the tip
\* was when the request arrived.
BalanceNotOlder ==
  \A r \in Requests : req[r].pc = "answered" =>
    /\ req[r].since <= req[r].id
    /\ \E h \in req[r].id..Tip : req[r].value = Owned(req[r].account, h)

\* The move of block h changes what the account owns.
Touches(account, h) ==
  Transfers(moves[h]) /\ account \in {moves[h].from, moves[h].to}

\* Staking, unstaking and the end of unstaking yield no operation in the blocks,
\* so they must not show in balances either: two answers about an account differ
\* only if a block between the two reads transferred something to or from it.
StakingInvisible ==
  \A r1, r2 \in Requests :
    /\ req[r1].pc = "answered" /\ req[r2].pc = "answered"
    /\ req[r1].account = req[r2].account
    /\ \A h \in (req[r1].seen + 1)..req[r2].seen : ~Touches(req[r1].account, h)
    /\ req[r1].seen <= req[r2].seen
    => req[r1].value = req[r2].value

\* The list of services/errors.go that /network/options publishes.
Errors == {"ErrUnimplemented", "ErrUnavailableOffline", "ErrNotReady",
           "ErrWrongBlockHash"}

\* The published list contains every error that a handler returns, as the comment
\* on Errors in services/errors.go says.
ErrorsPublished ==
  \A r \in Requests : req[r].error \in Errors \cup {None}
===============================================================================
