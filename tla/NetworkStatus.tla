----------------------------- MODULE NetworkStatus -----------------------------
(***************************************************************************)
(* The /network/status endpoint (services/network_service.go, GetBlock and *)
(* GetPeer of icon/client.go, GetMainPReps and GetPRep of                  *)
(* icon/client_v1/client.go).                                              *)
(*                                                                         *)
(* A handler makes five calls to the node and one for each main P-Rep.     *)
(* Between them the chain grows, P-Reps are elected, register anew and     *)
(* change their details, and the node may be stopped and started.          *)
(***************************************************************************)
EXTENDS Integers, Sequences

CONSTANTS
  Requests,     \* the HTTP requests that may be open at one time
  PReps,        \* the addresses of the candidates
  Lists,        \* the lists of main P-Reps that an election may yield
  None,         \* a field that is not set
  MaxHeight,    \* bound: height of the last block the node produces
  MaxElections, \* bound: elections, and changes of details
  MaxStops      \* bound: how often the node is stopped

ASSUME StatusAssumption ==
  /\ Lists \subseteq Seq(PReps)
  /\ << >> \in Lists
  /\ None \notin Nat
  /\ {MaxHeight, MaxElections, MaxStops} \subseteq Nat

VARIABLES
  mode,     \* the MODE the process was started in; never changes
  tip,      \* the height of the node's last block
  elected,  \* the lists of main P-Reps so far, the last one is in office
  ready,    \* whether the node serves queries
  stops,    \* history: how often it was stopped
  req       \* the local variables of the handler of each request

vars == <<mode, tip, elected, ready, stops, req>>

Now == Len(elected)

-------------------------------------------------------------------------------
(* The node.  A block is named by its height, and its timestamp is a       *)
(* function of it.  The details of a P-Rep are those of the moment.        *)

Timestamp(height) == 2 * height

Details == [of : PReps, at : Nat]

ProduceBlock ==
  /\ ready /\ tip < MaxHeight
  /\ tip' = tip + 1
  /\ UNCHANGED <<mode, elected, ready, stops, req>>

Elect ==
  /\ ready /\ Now < MaxElections
  /\ \E list \in Lists : elected' = Append(elected, list)
  /\ UNCHANGED <<mode, tip, ready, stops, req>>

StopNode ==
  /\ ready /\ stops < MaxStops
  /\ ready' = FALSE
  /\ stops' = stops + 1
  /\ UNCHANGED <<mode, tip, elected, req>>

StartNode ==
  /\ ~ready
  /\ ready' = TRUE
  /\ UNCHANGED <<mode, tip, elected, stops, req>>

-------------------------------------------------------------------------------
(* Handlers.                                                               *)

Handler ==
  [pc      : {"idle", "genesis", "genesisReceipts", "last", "lastReceipts", "mainPReps",
              "prep", "answered", "failed", "aborted"},
   since   : Nat,               \* history: the tip when the request arrived
   genesis : Nat \cup {None},   \* index of the genesis block identifier
   current : Nat \cup {None},   \* index of the current block identifier
   time    : Nat \cup {None},   \* its timestamp
   preps   : Seq(PReps),        \* the list that GetPeer goes through
   moment  : Nat,               \* history: the election it is of
   peers   : Seq([id : PReps, details : Details]),
   error   : {"ErrUnavailableOffline", "ErrWrongBlockHash", None}]

Idle == [pc |-> "idle", since |-> 0, genesis |-> None, current |-> None, time |-> None,
         preps |-> << >>, moment |-> 0, peers |-> << >>, error |-> None]

\* The variables keep their types, and no more peers than P-Reps are collected.
TypeOK ==
  /\ mode \in {"ONLINE", "OFFLINE"}
  /\ tip \in Nat
  /\ elected \in Seq(Lists) /\ elected # << >>
  /\ ready \in BOOLEAN
  /\ stops \in Nat
  /\ req \in [Requests -> Handler]
  /\ \A r \in Requests : Len(req[r].peers) <= Len(req[r].preps)

Init ==
  /\ mode \in {"ONLINE", "OFFLINE"}
  /\ tip = 0
  /\ elected \in {<<list>> : list \in Lists}
  /\ ready = TRUE
  /\ stops = 0
  /\ req = [r \in Requests |-> Idle]

Become(r, handler) ==
  /\ req' = [req EXCEPT ![r] = handler]
  /\ UNCHANGED <<mode, tip, elected, ready, stops>>

Abort(r) == Become(r, [req[r] EXCEPT !.pc = "aborted"])

\* Any call may fail; whatever goes wrong while a block is read has one error, or
\* is a panic where a part of the block is missing.
FailBlock(r) ==
  \/ Become(r, [req[r] EXCEPT !.pc = "failed", !.error = "ErrWrongBlockHash"])
  \/ Abort(r)

NetworkStatus(r) ==
  /\ req[r].pc = "idle"
  /\ LET arrived == [Idle EXCEPT !.since = tip]
     IN Become(r, IF mode = "ONLINE" THEN [arrived EXCEPT !.pc = "genesis"]
                  ELSE [arrived EXCEPT !.pc = "failed",
                                       !.error = "ErrUnavailableOffline"])

GetGenesisBlock(r) ==
  /\ req[r].pc = "genesis"
  /\ \/ /\ ready
        /\ Become(r, [req[r] EXCEPT !.pc = "genesisReceipts", !.genesis = 0])
     \/ FailBlock(r)

\* The receipts of either block only complete operations that are not answered.
GetGenesisReceipts(r) ==
  /\ req[r].pc = "genesisReceipts"
  /\ \/ ready /\ Become(r, [req[r] EXCEPT !.pc = "last"])
     \/ FailBlock(r)

\* Mutant of GetLastBlock: the parameters of the genesis block are not replaced.
GetBlockAgain(r) ==
  /\ req[r].pc = "last"
  /\ \/ /\ ready
        /\ Become(r, [req[r] EXCEPT !.pc = "lastReceipts", !.current = 0,
                                    !.time = Timestamp(0)])
     \/ FailBlock(r)

GetLastBlock(r) ==
  /\ req[r].pc = "last"
  /\ \/ /\ ready
        /\ Become(r, [req[r] EXCEPT !.pc = "lastReceipts", !.current = tip,
                                    !.time = Timestamp(tip)])
     \/ FailBlock(r)

GetLastReceipts(r) ==
  /\ req[r].pc = "lastReceipts"
  /\ \/ ready /\ Become(r, [req[r] EXCEPT !.pc = "mainPReps"])
     \/ FailBlock(r)

\* The error of GetPeer is not looked at: the answer then has no peers.  A result
\* without a list, or with an element that has no address, fails a type assertion.
GetMainPReps(r) ==
  /\ req[r].pc = "mainPReps"
  /\ \/ /\ ready
        /\ Become(r, [req[r] EXCEPT !.pc = "prep", !.preps = elected[Now],
                                    !.moment = Now])
     \/ Become(r, [req[r] EXCEPT !.pc = "answered"])
     \/ ready /\ Abort(r)

Index(r) == Len(req[r].peers) + 1

\* Mutant of AddPeer: the list is asked for again before each peer.
AddPeerAsking(r) ==
  LET prep == req[r].preps[Index(r)]
  IN Become(r, [req[r] EXCEPT
       !.peers = Append(@, [id |-> prep, details |-> [of |-> prep, at |-> Now]]),
       !.preps = elected[Now]])

\* The peer at the loop's index, with the details that the node answers now.
AddPeer(r) ==
  LET prep == req[r].preps[Index(r)]
  IN Become(r, [req[r] EXCEPT !.peers =
       Append(@, [id |-> prep, details |-> [of |-> prep, at |-> Now]])])

EndOfList(r) ==
  /\ Index(r) > Len(req[r].preps)
  /\ Become(r, [req[r] EXCEPT !.pc = "answered"])

\* Mutant of GetPRep: the peers so far are answered if a call fails.
GetPRepPartly(r) ==
  /\ req[r].pc = "prep"
  /\ \/ EndOfList(r)
     \/ Index(r) <= Len(req[r].preps) /\ ready /\ AddPeer(r)
     \/ /\ Index(r) <= Len(req[r].preps)
        /\ Become(r, [req[r] EXCEPT !.pc = "answered"])

\* Mutant of GetPRep: a call that fails is repeated.
GetPRepAgain(r) ==
  /\ req[r].pc = "prep"
  /\ \/ EndOfList(r)
     \/ Index(r) <= Len(req[r].preps) /\ ready /\ AddPeer(r)
     \/ Index(r) <= Len(req[r].preps) /\ UNCHANGED vars

\* The error of GetPRep is not looked at either, but its nil answer dereferenced.
GetPRep(r) ==
  /\ req[r].pc = "prep"
  /\ \/ EndOfList(r)
     \/ Index(r) <= Len(req[r].preps) /\ ready /\ AddPeer(r)
     \/ Index(r) <= Len(req[r].preps) /\ Abort(r)

Deliver(r) ==
  /\ req[r].pc \in {"answered", "failed", "aborted"}
  /\ Become(r, Idle)

Proceed(r) ==
  \/ GetGenesisBlock(r) \/ GetGenesisReceipts(r) \/ GetLastBlock(r)
  \/ GetLastReceipts(r) \/ GetMainPReps(r) \/ GetPRep(r)

Next ==
  \/ ProduceBlock \/ Elect \/ StopNode \/ StartNode
  \/ \E r \in Requests : NetworkStatus(r) \/ Proceed(r) \/ Deliver(r)

\* A handler's goroutine is scheduled, and each of its calls returns.
Fairness == \A r \in Requests : WF_vars(Proceed(r))

Spec == Init /\ [][Next]_vars /\ Fairness

-------------------------------------------------------------------------------
(* Properties.                                                             *)

\* The current block that is answered is one of the chain, with its own timestamp,
\* and no older than the tip when the request arrived, although two other calls
\* are made before it is read; the genesis block is the first one.
StatusCurrent ==
  \A r \in Requests : req[r].pc = "answered" =>
    /\ req[r].genesis = 0
    /\ req[r].current \in req[r].since..tip
    /\ req[r].time = Timestamp(req[r].current)

\* The peers are all the main P-Reps of one moment, in the node's order, each with
\* its own details of that moment or a later one; or there are none.
PeersOfOneMoment ==
  \A r \in Requests :
    LET peers == req[r].peers
    IN req[r].pc = "answered" /\ peers # << >> =>
         /\ Len(peers) = Len(elected[req[r].moment])
         /\ \A i \in DOMAIN peers :
              /\ peers[i].id = elected[req[r].moment][i]
              /\ peers[i].details.of = peers[i].id
              /\ peers[i].details.at \in req[r].moment..Now

\* A request ends, however long the list and whatever fails.
StatusEnds ==
  \A r \in Requests :
    req[r].pc = "genesis" ~> req[r].pc \in {"answered", "failed", "aborted"}
===============================================================================
