-------------------------- MODULE NetworkStatusProofs --------------------------
(***************************************************************************)
(* Proofs about NetworkStatus, for any requests, lists of P-Reps and       *)
(* bounds.  The invariant says at each step of a handler what it has read: *)
(* the blocks, and the first peers of the list that was elected at its     *)
(* moment.                                                                 *)
(***************************************************************************)
EXTENDS NetworkStatus, TLAPS

NodeOK ==
  /\ mode \in {"ONLINE", "OFFLINE"}
  /\ tip \in Nat
  /\ elected \in Seq(Lists) /\ elected # << >>
  /\ ready \in BOOLEAN
  /\ stops \in Nat

\* The current block, once it was read from a chain with this tip.
BlocksRead(l, height) ==
  /\ l.genesis = 0
  /\ l.current \in l.since..height
  /\ l.time = Timestamp(l.current)

\* The peers so far: those of the first elements of the list of a moment.
PeersRead(l, es) ==
  /\ l.moment \in 1..Len(es)
  /\ l.preps = es[l.moment]
  /\ Len(l.peers) <= Len(l.preps)
  /\ \A i \in DOMAIN l.peers :
       /\ l.peers[i].id = l.preps[i]
       /\ l.peers[i].details.of = l.peers[i].id
       /\ l.peers[i].details.at \in l.moment..Len(es)

\* Before the list of P-Reps is answered there is no peer.
Reading == {"idle", "genesis", "genesisReceipts", "last", "lastReceipts", "mainPReps"}

HandlerOK(l, height, es) ==
  /\ l \in Handler
  /\ l.since <= height
  /\ l.pc \in {"genesisReceipts", "last"} => l.genesis = 0
  /\ l.pc \in {"lastReceipts", "mainPReps", "prep", "answered"} => BlocksRead(l, height)
  /\ l.pc \in Reading => l.peers = << >>
  /\ l.peers # << >> \/ l.pc = "prep" => PeersRead(l, es)
  /\ l.pc = "answered" /\ l.peers # << >> => Len(l.peers) = Len(l.preps)

IInv ==
  /\ NodeOK
  /\ req = [r \in Requests |-> req[r]]
  /\ \A r \in Requests : HandlerOK(req[r], tip, elected)

-------------------------------------------------------------------------------
(* The node. *)

\* What a handler has read stays right when blocks and elections are added.
LEMMA HandlerStays ==
  ASSUME NEW l, NEW h1 \in Nat, NEW h2 \in Nat, h1 <= h2,
         NEW es \in Seq(Lists), NEW list \in Lists, HandlerOK(l, h1, es)
  PROVE  HandlerOK(l, h2, es) /\ HandlerOK(l, h1, Append(es, list))
PROOF
<1>1. l.since \in Nat /\ l.moment \in Nat
  BY DEF HandlerOK, Handler
<1>2. BlocksRead(l, h1) => BlocksRead(l, h2)
  BY <1>1 DEF BlocksRead
<1>3. PeersRead(l, es) => PeersRead(l, Append(es, list))
  <2> SUFFICES ASSUME PeersRead(l, es)
               PROVE  PeersRead(l, Append(es, list))
    OBVIOUS
  <2>1. /\ Len(Append(es, list)) = Len(es) + 1 /\ Len(es) \in Nat
        /\ Append(es, list)[l.moment] = es[l.moment]
    BY DEF PeersRead
  <2> QED
    BY <1>1, <2>1 DEF PeersRead
<1> QED
  BY <1>1, <1>2, <1>3 DEF HandlerOK

LEMMA NodeKeeps ==
  ASSUME IInv, ProduceBlock \/ Elect \/ StopNode \/ StartNode
  PROVE  IInv'
PROOF
<1>1. CASE ProduceBlock
  <2>1. tip \in Nat /\ tip' = tip + 1 /\ elected' = elected /\ req' = req
    BY <1>1 DEF ProduceBlock, IInv, NodeOK
  <2>2. PICK list : list \in Lists
    BY StatusAssumption
  <2>3. ASSUME NEW r \in Requests
        PROVE  HandlerOK(req[r], tip + 1, elected)
    <3>1. HandlerOK(req[r], tip, elected) /\ elected \in Seq(Lists)
      BY DEF IInv, NodeOK
    <3>2. tip + 1 \in Nat /\ tip <= tip + 1
      BY <2>1
    <3> QED
      BY <2>1, <2>2, <3>1, <3>2, HandlerStays
  <2> QED
    BY <1>1, <2>1, <2>3 DEF ProduceBlock, IInv, NodeOK
<1>2. CASE Elect
  <2>1. PICK list \in Lists : elected' = Append(elected, list)
    BY <1>2 DEF Elect
  <2>2. elected \in Seq(Lists) /\ tip \in Nat /\ tip' = tip /\ req' = req
    BY <1>2 DEF Elect, IInv, NodeOK
  <2>3. \A r \in Requests : HandlerOK(req[r], tip, elected')
    BY <2>1, <2>2, HandlerStays DEF IInv
  <2>4. elected' \in Seq(Lists) /\ elected' # << >>
    BY <2>1, <2>2
  <2> QED
    BY <1>2, <2>2, <2>3, <2>4 DEF Elect, IInv, NodeOK
<1>3. CASE StopNode
  <2>1. ready' \in BOOLEAN /\ mode' = mode /\ tip' = tip /\ elected' = elected /\ req' = req
    BY <1>3 DEF StopNode
  <2>2. stops' \in Nat
    BY <1>3 DEF StopNode, IInv, NodeOK
  <2> QED
    BY <2>1, <2>2 DEF IInv, NodeOK
<1>4. CASE StartNode
  BY <1>4 DEF StartNode, IInv, NodeOK
<1> QED
  BY <1>1, <1>2, <1>3, <1>4

-------------------------------------------------------------------------------
(* Handlers. *)

\* A step that leaves a handler right keeps the invariant.
LEMMA BecomeKeeps ==
  ASSUME IInv, NEW r \in Requests, NEW l, HandlerOK(l, tip, elected), Become(r, l)
  PROVE  IInv'
PROOF
  BY DEF IInv, NodeOK, Become

\* A handler that moves on with what it has read so far is still right.
LEMMA MovesOn ==
  ASSUME NEW l, NEW k, NEW height, NEW es, HandlerOK(l, height, es), k \in Handler,
         k.since = l.since, k.peers = l.peers, k.preps = l.preps, k.moment = l.moment,
         k.pc \in Reading => l.pc \in Reading,
         k.pc \in {"genesisReceipts", "last"} => k.genesis = 0,
         k.pc \in {"lastReceipts", "mainPReps"} => BlocksRead(k, height),
         k.pc \notin {"prep", "answered"}
  PROVE  HandlerOK(k, height, es)
PROOF
<1>1. PeersRead(l, es) => PeersRead(k, es)
  BY DEF PeersRead
<1> QED
  BY <1>1 DEF HandlerOK

LEMMA AbortKeeps ==
  ASSUME IInv, NEW r \in Requests, Abort(r)
  PROVE  IInv'
PROOF
<1>1. HandlerOK([req[r] EXCEPT !.pc = "aborted"], tip, elected)
  <2> DEFINE l == req[r]
             k == [l EXCEPT !.pc = "aborted"]
  <2>1. HandlerOK(l, tip, elected) /\ l \in Handler
    BY DEF IInv, HandlerOK
  <2>2. k \in Handler
    BY <2>1 DEF Handler
  <2>3. /\ k.pc = "aborted" /\ k.since = l.since /\ k.peers = l.peers
        /\ k.preps = l.preps /\ k.moment = l.moment
    BY <2>1 DEF Handler
  <2> QED
    BY <2>1, <2>2, <2>3, MovesOn DEF Reading
<1> QED
  BY <1>1, BecomeKeeps DEF Abort

LEMMA FailBlockKeeps ==
  ASSUME IInv, NEW r \in Requests, FailBlock(r)
  PROVE  IInv'
PROOF
<1>1. HandlerOK([req[r] EXCEPT !.pc = "failed", !.error = "ErrWrongBlockHash"], tip, elected)
  <2> DEFINE l == req[r]
             k == [l EXCEPT !.pc = "failed", !.error = "ErrWrongBlockHash"]
  <2>1. HandlerOK(l, tip, elected) /\ l \in Handler
    BY DEF IInv, HandlerOK
  <2>2. k \in Handler
    BY <2>1 DEF Handler
  <2>3. /\ k.pc = "failed" /\ k.since = l.since /\ k.peers = l.peers
        /\ k.preps = l.preps /\ k.moment = l.moment
    BY <2>1 DEF Handler
  <2> QED
    BY <2>1, <2>2, <2>3, MovesOn DEF Reading
<1> QED
  BY <1>1, AbortKeeps, BecomeKeeps DEF FailBlock

LEMMA IdleOK ==
  ASSUME IInv
  PROVE  HandlerOK(Idle, tip, elected)
PROOF
  BY StatusAssumption DEF IInv, NodeOK, HandlerOK, Handler, Idle

LEMMA NetworkStatusKeeps ==
  ASSUME IInv, NEW r \in Requests, NetworkStatus(r)
  PROVE  IInv'
PROOF
<1>1. HandlerOK(Idle, tip, elected) /\ tip \in Nat
  BY IdleOK DEF IInv, NodeOK
<1>2. /\ HandlerOK([Idle EXCEPT !.since = tip, !.pc = "genesis"], tip, elected)
      /\ HandlerOK([Idle EXCEPT !.since = tip, !.pc = "failed",
                                !.error = "ErrUnavailableOffline"], tip, elected)
  <2> DEFINE online  == [Idle EXCEPT !.since = tip, !.pc = "genesis"]
             offline == [Idle EXCEPT !.since = tip, !.pc = "failed",
                                     !.error = "ErrUnavailableOffline"]
  <2>1. Idle \in Handler
    BY <1>1 DEF HandlerOK
  <2>2. online \in Handler /\ offline \in Handler
    BY <1>1, <2>1 DEF Handler
  <2>3. /\ online.pc = "genesis" /\ online.since = tip /\ online.peers = << >>
        /\ offline.pc = "failed" /\ offline.since = tip /\ offline.peers = << >>
    BY DEF Idle
  <2> QED
    BY <1>1, <2>2, <2>3 DEF HandlerOK
<1>3. [[Idle EXCEPT !.since = tip] EXCEPT !.pc = "genesis"]
        = [Idle EXCEPT !.since = tip, !.pc = "genesis"]
  OBVIOUS
<1>4. [[Idle EXCEPT !.since = tip] EXCEPT !.pc = "failed", !.error = "ErrUnavailableOffline"]
        = [Idle EXCEPT !.since = tip, !.pc = "failed", !.error = "ErrUnavailableOffline"]
  OBVIOUS
<1> QED
  BY <1>2, <1>3, <1>4, BecomeKeeps DEF NetworkStatus

LEMMA BlockStepsKeep ==
  ASSUME IInv, NEW r \in Requests,
         GetGenesisBlock(r) \/ GetGenesisReceipts(r) \/ GetLastBlock(r) \/ GetLastReceipts(r)
  PROVE  IInv'
PROOF
<1> DEFINE l == req[r]
<1>1. HandlerOK(l, tip, elected) /\ tip \in Nat
  BY DEF IInv, NodeOK
<1>2. CASE GetGenesisBlock(r)
  <2>1. l.pc = "genesis" => HandlerOK([l EXCEPT !.pc = "genesisReceipts", !.genesis = 0], tip, elected)
    <3> SUFFICES ASSUME l.pc = "genesis"
                 PROVE  HandlerOK([l EXCEPT !.pc = "genesisReceipts", !.genesis = 0], tip, elected)
      OBVIOUS
    <3> DEFINE k == [l EXCEPT !.pc = "genesisReceipts", !.genesis = 0]
    <3>1. l \in Handler /\ HandlerOK(l, tip, elected)
      BY <1>1 DEF HandlerOK
    <3>2. k \in Handler
      BY <3>1 DEF Handler
    <3>3. /\ k.pc = "genesisReceipts" /\ k.since = l.since /\ k.peers = l.peers
          /\ k.preps = l.preps /\ k.moment = l.moment /\ k.genesis = 0
      BY <3>1 DEF Handler
    <3> QED
      BY <3>1, <3>2, <3>3, MovesOn DEF Reading
  <2> QED
    BY <1>2, <2>1, FailBlockKeeps, BecomeKeeps DEF GetGenesisBlock
<1>3. CASE GetGenesisReceipts(r)
  <2>1. l.pc = "genesisReceipts" => HandlerOK([l EXCEPT !.pc = "last"], tip, elected)
    <3> SUFFICES ASSUME l.pc = "genesisReceipts"
                 PROVE  HandlerOK([l EXCEPT !.pc = "last"], tip, elected)
      OBVIOUS
    <3> DEFINE k == [l EXCEPT !.pc = "last"]
    <3>1. l \in Handler /\ HandlerOK(l, tip, elected) /\ l.genesis = 0
      BY <1>1 DEF HandlerOK
    <3>2. k \in Handler
      BY <3>1 DEF Handler
    <3>3. /\ k.pc = "last" /\ k.since = l.since /\ k.peers = l.peers
          /\ k.preps = l.preps /\ k.moment = l.moment /\ k.genesis = l.genesis
      BY <3>1 DEF Handler
    <3> QED
      BY <3>1, <3>2, <3>3, MovesOn DEF Reading
  <2> QED
    BY <1>3, <2>1, FailBlockKeeps, BecomeKeeps DEF GetGenesisReceipts
<1>4. CASE GetLastBlock(r)
  <2>1. l.pc = "last" =>
          HandlerOK([l EXCEPT !.pc = "lastReceipts", !.current = tip,
                              !.time = Timestamp(tip)], tip, elected)
    <3> SUFFICES ASSUME l.pc = "last"
                 PROVE  HandlerOK([l EXCEPT !.pc = "lastReceipts", !.current = tip,
                                            !.time = Timestamp(tip)], tip, elected)
      OBVIOUS
    <3> DEFINE k == [l EXCEPT !.pc = "lastReceipts", !.current = tip, !.time = Timestamp(tip)]
    <3>1. /\ l \in Handler /\ l.since <= tip /\ l.genesis = 0 /\ l.peers = << >>
          /\ l.since \in Nat
      BY <1>1 DEF HandlerOK, Handler, Reading
    <3>2. Timestamp(tip) \in Nat /\ tip \in l.since..tip
      BY <1>1, <3>1 DEF Timestamp
    <3>3. k \in Handler
      BY <1>1, <3>1, <3>2 DEF Handler
    <3>4. /\ k.pc = "lastReceipts" /\ k.current = tip /\ k.time = Timestamp(tip)
          /\ k.since = l.since /\ k.genesis = l.genesis /\ k.peers = l.peers
      BY <3>1 DEF Handler
    <3> QED
      BY <3>1, <3>2, <3>3, <3>4 DEF HandlerOK, BlocksRead
  <2> QED
    BY <1>4, <2>1, FailBlockKeeps, BecomeKeeps DEF GetLastBlock
<1>5. CASE GetLastReceipts(r)
  <2>1. l.pc = "lastReceipts" => HandlerOK([l EXCEPT !.pc = "mainPReps"], tip, elected)
    <3> SUFFICES ASSUME l.pc = "lastReceipts"
                 PROVE  HandlerOK([l EXCEPT !.pc = "mainPReps"], tip, elected)
      OBVIOUS
    <3> DEFINE k == [l EXCEPT !.pc = "mainPReps"]
    <3>1. l \in Handler /\ HandlerOK(l, tip, elected) /\ BlocksRead(l, tip)
      BY <1>1 DEF HandlerOK
    <3>2. k \in Handler
      BY <3>1 DEF Handler
    <3>3. /\ k.pc = "mainPReps" /\ k.since = l.since /\ k.peers = l.peers
          /\ k.preps = l.preps /\ k.moment = l.moment
          /\ k.genesis = l.genesis /\ k.current = l.current /\ k.time = l.time
      BY <3>1 DEF Handler
    <3>4. BlocksRead(k, tip)
      BY <3>1, <3>3 DEF BlocksRead
    <3> QED
      BY <3>1, <3>2, <3>3, <3>4, MovesOn DEF Reading
  <2> QED
    BY <1>5, <2>1, FailBlockKeeps, BecomeKeeps DEF GetLastReceipts
<1> QED
  BY <1>2, <1>3, <1>4, <1>5

\* The list is read before any peer.
LEMMA GetMainPRepsKeeps ==
  ASSUME IInv, NEW r \in Requests, GetMainPReps(r)
  PROVE  IInv'
PROOF
<1> DEFINE l == req[r]
<1>1. HandlerOK(l, tip, elected) /\ elected \in Seq(Lists) /\ elected # << >>
  BY DEF IInv, NodeOK
<1>2. Now \in 1..Len(elected) /\ Now \in Nat /\ elected[Now] \in Seq(PReps)
  BY <1>1, StatusAssumption DEF Now
<1>3. CASE l.pc = "mainPReps"
  <2> DEFINE k == [l EXCEPT !.pc = "prep", !.preps = elected[Now], !.moment = Now]
             m == [l EXCEPT !.pc = "answered"]
  <2>1. l \in Handler /\ l.since <= tip /\ BlocksRead(l, tip) /\ l.peers = << >>
    BY <1>1, <1>3 DEF HandlerOK, Reading
  <2>2. k \in Handler /\ m \in Handler
    BY <1>2, <2>1 DEF Handler
  <2>3. /\ k.pc = "prep" /\ k.preps = elected[Now] /\ k.moment = Now /\ k.peers = l.peers
        /\ k.since = l.since /\ k.genesis = l.genesis /\ k.current = l.current
        /\ k.time = l.time
    BY <2>1 DEF Handler
  <2>4. /\ m.pc = "answered" /\ m.peers = l.peers /\ m.since = l.since
        /\ m.genesis = l.genesis /\ m.current = l.current /\ m.time = l.time
    BY <2>1 DEF Handler
  <2>5. BlocksRead(k, tip) /\ BlocksRead(m, tip)
    BY <2>1, <2>3, <2>4 DEF BlocksRead
  <2>6. PeersRead(k, elected)
    BY <1>2, <2>1, <2>3 DEF PeersRead
  <2>7. HandlerOK(k, tip, elected)
    BY <2>1, <2>2, <2>3, <2>5, <2>6 DEF HandlerOK, Reading
  <2>8. HandlerOK(m, tip, elected)
    BY <2>1, <2>2, <2>4, <2>5 DEF HandlerOK, Reading
  <2> QED
    BY <2>7, <2>8, AbortKeeps, BecomeKeeps DEF GetMainPReps
<1> QED
  BY <1>3 DEF GetMainPReps

\* A peer is the one at the index of the list that follows those so far.
LEMMA AddPeerKeeps ==
  ASSUME IInv, NEW r \in Requests, req[r].pc = "prep",
         Index(r) <= Len(req[r].preps), AddPeer(r)
  PROVE  IInv'
PROOF
<1> DEFINE l == req[r]
           prep == l.preps[Index(r)]
           peer == [id |-> prep, details |-> [of |-> prep, at |-> Now]]
           k == [l EXCEPT !.peers = Append(l.peers, peer)]
<1>1. /\ HandlerOK(l, tip, elected) /\ elected \in Seq(Lists) /\ elected # << >>
      /\ l \in Handler /\ l.since <= tip /\ BlocksRead(l, tip) /\ PeersRead(l, elected)
  BY DEF IInv, NodeOK, HandlerOK
<1>2. /\ l.preps \in Seq(PReps) /\ l.moment \in Nat
      /\ l.peers \in Seq([id : PReps, details : Details])
  BY <1>1 DEF Handler
<1>3. Len(l.peers) \in Nat /\ Len(l.preps) \in Nat /\ Len(elected) \in Nat
  BY <1>1, <1>2
<1>4. Index(r) \in 1..Len(l.preps) /\ Index(r) = Len(l.peers) + 1
  BY <1>3 DEF Index
<1>5. prep \in PReps /\ Now \in Nat /\ Now \in l.moment..Len(elected)
  BY <1>1, <1>2, <1>3, <1>4 DEF Now, PeersRead
<1>6. peer \in [id : PReps, details : Details]
  BY <1>5 DEF Details
<1> HIDE DEF peer
<1>7. /\ Append(l.peers, peer) \in Seq([id : PReps, details : Details])
      /\ Len(Append(l.peers, peer)) = Len(l.peers) + 1
      /\ \A i \in 1..Len(l.peers) : Append(l.peers, peer)[i] = l.peers[i]
      /\ Append(l.peers, peer)[Len(l.peers) + 1] = peer
  BY <1>2, <1>6
<1>8. k \in Handler
  BY <1>1, <1>7 DEF Handler
<1>9. /\ k.pc = "prep" /\ k.preps = l.preps /\ k.moment = l.moment
      /\ k.peers = Append(l.peers, peer) /\ k.since = l.since
      /\ k.genesis = l.genesis /\ k.current = l.current /\ k.time = l.time
  BY <1>1 DEF Handler
<1>10. peer.id = prep /\ peer.details.of = peer.id /\ peer.details.at = Now
  BY DEF peer
<1> HIDE DEF k
<1>11. ASSUME NEW i \in DOMAIN k.peers
       PROVE  /\ k.peers[i].id = k.preps[i]
              /\ k.peers[i].details.of = k.peers[i].id
              /\ k.peers[i].details.at \in k.moment..Len(elected)
  <2>1. i \in 1..(Len(l.peers) + 1)
    BY <1>7, <1>9
  <2>2. CASE i \in 1..Len(l.peers)
    <3>1. k.peers[i] = l.peers[i] /\ i \in DOMAIN l.peers
      BY <1>2, <1>7, <1>9, <2>2
    <3> QED
      BY <1>1, <1>9, <3>1 DEF PeersRead
  <2>3. CASE i = Len(l.peers) + 1
    <3>1. k.peers[i] = peer /\ i = Index(r)
      BY <1>4, <1>7, <1>9, <2>3
    <3> QED
      BY <1>5, <1>9, <1>10, <3>1
  <2> QED
    BY <1>3, <2>1, <2>2, <2>3
<1>12. Len(k.peers) <= Len(k.preps)
  BY <1>3, <1>4, <1>7, <1>9
<1>13. PeersRead(k, elected)
  BY <1>1, <1>9, <1>11, <1>12 DEF PeersRead
<1>14. BlocksRead(k, tip)
  BY <1>1, <1>9 DEF BlocksRead
<1>15. HandlerOK(k, tip, elected)
  BY <1>1, <1>8, <1>9, <1>13, <1>14 DEF HandlerOK, Reading
<1>16. Become(r, k)
  BY DEF AddPeer, k, peer
<1> QED
  BY <1>15, <1>16, BecomeKeeps

\* The loop ends when there are as many peers as P-Reps.
LEMMA GetPRepKeeps ==
  ASSUME IInv, NEW r \in Requests, GetPRep(r)
  PROVE  IInv'
PROOF
<1> DEFINE l == req[r]
           m == [l EXCEPT !.pc = "answered"]
<1>1. /\ l.pc = "prep" /\ l \in Handler /\ l.since <= tip
      /\ BlocksRead(l, tip) /\ PeersRead(l, elected)
  BY DEF GetPRep, IInv, HandlerOK
<1>2. CASE EndOfList(r)
  <2>1. Len(l.peers) \in Nat /\ Len(l.preps) \in Nat
    BY <1>1 DEF Handler
  <2>2. Len(l.peers) = Len(l.preps)
    BY <1>1, <1>2, <2>1 DEF EndOfList, Index, PeersRead
  <2>3. m \in Handler
    BY <1>1 DEF Handler
  <2>4. /\ m.pc = "answered" /\ m.peers = l.peers /\ m.preps = l.preps
        /\ m.moment = l.moment /\ m.since = l.since
        /\ m.genesis = l.genesis /\ m.current = l.current /\ m.time = l.time
    BY <1>1 DEF Handler
  <2>5. BlocksRead(m, tip)
    BY <1>1, <2>4 DEF BlocksRead
  <2>6. PeersRead(m, elected)
    BY <1>1, <2>4 DEF PeersRead
  <2>7. HandlerOK(m, tip, elected)
    BY <1>1, <2>2, <2>3, <2>4, <2>5, <2>6 DEF HandlerOK, Reading
  <2> QED
    BY <1>2, <2>7, BecomeKeeps DEF EndOfList
<1> QED
  BY <1>1, <1>2, AddPeerKeeps, AbortKeeps DEF GetPRep

-------------------------------------------------------------------------------
(* The theorems. *)

LEMMA InitIInv ==
  ASSUME Init
  PROVE  IInv
PROOF
<1>1. PICK list \in Lists : elected = <<list>>
  BY DEF Init
<1>2. elected \in Seq(Lists) /\ elected # << >>
  BY <1>1
<1>3. NodeOK
  BY <1>2 DEF Init, NodeOK
<1>4. Idle \in Handler
  BY StatusAssumption DEF Handler, Idle
<1>5. Idle.pc = "idle" /\ Idle.since = 0 /\ Idle.peers = << >>
  BY DEF Idle
<1>6. tip = 0 /\ req = [r \in Requests |-> Idle]
  BY DEF Init
<1>7. HandlerOK(Idle, tip, elected)
  BY <1>4, <1>5, <1>6 DEF HandlerOK
<1> QED
  BY <1>3, <1>6, <1>7 DEF IInv

LEMMA NextKeepsIInv ==
  ASSUME IInv, [Next]_vars
  PROVE  IInv'
PROOF
<1>1. CASE ProduceBlock \/ Elect \/ StopNode \/ StartNode
  BY <1>1, NodeKeeps
<1>2. ASSUME NEW r \in Requests, NetworkStatus(r) \/ Proceed(r) \/ Deliver(r)
      PROVE  IInv'
  <2>1. CASE NetworkStatus(r)
    BY <2>1, NetworkStatusKeeps
  <2>2. CASE GetGenesisBlock(r) \/ GetGenesisReceipts(r) \/ GetLastBlock(r) \/ GetLastReceipts(r)
    BY <2>2, BlockStepsKeep
  <2>3. CASE GetMainPReps(r)
    BY <2>3, GetMainPRepsKeeps
  <2>4. CASE GetPRep(r)
    BY <2>4, GetPRepKeeps
  <2>5. CASE Deliver(r)
    BY <2>5, IdleOK, BecomeKeeps DEF Deliver
  <2> QED
    BY <1>2, <2>1, <2>2, <2>3, <2>4, <2>5 DEF Proceed
<1>3. CASE UNCHANGED vars
  BY <1>3 DEF vars, IInv, NodeOK
<1> QED
  BY <1>1, <1>2, <1>3 DEF Next

\* What a handler has read of the node is right at every step.
THEOREM Invariance == Spec => []IInv
PROOF
<1>1. Init => IInv
  BY InitIInv
<1>2. IInv /\ [Next]_vars => IInv'
  BY NextKeepsIInv
<1> QED
  BY <1>1, <1>2, PTL DEF Spec

\* The variables keep their types, and no more peers than P-Reps are collected.
THEOREM TypeCorrect == Spec => []TypeOK
PROOF
<1>1. IInv => TypeOK
  <2> SUFFICES ASSUME IInv
               PROVE  TypeOK
    OBVIOUS
  <2>1. ASSUME NEW r \in Requests
        PROVE  req[r] \in Handler /\ Len(req[r].peers) <= Len(req[r].preps)
    <3>1. HandlerOK(req[r], tip, elected) /\ req[r] \in Handler
      BY DEF IInv, HandlerOK
    <3>2. CASE req[r].peers = << >>
      <4>1. Len(req[r].peers) = 0 /\ Len(req[r].preps) \in Nat
        BY <3>1, <3>2 DEF Handler
      <4> QED
        BY <3>1, <4>1
    <3> QED
      BY <3>1, <3>2 DEF HandlerOK, PeersRead
  <2> QED
    BY <2>1 DEF IInv, NodeOK, TypeOK
<1> QED
  BY <1>1, Invariance, PTL

\* /network/status answers a current block of the chain with its own timestamp, no
\* older than the tip was when the request arrived, and the genesis block.
THEOREM Current == Spec => []StatusCurrent
PROOF
<1>1. IInv => StatusCurrent
  BY DEF IInv, HandlerOK, BlocksRead, StatusCurrent
<1> QED
  BY <1>1, Invariance, PTL

\* The peers that are answered are the main P-Reps of one election, each with its
\* own details, none older than the list.
THEOREM OneMoment == Spec => []PeersOfOneMoment
PROOF
<1>1. IInv => PeersOfOneMoment
  BY DEF IInv, HandlerOK, PeersRead, PeersOfOneMoment, Now
<1> QED
  BY <1>1, Invariance, PTL

================================================================================
