-------------------------- MODULE JsonRpcClientProofs --------------------------
(***************************************************************************)
(* Proofs about JsonRpcClient, for any number of calls.  The invariant     *)
(* counts the connections: those that are open are those of the calls in   *)
(* flight and those left open before; the ones that are about to be left   *)
(* open (Leaving) are among both.                                          *)
(***************************************************************************)
EXTENDS JsonRpcClient, FiniteSetTheorems, TLAPS

Leaving == {c \in Calls : call[c].pc = "received" /\ Untyped(call[c].reply)}

CallOK(l) ==
  /\ l \in Call
  /\ l.pc = "received" => l.reply \in Replies
  /\ l.pc = "returned" /\ l.outcome = "answer" => l.did = TRUE
  /\ l.pc = "answered" => l.did = TRUE

CallsOK ==
  /\ call = [c \in Calls |-> call[c]]
  /\ \A c \in Calls : CallOK(call[c])

Counted ==
  /\ open \in Int /\ untyped \in Nat
  /\ open + Cardinality(Leaving) = Cardinality(InFlight) + untyped

IInv == CallsOK /\ Counted

-------------------------------------------------------------------------------
(* Sets of calls. *)

\* A call whose place in a set changes makes a difference of one.
LEMMA Difference ==
  ASSUME NEW S \in SUBSET Calls, NEW c \in Calls
  PROVE  /\ IsFiniteSet(S) /\ Cardinality(S) \in Nat
         /\ c \notin S => Cardinality(S \cup {c}) = Cardinality(S) + 1
         /\ c \in S => Cardinality(S \ {c}) = Cardinality(S) - 1
PROOF
<1>1. IsFiniteSet(S)
  BY JsonRpcAssumption, FS_Subset
<1> QED
  BY <1>1, FS_CardinalityType, FS_AddElement, FS_RemoveElement

\* The calls that leave their connection open are in flight.
LEMMA LeavingInFlight ==
  Cardinality(Leaving) \in Nat /\ Cardinality(InFlight) \in Nat
    /\ Cardinality(Leaving) <= Cardinality(InFlight)
PROOF
<1>1. Leaving \subseteq InFlight /\ InFlight \subseteq Calls
  BY DEF Leaving, InFlight
<1>2. IsFiniteSet(InFlight)
  BY <1>1, JsonRpcAssumption, FS_Subset
<1> QED
  BY <1>1, <1>2, FS_Subset, FS_CardinalityType

\* What a step of one call does to the two sets.
LEMMA Moves ==
  ASSUME CallsOK, NEW c \in Calls, NEW l, Become(c, l)
  PROVE  /\ l.pc \in {"sent", "received"} =>
              InFlight' = InFlight \cup {c}
         /\ l.pc \notin {"sent", "received"} =>
              InFlight' = InFlight \ {c}
         /\ l.pc = "received" /\ Untyped(l.reply) => Leaving' = Leaving \cup {c}
         /\ ~(l.pc = "received" /\ Untyped(l.reply)) => Leaving' = Leaving \ {c}
PROOF
<1>1. /\ call'[c] = l
      /\ \A d \in Calls : d # c => call'[d] = call[d]
  BY DEF CallsOK, Become
<1>2. InFlight' = {d \in Calls : call'[d].pc \in {"sent", "received"}}
  BY DEF InFlight
<1>3. Leaving' = {d \in Calls : call'[d].pc = "received" /\ Untyped(call'[d].reply)}
  BY DEF Leaving, Untyped
<1> QED
  BY <1>1, <1>2, <1>3 DEF InFlight, Leaving

LEMMA BecomeOK ==
  ASSUME CallsOK, NEW c \in Calls, NEW l, Become(c, l), CallOK(l)
  PROVE  CallsOK'
PROOF
  BY DEF CallsOK, Become

\* A call that neither was nor comes to be in flight counts as before.
LEMMA OutsideKeeps ==
  ASSUME IInv, NEW c \in Calls, NEW l, Become(c, l), CallOK(l),
         call[c].pc \notin {"sent", "received"}, l.pc \notin {"sent", "received"},
         UNCHANGED <<open, untyped>>
  PROVE  IInv'
PROOF
<1>1. c \notin InFlight /\ c \notin Leaving
  BY DEF InFlight, Leaving
<1>2. InFlight' = InFlight /\ Leaving' = Leaving
  BY <1>1, Moves DEF IInv
<1> QED
  BY <1>2, BecomeOK DEF IInv, Counted

-------------------------------------------------------------------------------
(* The steps. *)

LEMMA IdleOK == CallOK(Idle) /\ Idle.pc = "idle"
PROOF
  BY DEF CallOK, Call, Idle

LEMMA StartKeeps ==
  ASSUME IInv, NEW c \in Calls, Start(c)
  PROVE  IInv'
PROOF
<1>1. PICK method \in Methods : Become(c, [Idle EXCEPT !.pc = "start", !.method = method])
  BY DEF Start
<1> DEFINE l == [Idle EXCEPT !.pc = "start", !.method = method]
<1>2. l \in Call /\ l.pc = "start"
  BY DEF Call, Idle
<1>3. CallOK(l)
  BY <1>2 DEF CallOK
<1> QED
  BY <1>1, <1>2, <1>3, OutsideKeeps DEF Start

LEMMA ConnectKeeps ==
  ASSUME IInv, NEW c \in Calls, Connect(c)
  PROVE  IInv'
PROOF
<1> DEFINE sent == [call[c] EXCEPT !.pc = "sent"]
           refused == [call[c] EXCEPT !.pc = "returned", !.outcome = "error"]
<1>1. call[c] \in Call /\ call[c].pc = "start"
  BY DEF Connect, IInv, CallsOK, CallOK
<1>2. /\ sent \in Call /\ sent.pc = "sent"
      /\ refused \in Call /\ refused.pc = "returned" /\ refused.outcome = "error"
  BY <1>1 DEF Call
<1>3. CallOK(sent) /\ CallOK(refused)
  BY <1>2 DEF CallOK
<1>4. CASE Become(c, sent) /\ open' = open + 1 /\ untyped' = untyped
  <2>1. c \notin InFlight /\ c \notin Leaving
    BY <1>1 DEF InFlight, Leaving
  <2>2. InFlight' = InFlight \cup {c} /\ Leaving' = Leaving
    <3> HIDE DEF sent
    <3>1. sent.pc \in {"sent", "received"} /\ sent.pc # "received"
      BY <1>2
    <3>2. InFlight' = InFlight \cup {c} /\ Leaving' = Leaving \ {c}
      BY <1>4, <3>1, Moves DEF IInv
    <3> QED
      BY <2>1, <3>2
  <2>3. InFlight \in SUBSET Calls
    BY DEF InFlight
  <2>4. Cardinality(InFlight') = Cardinality(InFlight) + 1
    BY <2>1, <2>2, <2>3, Difference
  <2> QED
    BY <1>3, <1>4, <2>2, <2>4, LeavingInFlight, BecomeOK DEF IInv, Counted
<1>5. CASE Become(c, refused) /\ UNCHANGED <<open, untyped>>
  BY <1>1, <1>2, <1>3, <1>5, OutsideKeeps
<1> QED
  BY <1>4, <1>5 DEF Connect

\* A reply leaves the call in flight; one without a Content-Type is counted.
LEMMA RespondKeeps ==
  ASSUME IInv, NEW c \in Calls, Respond(c)
  PROVE  IInv'
PROOF
<1>1. PICK reply \in Replies :
        /\ Become(c, [call[c] EXCEPT !.pc = "received", !.reply = reply])
        /\ untyped' = untyped + (IF Untyped(reply) THEN 1 ELSE 0)
  BY DEF Respond
<1> DEFINE l == [call[c] EXCEPT !.pc = "received", !.reply = reply]
<1>2. call[c] \in Call /\ call[c].pc = "sent" /\ open' = open
  BY DEF Respond, IInv, CallsOK, CallOK
<1>3. reply \in Reply
  BY DEF Replies
<1>4. l \in Call /\ l.pc = "received" /\ l.reply = reply
  BY <1>2, <1>3 DEF Call
<1>5. CallOK(l)
  BY <1>4 DEF CallOK
<1>6. c \in InFlight /\ c \notin Leaving /\ Leaving \in SUBSET Calls
  BY <1>2 DEF InFlight, Leaving
<1>7. Become(c, l)
  BY <1>1
<1> HIDE DEF l
<1>8. /\ InFlight' = InFlight
      /\ Untyped(reply) => Leaving' = Leaving \cup {c}
      /\ ~Untyped(reply) => Leaving' = Leaving
  <2>1. l.pc \in {"sent", "received"}
    BY <1>4
  <2>2. /\ InFlight' = InFlight \cup {c}
        /\ Untyped(reply) => Leaving' = Leaving \cup {c}
        /\ ~Untyped(reply) => Leaving' = Leaving \ {c}
    BY <1>4, <1>7, <2>1, Moves DEF IInv
  <2> QED
    BY <1>6, <2>2
<1>9. CASE Untyped(reply)
  <2>1. Cardinality(Leaving') = Cardinality(Leaving) + 1
    BY <1>6, <1>8, <1>9, Difference
  <2>2. untyped' = untyped + 1
    BY <1>1, <1>9
  <2> QED
    BY <1>2, <1>5, <1>7, <1>8, <2>1, <2>2, LeavingInFlight, BecomeOK DEF IInv, Counted
<1>10. CASE ~Untyped(reply)
  <2>1. untyped' = untyped
    BY <1>1, <1>10 DEF IInv, Counted
  <2> QED
    BY <1>2, <1>5, <1>7, <1>8, <1>10, <2>1, BecomeOK DEF IInv, Counted
<1> QED
  BY <1>9, <1>10

LEMMA BreakKeeps ==
  ASSUME IInv, NEW c \in Calls, Break(c)
  PROVE  IInv'
PROOF
<1> DEFINE l == [call[c] EXCEPT !.pc = "returned", !.outcome = "error"]
<1>1. call[c] \in Call /\ call[c].pc = "sent"
  BY DEF Break, IInv, CallsOK, CallOK
<1>2. l \in Call /\ l.pc = "returned" /\ l.outcome = "error"
  BY <1>1 DEF Call
<1>3. CallOK(l) /\ Become(c, l)
  BY <1>2 DEF CallOK, Break
<1>4. c \in InFlight /\ c \notin Leaving /\ InFlight \in SUBSET Calls
  BY <1>1 DEF InFlight, Leaving
<1>5. InFlight' = InFlight \ {c} /\ Leaving' = Leaving
  BY <1>2, <1>3, <1>4, Moves DEF IInv
<1>6. Cardinality(InFlight') = Cardinality(InFlight) - 1
  BY <1>4, <1>5, Difference
<1> QED
  BY <1>3, <1>5, <1>6, LeavingInFlight, BecomeOK DEF IInv, Counted, Break

\* Only a result is an answer.
LEMMA AnswerIsResult ==
  ASSUME NEW reply \in Replies
  PROVE  /\ Outcome(reply) \in {"answer", "error", "nilError", "panic"}
         /\ Outcome(reply) = "answer" => reply.did = TRUE
PROOF
<1>1. /\ reply.ok \in BOOLEAN /\ reply.did \in BOOLEAN /\ reply.body \in Bodies
      /\ reply.body = "result" => reply.did
  BY DEF Replies, Reply
<1>2. BadStatusOutcome(reply) \in {"error", "nilError", "panic"}
  BY DEF BadStatusOutcome
<1> QED
  BY <1>1, <1>2 DEF Outcome, Bodies, Undecodable

LEMMA DoURLKeeps ==
  ASSUME IInv, NEW c \in Calls, DoURL(c)
  PROVE  IInv'
PROOF
<1> DEFINE reply == call[c].reply
           l == [call[c] EXCEPT !.pc = "returned", !.outcome = Outcome(call[c].reply),
                                !.reply = None, !.did = call[c].reply.did]
<1>1. call[c] \in Call /\ call[c].pc = "received" /\ reply \in Replies
  BY DEF DoURL, IInv, CallsOK, CallOK
<1>2. reply.did \in BOOLEAN /\ (Released(reply) <=> ~Untyped(reply))
  BY <1>1 DEF Replies, Reply, Released, Untyped
<1>3. /\ l \in Call /\ l.pc = "returned" /\ l.outcome = Outcome(reply)
      /\ l.did = reply.did
  BY <1>1, <1>2, AnswerIsResult DEF Call
<1>4. CallOK(l)
  BY <1>1, <1>3, AnswerIsResult DEF CallOK
<1>5. /\ Become(c, l) /\ untyped' = untyped
      /\ open' = open - (IF Released(reply) THEN 1 ELSE 0)
  BY DEF DoURL
<1>6. /\ c \in InFlight /\ (c \in Leaving <=> Untyped(reply))
      /\ InFlight \in SUBSET Calls /\ Leaving \in SUBSET Calls
  BY <1>1 DEF InFlight, Leaving
<1>7. InFlight' = InFlight \ {c} /\ Leaving' = Leaving \ {c}
  BY <1>3, <1>5, Moves DEF IInv
<1>8. Cardinality(InFlight') = Cardinality(InFlight) - 1
  BY <1>6, <1>7, Difference
<1>9. CASE Untyped(reply)
  <2>1. Cardinality(Leaving') = Cardinality(Leaving) - 1
    BY <1>6, <1>7, <1>9, Difference
  <2> QED
    BY <1>2, <1>4, <1>5, <1>8, <1>9, <2>1, LeavingInFlight, BecomeOK DEF IInv, Counted
<1>10. CASE ~Untyped(reply)
  <2>1. Leaving' = Leaving
    BY <1>6, <1>7, <1>10
  <2> QED
    BY <1>2, <1>4, <1>5, <1>8, <1>10, <2>1, LeavingInFlight, BecomeOK DEF IInv, Counted
<1> QED
  BY <1>9, <1>10

LEMMA ReturnKeeps ==
  ASSUME IInv, NEW c \in Calls, Return(c)
  PROVE  IInv'
PROOF
<1>1. /\ CallOK(call[c]) /\ call[c] \in Call /\ call[c].pc = "returned"
      /\ UNCHANGED <<open, untyped>>
  BY DEF Return, IInv, CallsOK, CallOK
<1>2. PICK pc \in {"aborted", "answered", "failed"} :
        /\ Become(c, [call[c] EXCEPT !.pc = pc])
        /\ pc = "answered" => call[c].outcome = "answer"
  BY DEF Return
<1> DEFINE l == [call[c] EXCEPT !.pc = pc]
<1>3. l \in Call /\ l.pc = pc /\ l.did = call[c].did
  BY <1>1 DEF Call
<1>4. CallOK(l)
  BY <1>1, <1>2, <1>3 DEF CallOK
<1> QED
  BY <1>1, <1>2, <1>3, <1>4, OutsideKeeps

-------------------------------------------------------------------------------
(* The theorems. *)

LEMMA InitIInv ==
  ASSUME Init
  PROVE  IInv
PROOF
<1>1. CallsOK /\ \A c \in Calls : call[c].pc = "idle"
  BY IdleOK DEF Init, CallsOK
<1>2. InFlight = {} /\ Leaving = {}
  BY <1>1 DEF InFlight, Leaving
<1>3. Cardinality({}) = 0
  BY FS_EmptySet
<1> QED
  BY <1>1, <1>2, <1>3 DEF Init, IInv, Counted

LEMMA NextKeepsIInv ==
  ASSUME IInv, [Next]_vars
  PROVE  IInv'
PROOF
<1>1. ASSUME NEW c \in Calls, Start(c) \/ Proceed(c) \/ Node(c) \/ Deliver(c)
      PROVE  IInv'
  <2>1. CASE Deliver(c)
    BY <2>1, IdleOK, OutsideKeeps DEF Deliver
  <2> QED
    BY <1>1, <2>1, StartKeeps, ConnectKeeps, RespondKeeps, BreakKeeps, DoURLKeeps,
       ReturnKeeps DEF Proceed, Node
<1>2. CASE UNCHANGED vars
  BY <1>2 DEF vars, IInv, CallsOK, Counted, InFlight, Leaving, Untyped
<1> QED
  BY <1>1, <1>2 DEF Next

\* Every connection that is open belongs to a call in flight or was left open by a
\* reply without a Content-Type.
THEOREM Invariance == Spec => []IInv
PROOF
<1>1. Init => IInv
  BY InitIInv
<1>2. IInv /\ [Next]_vars => IInv'
  BY NextKeepsIInv
<1> QED
  BY <1>1, <1>2, PTL DEF Spec

\* The variables keep their types, and what is answered was read from a reply.
THEOREM TypeCorrect == Spec => []TypeOK
PROOF
<1>1. IInv => TypeOK
  <2> SUFFICES ASSUME IInv
               PROVE  TypeOK
    OBVIOUS
  <2>1. call \in [Calls -> Call]
    BY DEF IInv, CallsOK, CallOK
  <2>2. ASSUME NEW c \in Calls
        PROVE  /\ call[c].pc = "received" => call[c].reply # None
               /\ call[c].pc = "answered" => call[c].did # None
    <3>1. CallOK(call[c])
      BY DEF IInv, CallsOK
    <3>2. call[c].pc = "received" => call[c].reply # None
      BY <3>1, JsonRpcAssumption DEF CallOK, Replies
    <3>3. call[c].pc = "answered" => call[c].did # None
      BY <3>1, JsonRpcAssumption DEF CallOK
    <3> QED
      BY <3>2, <3>3
  <2>3. open \in Nat /\ untyped \in Nat
    BY LeavingInFlight DEF IInv, Counted
  <2> QED
    BY <2>1, <2>2, <2>3 DEF TypeOK
<1> QED
  BY <1>1, Invariance, PTL

\* A call that ends without an error was done by the node, whatever came back.
THEOREM Answered == Spec => []AnsweredDone
PROOF
<1>1. IInv => AnsweredDone
  BY DEF IInv, CallsOK, CallOK, AnsweredDone
<1> QED
  BY <1>1, Invariance, PTL

\* No connection stays open but those of calls in flight and of replies without a
\* Content-Type.
THEOREM Accounted == Spec => []ConnectionsAccounted
PROOF
<1>1. IInv => ConnectionsAccounted
  BY LeavingInFlight DEF IInv, Counted, ConnectionsAccounted
<1> QED
  BY <1>1, Invariance, PTL

================================================================================
