----------------------------- MODULE JsonRpcClient -----------------------------
(***************************************************************************)
(* The JSON-RPC client (icon/client_v1/jsonrpc.go), which every handler    *)
(* uses to call the node, and what the handlers make of its errors.        *)
(*                                                                         *)
(* What comes back is the node's reply or that of whatever stands between: *)
(* it has a status, a Content-Type and a body, in any combination.         *)
(***************************************************************************)
EXTENDS Integers, FiniteSets

CONSTANTS
  Calls,     \* the calls to the node that may be open at one time
  Methods,   \* the methods that are called, of those in Passed
  None,      \* a field that is not set
  MaxUntyped \* bound: replies without a Content-Type whose body is not read

\* How the handlers pass on the error of a call: to wrapErr, which asks it for its
\* text; in a new error with %w, which prints a nil pointer as <nil>; or not at all.
Passed ==
  [icx_sendTransaction  |-> "wrapErr",
   debug_estimateStep   |-> "wrapErr",
   icx_getLastBlock     |-> "wrapErr",
   debug_getAccount     |-> "wrapErr",
   icx_getBlock         |-> "errorf",
   getMainPReps         |-> "errorf",
   getPRep              |-> "ignored"]

\* A body that is cut, or is not JSON, cannot be decoded; null, {} and results of
\* another type can.
Undecodable == {"empty", "garbage"}
Bodies == Undecodable \cup {"null", "bare", "misfit", "error", "result"}

Reply == [ok : BOOLEAN, contentType : {"json", "text", "none"}, body : Bodies,
          did : BOOLEAN]  \* did: whether the node did what it was asked for

\* A result comes only from a node that did it, and with the status 200; an error
\* from one that did not.
Replies ==
  {reply \in Reply : /\ reply.body = "result" => reply.did /\ reply.ok
                     /\ reply.body = "error" => ~reply.did}

ASSUME JsonRpcAssumption ==
  /\ IsFiniteSet(Calls)
  /\ Methods \subseteq DOMAIN Passed
  /\ None \notin Reply \cup BOOLEAN
  /\ MaxUntyped \in Nat

Call == [pc      : {"idle", "start", "sent", "received", "returned", "answered",
                    "failed", "aborted"},
         method  : Methods \cup {None},
         reply   : Reply \cup {None},
         did     : BOOLEAN \cup {None},  \* history: what the reply had in did
         outcome : {"answer", "error", "nilError", "panic", None}]

VARIABLES
  call,    \* the local variables of each call
  open,    \* connections that are neither closed nor back in the pool
  untyped  \* history: replies that came without a Content-Type, but with a body

vars == <<call, open, untyped>>

Idle == [pc |-> "idle", method |-> None, reply |-> None, did |-> None,
         outcome |-> None]

\* The variables keep their types; what is read is a reply, and what is
\* answered was read.
TypeOK ==
  /\ call \in [Calls -> Call]
  /\ \A c \in Calls : call[c].pc = "received" => call[c].reply # None
  /\ \A c \in Calls : call[c].pc = "answered" => call[c].did # None
  /\ open \in Nat
  /\ untyped \in Nat

Init ==
  /\ call = [c \in Calls |-> Idle]
  /\ open = 0
  /\ untyped = 0

-------------------------------------------------------------------------------
(* What DoURL makes of a reply.                                            *)

\* A status other than 200.  JSON without an error member leaves a nil *Error in
\* an error, which is then not nil; a body null leaves no response at all.
BadStatusOutcome(reply) ==
  IF reply.contentType # "json" \/ reply.body \in Undecodable THEN "error"
  ELSE CASE reply.body = "null" -> "panic"
         [] reply.body = "error" -> "error"
         [] OTHER -> "nilError"

\* Mutant of Outcome: whether the result can be unmarshalled is not looked at.
OutcomeUnchecked(reply) ==
  IF ~reply.ok THEN BadStatusOutcome(reply)
  ELSE CASE reply.body \in Undecodable \cup {"error"} -> "error"
         [] reply.body = "null" -> "panic"
         [] OTHER -> "answer"

Outcome(reply) ==
  IF ~reply.ok THEN BadStatusOutcome(reply)
  ELSE CASE reply.body \in Undecodable \cup {"error", "bare", "misfit"} -> "error"
         [] reply.body = "null" -> "panic"
         [] OTHER -> "answer"

\* Mutant of Released: decodeResponseBody does not close the body.
ReleasedIfRead(reply) ==
  reply.body = "empty" \/ (~reply.ok /\ reply.contentType = "text")

\* decodeResponseBody closes the body, NewHttpError reads it to its end; a reply
\* without a Content-Type that can be parsed goes to neither.
Released(reply) ==
  reply.body = "empty" \/ reply.ok \/ reply.contentType # "none"

Untyped(reply) == ~reply.ok /\ reply.contentType = "none" /\ reply.body # "empty"

-------------------------------------------------------------------------------
(* The steps of a call.                                                    *)

Become(c, to) == call' = [call EXCEPT ![c] = to]

Start(c) ==
  /\ call[c].pc = "idle"
  /\ \E method \in Methods :
       Become(c, [Idle EXCEPT !.pc = "start", !.method = method])
  /\ UNCHANGED <<open, untyped>>

\* Mutant of Connect: the number of connections is limited, a call waits for one.
ConnectLimited(c) ==
  /\ call[c].pc = "start"
  /\ \/ /\ open < Cardinality(Calls)
        /\ Become(c, [call[c] EXCEPT !.pc = "sent"])
        /\ open' = open + 1
     \/ /\ open >= Cardinality(Calls)
        /\ UNCHANGED <<call, open>>
  /\ UNCHANGED untyped

\* Mutant of Connect: the error of hc.Do is not looked at.
ConnectUnchecked(c) ==
  /\ call[c].pc = "start"
  /\ \/ /\ Become(c, [call[c] EXCEPT !.pc = "sent"])
        /\ open' = open + 1
     \/ /\ Become(c, [call[c] EXCEPT !.pc = "returned", !.outcome = "answer"])
        /\ UNCHANGED open
  /\ UNCHANGED untyped

\* new(http.Client) has no limit of connections and no timeout.  If there is no
\* idle connection, and none can be made, Do returns an error and no response.
Connect(c) ==
  /\ call[c].pc = "start"
  /\ \/ /\ Become(c, [call[c] EXCEPT !.pc = "sent"])
        /\ open' = open + 1
     \/ /\ Become(c, [call[c] EXCEPT !.pc = "returned", !.outcome = "error"])
        /\ UNCHANGED open
  /\ UNCHANGED untyped

Respond(c) ==
  /\ call[c].pc = "sent"
  /\ \E reply \in Replies :
       /\ Untyped(reply) => untyped < MaxUntyped
       /\ Become(c, [call[c] EXCEPT !.pc = "received", !.reply = reply])
       /\ untyped' = untyped + (IF Untyped(reply) THEN 1 ELSE 0)
  /\ UNCHANGED open

\* The connection breaks before there is a reply.
Break(c) ==
  /\ call[c].pc = "sent"
  /\ Become(c, [call[c] EXCEPT !.pc = "returned", !.outcome = "error"])
  /\ open' = open - 1
  /\ UNCHANGED untyped

DoURL(c) ==
  /\ call[c].pc = "received"
  /\ Become(c, [call[c] EXCEPT !.pc = "returned", !.outcome = Outcome(call[c].reply),
                               !.reply = None, !.did = call[c].reply.did])
  /\ open' = open - (IF Released(call[c].reply) THEN 1 ELSE 0)
  /\ UNCHANGED untyped

\* How the handler ends: GetPRep's answer is dereferenced although it is nil when
\* there is an error.
Return(c) ==
  LET outcome == call[c].outcome
      passed == Passed[call[c].method]
      aborts == \/ outcome = "panic"
                \/ outcome = "nilError" /\ passed = "wrapErr"
                \/ outcome # "answer" /\ passed = "ignored"
  IN /\ call[c].pc = "returned"
     /\ Become(c, [call[c] EXCEPT !.pc = IF aborts THEN "aborted"
                                         ELSE IF outcome = "answer" THEN "answered"
                                         ELSE "failed"])
     /\ UNCHANGED <<open, untyped>>

Deliver(c) ==
  /\ call[c].pc \in {"answered", "failed", "aborted"}
  /\ Become(c, Idle)
  /\ UNCHANGED <<open, untyped>>

Proceed(c) == Connect(c) \/ DoURL(c) \/ Return(c)

Node(c) == Respond(c) \/ Break(c)

Next == \E c \in Calls : Start(c) \/ Proceed(c) \/ Node(c) \/ Deliver(c)

\* The goroutine of a handler is scheduled; the node replies, or the connection to
\* it breaks.
Fairness == \A c \in Calls : WF_vars(Proceed(c)) /\ WF_vars(Node(c))

Spec == Init /\ [][Next]_vars /\ Fairness

-------------------------------------------------------------------------------
(* Properties.                                                             *)

\* A call that ends without an error was done by the node: no status, body or
\* Content-Type of something in between passes for its answer.
AnsweredDone ==
  \A c \in Calls : call[c].pc = "answered" => call[c].did = TRUE

InFlight == {c \in Calls : call[c].pc \in {"sent", "received"}}

\* A connection that no call uses is closed or back in the pool, on every path
\* through DoURL but one: each reply without a Content-Type leaves its own open
\* for good.
ConnectionsAccounted ==
  open <= Cardinality(InFlight) + untyped

\* Connections that were left open do not hold up later calls: each one ends.
CallsEnd ==
  \A c \in Calls :
    call[c].pc = "start" ~> call[c].pc \in {"answered", "failed", "aborted"}
===============================================================================
