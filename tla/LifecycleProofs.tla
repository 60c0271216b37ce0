---------------------------- MODULE LifecycleProofs ----------------------------
(***************************************************************************)
(* Proofs about Lifecycle, for any requests and any number of signals.     *)
(* The invariant adds to the properties which goroutines have started, and *)
(* in which order a stop is passed on: SignalReceived, the cause, the      *)
(* context, the goroutine that shuts down.                                 *)
(***************************************************************************)
EXTENDS Lifecycle, TLAPS

Types ==
  /\ main \in {"loading", "starting", "waiting", "exited"}
  /\ exit \in Errors \cup {"halted", "killed", None}
  /\ handler \in {"none", "starting", "registered", "received", "done"}
  /\ listener \in {"none", "new", "accepting", "returned"}
  /\ waiter \in {"none", "waiting", "shutting", "returned"}
  /\ groupError \in Errors \cup {None}
  /\ request \in [Requests -> {"none", "active", "answered", "lost", "cut"}]
  /\ sent \in Nat
  /\ cause \in {"signal", "serve", None}

Flags ==
  /\ pending \in BOOLEAN /\ SignalReceived \in BOOLEAN
  /\ ctx \in BOOLEAN /\ inShutdown \in BOOLEAN

\* The goroutines are started together, after the configuration was read.
Started ==
  /\ main \in {"loading", "starting"} =>
       handler = "none" /\ listener = "none" /\ waiter = "none"
  /\ listener = "none" => \A r \in Requests : request[r] # "active"

\* What a signal leads to happens in this order.
SignalPassed ==
  /\ handler \in {"received", "done"} => SignalReceived
  /\ cause = "signal" => handler = "done"

\* The server is shut down only after the context was done, and that has a cause.
StopPassed ==
  /\ ctx => cause # None
  /\ waiter \in {"shutting", "returned"} => ctx
  /\ inShutdown => ctx

\* A request is cut only by the end of the process, which has a cause as well.
CutExplained ==
  \A r \in Requests : request[r] = "cut" => cause # None \/ exit = "killed"

\* How the process ended, if it has.
Ended ==
  /\ main # "exited" => exit = None
  /\ main = "exited" =>
       \/ exit = "config" /\ cause # "signal"
       \/ exit = "killed" /\ cause # "signal"
       \/ listener = "returned" /\ waiter = "returned"
  /\ main = "exited" /\ exit \notin {"config", "killed"} =>
       listener = "returned" /\ waiter = "returned"
  /\ SignalReported

IInv == Types /\ Flags /\ Started /\ SignalPassed /\ StopPassed /\ CutExplained /\ Ended

-------------------------------------------------------------------------------
LEMMA InitOK == Init => IInv
PROOF
<1> SUFFICES ASSUME Init
             PROVE  IInv
  OBVIOUS
<1> USE LifecycleAssumption DEF Init
<1>1. Types
  BY DEF Types, Errors
<1>2. Flags
  BY DEF Flags
<1>3. Started /\ CutExplained /\ Ended
  BY DEF Started, CutExplained, Ended, SignalReported
<1>4. SignalPassed /\ StopPassed
  BY DEF SignalPassed, StopPassed, Errors
<1> QED
  BY <1>1, <1>2, <1>3, <1>4 DEF IInv

\* The main goroutine.
LEMMA MainKeeps == ASSUME IInv, Load \/ Start \/ Wait PROVE IInv'
PROOF
<1> USE LifecycleAssumption DEF IInv, Types, Errors, Active
<1>1. CASE Load
  <2>1. Types'
    BY <1>1 DEF Load, Exit
  <2>2. Flags'
    BY <1>1 DEF Load, Exit, Flags
  <2>3. Started'
    BY <1>1 DEF Load, Exit, Started
  <2>4. SignalPassed'
    BY <1>1 DEF Load, Exit, SignalPassed, Started
  <2>5. StopPassed'
    BY <1>1 DEF Load, Exit, StopPassed
  <2>6. CutExplained'
    BY <1>1 DEF Load, Exit, CutExplained, StopPassed, Started, Ended
  <2>7. Ended'
    BY <1>1 DEF Load, Exit, Ended, SignalReported, SignalPassed,
                Started
  <2> QED
    BY <2>1, <2>2, <2>3, <2>4, <2>5, <2>6, <2>7 DEF IInv
<1>2. CASE Start
  <2>1. Types'
    BY <1>2 DEF Start
  <2>2. Flags'
    BY <1>2 DEF Start, Flags
  <2>3. Started'
    BY <1>2 DEF Start, Started
  <2>4. SignalPassed'
    BY <1>2 DEF Start, SignalPassed, Started
  <2>5. StopPassed'
    BY <1>2 DEF Start, StopPassed
  <2>6. CutExplained'
    BY <1>2 DEF Start, CutExplained, StopPassed, Started, Ended
  <2>7. Ended'
    BY <1>2 DEF Start, Ended, SignalReported, SignalPassed,
                Started
  <2> QED
    BY <2>1, <2>2, <2>3, <2>4, <2>5, <2>6, <2>7 DEF IInv
<1>3. CASE Wait
  <2>1. Types'
    BY <1>3 DEF Wait, Exit
  <2>2. Flags'
    BY <1>3 DEF Wait, Exit, Flags
  <2>3. Started'
    BY <1>3 DEF Wait, Exit, Started
  <2>4. SignalPassed'
    BY <1>3 DEF Wait, Exit, SignalPassed, Started
  <2>5. StopPassed'
    BY <1>3 DEF Wait, Exit, StopPassed
  <2>6. CutExplained'
    BY <1>3 DEF Wait, Exit, CutExplained, StopPassed, Started, Ended
  <2>7. Ended'
    BY <1>3 DEF Wait, Exit, Ended, SignalReported, SignalPassed,
                Started
  <2> QED
    BY <2>1, <2>2, <2>3, <2>4, <2>5, <2>6, <2>7 DEF IInv
<1> QED
  BY <1>1, <1>2, <1>3

\* Signals, and the goroutine that handles them.
LEMMA SignalsKeep == ASSUME IInv, SendSignal \/ NotifySignals \/ HandleSignal PROVE IInv'
PROOF
<1> USE LifecycleAssumption DEF IInv, Types, Errors, Active, Running
<1>1. CASE SendSignal
  <2>1. Types'
    BY <1>1 DEF SendSignal, Exit
  <2>2. Flags'
    BY <1>1 DEF SendSignal, Exit, Flags
  <2>3. Started'
    BY <1>1 DEF SendSignal, Exit, Started
  <2>4. SignalPassed'
    BY <1>1 DEF SendSignal, Exit, SignalPassed, Started
  <2>5. StopPassed'
    BY <1>1 DEF SendSignal, Exit, StopPassed
  <2>6. CutExplained'
    BY <1>1 DEF SendSignal, Exit, CutExplained, StopPassed, Started, Ended
  <2>7. Ended'
    BY <1>1 DEF SendSignal, Exit, Ended, SignalReported, SignalPassed,
                Started
  <2> QED
    BY <2>1, <2>2, <2>3, <2>4, <2>5, <2>6, <2>7 DEF IInv
<1>2. CASE NotifySignals
  <2>1. Types'
    BY <1>2 DEF NotifySignals
  <2>2. Flags'
    BY <1>2 DEF NotifySignals, Flags
  <2>3. Started'
    BY <1>2 DEF NotifySignals, Started
  <2>4. SignalPassed'
    BY <1>2 DEF NotifySignals, SignalPassed, Started
  <2>5. StopPassed'
    BY <1>2 DEF NotifySignals, StopPassed
  <2>6. CutExplained'
    BY <1>2 DEF NotifySignals, CutExplained, StopPassed, Started, Ended
  <2>7. Ended'
    BY <1>2 DEF NotifySignals, Ended, SignalReported, SignalPassed,
                Started
  <2> QED
    BY <2>1, <2>2, <2>3, <2>4, <2>5, <2>6, <2>7 DEF IInv
<1>3. CASE HandleSignal
  <2>1. Types'
    BY <1>3 DEF HandleSignal, CancelContext
  <2>2. Flags'
    BY <1>3 DEF HandleSignal, CancelContext, Flags
  <2>3. Started'
    BY <1>3 DEF HandleSignal, CancelContext, Started
  <2>4. SignalPassed'
    BY <1>3 DEF HandleSignal, CancelContext, SignalPassed, Started
  <2>5. StopPassed'
    BY <1>3 DEF HandleSignal, CancelContext, StopPassed
  <2>6. CutExplained'
    BY <1>3 DEF HandleSignal, CancelContext, CutExplained, StopPassed, Started, Ended
  <2>7. Ended'
    BY <1>3 DEF HandleSignal, CancelContext, Ended, SignalReported, SignalPassed,
                Started
  <2> QED
    BY <2>1, <2>2, <2>3, <2>4, <2>5, <2>6, <2>7 DEF IInv
<1> QED
  BY <1>1, <1>2, <1>3

\* The goroutine that serves.
LEMMA ListenerKeeps ==
  ASSUME IInv, Listen \/ FailAccept \/ CloseListener PROVE IInv'
PROOF
<1> USE LifecycleAssumption DEF IInv, Types, Errors, Active, Running, ReturnError,
        CancelContext
<1>1. CASE Listen
  <2>1. Types'
    BY <1>1 DEF Listen
  <2>2. Flags'
    BY <1>1 DEF Listen, Flags
  <2>3. Started'
    BY <1>1 DEF Listen, Started
  <2>4. SignalPassed'
    BY <1>1 DEF Listen, SignalPassed, Started
  <2>5. StopPassed'
    BY <1>1 DEF Listen, StopPassed
  <2>6. CutExplained'
    BY <1>1 DEF Listen, CutExplained, StopPassed, Started, Ended
  <2>7. Ended'
    BY <1>1 DEF Listen, Ended, SignalReported, SignalPassed,
                Started
  <2> QED
    BY <2>1, <2>2, <2>3, <2>4, <2>5, <2>6, <2>7 DEF IInv
<1>2. CASE FailAccept
  <2>1. Types'
    BY <1>2 DEF FailAccept
  <2>2. Flags'
    BY <1>2 DEF FailAccept, Flags
  <2>3. Started'
    BY <1>2 DEF FailAccept, Started
  <2>4. SignalPassed'
    BY <1>2 DEF FailAccept, SignalPassed, Started
  <2>5. StopPassed'
    BY <1>2 DEF FailAccept, StopPassed
  <2>6. CutExplained'
    BY <1>2 DEF FailAccept, CutExplained, StopPassed, Started, Ended
  <2>7. Ended'
    BY <1>2 DEF FailAccept, Ended, SignalReported, SignalPassed,
                Started
  <2> QED
    BY <2>1, <2>2, <2>3, <2>4, <2>5, <2>6, <2>7 DEF IInv
<1>3. CASE CloseListener
  <2>1. Types'
    BY <1>3 DEF CloseListener
  <2>2. Flags'
    BY <1>3 DEF CloseListener, Flags
  <2>3. Started'
    BY <1>3 DEF CloseListener, Started
  <2>4. SignalPassed'
    BY <1>3 DEF CloseListener, SignalPassed, Started
  <2>5. StopPassed'
    BY <1>3 DEF CloseListener, StopPassed
  <2>6. CutExplained'
    BY <1>3 DEF CloseListener, CutExplained, StopPassed, Started, Ended
  <2>7. Ended'
    BY <1>3 DEF CloseListener, Ended, SignalReported, SignalPassed,
                Started
  <2> QED
    BY <2>1, <2>2, <2>3, <2>4, <2>5, <2>6, <2>7 DEF IInv
<1> QED
  BY <1>1, <1>2, <1>3

\* The goroutine that shuts the server down.
LEMMA WaiterKeeps == ASSUME IInv, BeginShutdown \/ FinishShutdown PROVE IInv'
PROOF
<1> USE LifecycleAssumption DEF IInv, Types, Errors, Active, Running, ReturnError,
        CancelContext
<1>1. CASE BeginShutdown
  <2>1. Types'
    BY <1>1 DEF BeginShutdown
  <2>2. Flags'
    BY <1>1 DEF BeginShutdown, Flags
  <2>3. Started'
    BY <1>1 DEF BeginShutdown, Started
  <2>4. SignalPassed'
    BY <1>1 DEF BeginShutdown, SignalPassed, Started
  <2>5. StopPassed'
    BY <1>1 DEF BeginShutdown, StopPassed
  <2>6. CutExplained'
    BY <1>1 DEF BeginShutdown, CutExplained, StopPassed, Started, Ended
  <2>7. Ended'
    BY <1>1 DEF BeginShutdown, Ended, SignalReported, SignalPassed,
                Started
  <2> QED
    BY <2>1, <2>2, <2>3, <2>4, <2>5, <2>6, <2>7 DEF IInv
<1>2. CASE FinishShutdown
  <2>1. Types'
    BY <1>2 DEF FinishShutdown
  <2>2. Flags'
    BY <1>2 DEF FinishShutdown, Flags
  <2>3. Started'
    BY <1>2 DEF FinishShutdown, Started
  <2>4. SignalPassed'
    BY <1>2 DEF FinishShutdown, SignalPassed, Started
  <2>5. StopPassed'
    <3>1. ctx /\ cause # None /\ inShutdown' = inShutdown
      BY <1>2 DEF FinishShutdown, StopPassed
    <3>2. ctx' /\ cause' # None
      BY <1>2, <3>1 DEF FinishShutdown
    <3> QED
      BY <3>1, <3>2 DEF StopPassed
  <2>6. CutExplained'
    BY <1>2 DEF FinishShutdown, CutExplained, StopPassed, Started, Ended
  <2>7. Ended'
    BY <1>2 DEF FinishShutdown, Ended, SignalReported, SignalPassed,
                Started
  <2> QED
    BY <2>1, <2>2, <2>3, <2>4, <2>5, <2>6, <2>7 DEF IInv
<1> QED
  BY <1>1, <1>2

\* Requests.
LEMMA RequestsKeep == ASSUME IInv, Accept \/ Respond PROVE IInv'
PROOF
<1> USE LifecycleAssumption DEF IInv, Types, Errors, Active, Running
<1>1. CASE Accept
  <2>1. Types'
    BY <1>1 DEF Accept
  <2>2. Flags'
    BY <1>1 DEF Accept, Flags
  <2>3. Started'
    BY <1>1 DEF Accept, Started
  <2>4. SignalPassed'
    BY <1>1 DEF Accept, SignalPassed, Started
  <2>5. StopPassed'
    BY <1>1 DEF Accept, StopPassed
  <2>6. CutExplained'
    BY <1>1 DEF Accept, CutExplained, StopPassed, Started, Ended
  <2>7. Ended'
    BY <1>1 DEF Accept, Ended, SignalReported, SignalPassed,
                Started
  <2> QED
    BY <2>1, <2>2, <2>3, <2>4, <2>5, <2>6, <2>7 DEF IInv
<1>2. CASE Respond
  <2>1. Types'
    BY <1>2 DEF Respond
  <2>2. Flags'
    BY <1>2 DEF Respond, Flags
  <2>3. Started'
    BY <1>2 DEF Respond, Started
  <2>4. SignalPassed'
    BY <1>2 DEF Respond, SignalPassed, Started
  <2>5. StopPassed'
    BY <1>2 DEF Respond, StopPassed
  <2>6. CutExplained'
    BY <1>2 DEF Respond, CutExplained, StopPassed, Started, Ended
  <2>7. Ended'
    BY <1>2 DEF Respond, Ended, SignalReported, SignalPassed,
                Started
  <2> QED
    BY <2>1, <2>2, <2>3, <2>4, <2>5, <2>6, <2>7 DEF IInv
<1> QED
  BY <1>1, <1>2

LEMMA NextKeepsIInv == IInv /\ [Next]_vars => IInv'
PROOF
<1> SUFFICES ASSUME IInv, [Next]_vars
             PROVE  IInv'
  OBVIOUS
<1>1. CASE Next
  BY <1>1, MainKeeps, SignalsKeep, ListenerKeeps, WaiterKeeps, RequestsKeep
  DEF Next, Goroutines
<1>2. CASE UNCHANGED vars
  BY <1>2 DEF vars, IInv, Types, Flags, Started, SignalPassed, StopPassed, CutExplained, Ended,
              SignalReported
<1> QED
  BY <1>1, <1>2

-------------------------------------------------------------------------------
\* The inductive invariant holds in every execution of the process.
THEOREM Invariance == Spec => []IInv
PROOF
<1> QED
  BY InitOK, NextKeepsIInv, PTL DEF Spec

\* The variables keep their types, and the goroutines of the error group have
\* returned when runRunCmd does.
THEOREM TypeCorrect == Spec => []TypeOK
PROOF
<1>1. IInv => TypeOK
  BY DEF IInv, Types, Flags, Ended, TypeOK
<1> QED
  BY <1>1, Invariance, PTL

\* A process that a signal stops says that it was halted, whatever else fails while
\* it stops (cmd/run.go:112-115, cmd/root.go:54-61).
THEOREM SignalSeen == Spec => []SignalReported
PROOF
<1>1. IInv => SignalReported
  BY DEF IInv, Ended
<1> QED
  BY <1>1, Invariance, PTL

\* The server is not shut down, and no request cut, unless a signal was received or
\* the server failed (cmd/run.go:98-110).
THEOREM Serving == Spec => []ServesUntilStopped
PROOF
<1>1. IInv => ServesUntilStopped
  BY DEF IInv, StopPassed, CutExplained, ServesUntilStopped
<1> QED
  BY <1>1, Invariance, PTL
===============================================================================
