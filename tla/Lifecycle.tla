------------------------------- MODULE Lifecycle -------------------------------
(***************************************************************************)
(* The server process (main.go, cmd/root.go, cmd/run.go): the main         *)
(* goroutine, the one that handles signals, and the two of the error group *)
(* that listen and shut down, with the requests that are being handled.    *)
(***************************************************************************)
EXTENDS Integers

CONSTANTS
  Requests,   \* the HTTP requests that may be open at one time
  None,       \* a field that is not set
  MaxSignals  \* bound: SIGINTs and SIGTERMs that are sent

Errors == {"config", "serve", "closed", "cancelled"}

ASSUME LifecycleAssumption ==
  /\ MaxSignals \in Nat
  /\ None \notin Errors \cup {"halted", "killed", "signal"}

VARIABLES
  main,            \* where the main goroutine is
  exit,            \* why it ended: an error, the text halted, or a signal's default
  handler,         \* where the goroutine of handleSignals is
  pending,         \* whether a signal is in its channel, which holds one
  SignalReceived,  \* the variable of cmd/root.go
  ctx,             \* whether the context of the group is done
  listener,        \* where the goroutine is that serves
  waiter,          \* where the goroutine is that shuts the server down
  inShutdown,      \* whether Shutdown was called
  groupError,      \* the first error that a goroutine of the group returned
  request,         \* what becomes of each request
  sent,            \* history: signals that were sent
  cause            \* history: what first made the context done

vars == <<main, exit, handler, pending, SignalReceived, ctx, listener, waiter,
          inShutdown, groupError, request, sent, cause>>

\* The variables keep their types, and the goroutines of the group are through
\* when the main one ends of its own accord.
TypeOK ==
  /\ main \in {"loading", "starting", "waiting", "exited"}
  /\ exit \in Errors \cup {"halted", "killed", None}
  /\ handler \in {"none", "starting", "registered", "received", "done"}
  /\ {pending, SignalReceived, ctx, inShutdown} \subseteq BOOLEAN
  /\ listener \in {"none", "new", "accepting", "returned"}
  /\ waiter \in {"none", "waiting", "shutting", "returned"}
  /\ groupError \in Errors \cup {None}
  /\ request \in [Requests -> {"none", "active", "answered", "lost", "cut"}]
  /\ sent \in Nat
  /\ cause \in {"signal", "serve", None}
  /\ main = "exited" /\ exit \notin {"config", "killed"} =>
       listener = "returned" /\ waiter = "returned"

Init ==
  /\ main = "loading"
  /\ exit = None
  /\ handler = "none"
  /\ pending = FALSE
  /\ SignalReceived = FALSE
  /\ ctx = FALSE
  /\ listener = "none"
  /\ waiter = "none"
  /\ inShutdown = FALSE
  /\ groupError = None
  /\ request = [r \in Requests |-> "none"]
  /\ sent = 0
  /\ cause = None

Running == main # "exited"

Active == {r \in Requests : request[r] = "active"}

\* The process ends: what it was handling is cut.
Exit(why) ==
  /\ main' = "exited"
  /\ exit' = why
  /\ request' = [r \in Requests |-> IF r \in Active THEN "cut" ELSE request[r]]

\* The first one cancels the context.
CancelContext(why) ==
  /\ ctx' = TRUE
  /\ cause' = IF cause = None THEN why ELSE cause

-------------------------------------------------------------------------------
(* The main goroutine.                                                     *)

\* LoadConfiguration and NewServer of the asserter, which may fail.
Load ==
  /\ main = "loading"
  /\ \/ main' = "starting" /\ UNCHANGED <<exit, request>>
     \/ Exit("config")
  /\ UNCHANGED <<handler, pending, SignalReceived, ctx, listener, waiter, inShutdown,
                 groupError, sent, cause>>

\* It starts the other goroutines, and waits for no signal to be caught yet.
Start ==
  /\ main = "starting"
  /\ main' = "waiting"
  /\ handler' = "starting"
  /\ listener' = "new"
  /\ waiter' = "waiting"
  /\ UNCHANGED <<exit, pending, SignalReceived, ctx, inShutdown, groupError, request,
                 sent, cause>>

\* Mutant of Wait: the goroutine that shuts down is not one of the group.
WaitForListener ==
  /\ main = "waiting"
  /\ listener = "returned"
  /\ Exit(IF SignalReceived THEN "halted" ELSE groupError)
  /\ UNCHANGED <<handler, pending, SignalReceived, ctx, listener, waiter, inShutdown,
                 groupError, sent, cause>>

Wait ==
  /\ main = "waiting"
  /\ listener = "returned" /\ waiter = "returned"
  /\ Exit(IF SignalReceived THEN "halted" ELSE groupError)
  /\ UNCHANGED <<handler, pending, SignalReceived, ctx, listener, waiter, inShutdown,
                 groupError, sent, cause>>

-------------------------------------------------------------------------------
(* Signals.                                                                *)

\* Until signal.Notify is called a signal kills the process; then one is kept, and
\* more are dropped.
SendSignal ==
  /\ Running /\ sent < MaxSignals
  /\ sent' = sent + 1
  /\ IF handler \in {"none", "starting"}
     THEN Exit("killed") /\ UNCHANGED pending
     ELSE pending' = TRUE /\ UNCHANGED <<main, exit, request>>
  /\ UNCHANGED <<handler, SignalReceived, ctx, listener, waiter, inShutdown, groupError,
                 cause>>

NotifySignals ==
  /\ Running /\ handler = "starting"
  /\ handler' = "registered"
  /\ UNCHANGED <<main, exit, pending, SignalReceived, ctx, listener, waiter, inShutdown,
                 groupError, request, sent, cause>>

\* Mutant of HandleSignal: the context is cancelled before the variable is set.
HandleSignalSwapped ==
  /\ Running
  /\ \/ /\ handler = "registered" /\ pending
        /\ handler' = "received"
        /\ pending' = FALSE
        /\ CancelContext("signal")
        /\ UNCHANGED SignalReceived
     \/ /\ handler = "received"
        /\ handler' = "done"
        /\ SignalReceived' = TRUE
        /\ UNCHANGED <<pending, ctx, cause>>
  /\ UNCHANGED <<main, exit, listener, waiter, inShutdown, groupError, request, sent>>

\* The goroutine receives one signal: later ones stay in the channel.
HandleSignal ==
  /\ Running
  /\ \/ /\ handler = "registered" /\ pending
        /\ handler' = "received"
        /\ pending' = FALSE
        /\ SignalReceived' = TRUE
        /\ UNCHANGED <<ctx, cause>>
     \/ /\ handler = "received"
        /\ handler' = "done"
        /\ CancelContext("signal")
        /\ UNCHANGED <<pending, SignalReceived>>
  /\ UNCHANGED <<main, exit, listener, waiter, inShutdown, groupError, request, sent>>

-------------------------------------------------------------------------------
(* The goroutines of the error group.                                      *)

\* The first error cancels the context of the group.
ReturnError(error, why) ==
  /\ groupError' = IF groupError = None THEN error ELSE groupError
  /\ CancelContext(why)

\* ListenAndServe fails if the port is taken, and at once after Shutdown.
Listen ==
  /\ Running /\ listener = "new"
  /\ \/ /\ ~inShutdown
        /\ listener' = "accepting"
        /\ UNCHANGED <<ctx, groupError, cause>>
     \/ /\ ~inShutdown
        /\ listener' = "returned"
        /\ ReturnError("serve", "serve")
     \/ /\ inShutdown
        /\ listener' = "returned"
        /\ ReturnError("closed", "serve")
  /\ UNCHANGED <<main, exit, handler, pending, SignalReceived, waiter, inShutdown,
                 request, sent>>

\* Accept fails for good.
FailAccept ==
  /\ Running /\ listener = "accepting" /\ ~inShutdown
  /\ listener' = "returned"
  /\ ReturnError("serve", "serve")
  /\ UNCHANGED <<main, exit, handler, pending, SignalReceived, waiter, inShutdown,
                 request, sent>>

CloseListener ==
  /\ Running /\ listener = "accepting" /\ inShutdown
  /\ listener' = "returned"
  /\ ReturnError("closed", "serve")
  /\ UNCHANGED <<main, exit, handler, pending, SignalReceived, waiter, inShutdown,
                 request, sent>>

\* Mutant of BeginShutdown: the context is not waited for.
ShutdownAtOnce ==
  /\ Running /\ waiter = "waiting"
  /\ waiter' = "shutting"
  /\ inShutdown' = TRUE
  /\ UNCHANGED <<main, exit, handler, pending, SignalReceived, ctx, listener, groupError,
                 request, sent, cause>>

BeginShutdown ==
  /\ Running /\ waiter = "waiting" /\ ctx
  /\ waiter' = "shutting"
  /\ inShutdown' = TRUE
  /\ UNCHANGED <<main, exit, handler, pending, SignalReceived, ctx, listener, groupError,
                 request, sent, cause>>

\* Mutant of FinishShutdown: the context given to Shutdown is not the one done.
ShutdownGracefully ==
  /\ Running /\ waiter = "shutting" /\ Active = {}
  /\ waiter' = "returned"
  /\ UNCHANGED <<main, exit, handler, pending, SignalReceived, ctx, listener, inShutdown,
                 groupError, request, sent, cause>>

\* Shutdown would wait until no request is active (and, in later versions of Go,
\* until the listener has gone), but the context that it is given is done: it then
\* returns the context's error at once.
FinishShutdown ==
  /\ Running /\ waiter = "shutting"
  /\ waiter' = "returned"
  /\ \/ Active = {} /\ UNCHANGED <<ctx, groupError, cause>>
     \/ /\ Active # {} \/ listener = "accepting"
        /\ ReturnError("cancelled", "serve")
  /\ UNCHANGED <<main, exit, handler, pending, SignalReceived, listener, inShutdown,
                 request, sent>>

-------------------------------------------------------------------------------
(* Requests.                                                               *)

Accept ==
  /\ Running /\ listener = "accepting"
  /\ \E r \in Requests :
       /\ request[r] \notin {"active", "cut"}
       /\ request' = [request EXCEPT ![r] = "active"]
  /\ UNCHANGED <<main, exit, handler, pending, SignalReceived, ctx, listener, waiter,
                 inShutdown, groupError, sent, cause>>

\* A handler that returns: its response is written, or, after writeTimeout, lost.
Respond ==
  /\ Running
  /\ \E r \in Active, to \in {"answered", "lost"} :
       request' = [request EXCEPT ![r] = to]
  /\ UNCHANGED <<main, exit, handler, pending, SignalReceived, ctx, listener, waiter,
                 inShutdown, groupError, sent, cause>>

-------------------------------------------------------------------------------
Goroutines ==
  \/ Load \/ Start \/ Wait
  \/ NotifySignals \/ HandleSignal
  \/ Listen \/ CloseListener \/ BeginShutdown \/ FinishShutdown

Next == Goroutines \/ SendSignal \/ FailAccept \/ Accept \/ Respond

\* Each goroutine is scheduled.  Handlers wait for the node, which may never
\* answer, so nothing is assumed of Respond.
Fairness ==
  /\ WF_vars(Load) /\ WF_vars(Start) /\ WF_vars(Wait)
  /\ WF_vars(NotifySignals) /\ WF_vars(HandleSignal)
  /\ WF_vars(Listen) /\ WF_vars(CloseListener)
  /\ WF_vars(BeginShutdown) /\ WF_vars(FinishShutdown)

Spec == Init /\ [][Next]_vars /\ Fairness

-------------------------------------------------------------------------------
(* Properties.                                                             *)

\* A process that a signal stops says so, whichever of the errors that stopping
\* causes the group saw first.
SignalReported ==
  main = "exited" /\ cause = "signal" => exit = "halted"

\* Requests are accepted until a signal was received or the server failed: nothing
\* else shuts the server down or cuts a request.
ServesUntilStopped ==
  inShutdown \/ "cut" \in {request[r] : r \in Requests} => cause # None \/ exit = "killed"

\* Once the process is to stop it ends, even if handlers wait for the node forever.
Stops ==
  cause # None \/ SignalReceived ~> main = "exited"
===============================================================================
