------------------------------- MODULE Shutdown -------------------------------
(***************************************************************************)
(* main and Server.Run: from start-up to the end of the process, with the  *)
(* render loops Run joins and the HTTP handlers it drains but does not     *)
(* join.  What the engine does while it is closed is module Engine; what   *)
(* the hub does, module Events.                                            *)
(*                                                                         *)
(* Time, in units of five seconds, passes only when nobody can go on       *)
(* without it, so a step that needs no waiting is instantaneous.           *)
(***************************************************************************)
EXTENDS Naturals, Sequences

CONSTANTS
  Conn,              \* connections
  ShutdownTimeout,   \* shutdownTimeout
  SlowTimeout        \* fetch's timeout and the hub's writeTimeout, which are equal

ASSUME ShutdownAssumption ==
  /\ ShutdownTimeout \in Nat \ {0} /\ SlowTimeout \in Nat \ {0}

Loop == {"poll", "sampleHost"}

VARIABLES
  run,         \* where main's goroutine is
  err,         \* what Run returns: "nil" or "error"
  signalled,   \* Ctrl-C
  errc,        \* what Serve returned: "", "error", "ErrServerClosed"
  serving,     \* "no", "bound", "accepting", "ended"
  elapsed,     \* of the drain
  hubClosed,
  cancelled,   \* the context of the loops
  loop,        \* "off", "work" (in a call to the engine or the ui), "select", "done"
  engineClosed,
  conn,        \* what a connection's handler does
  left,        \* time until the handler's deadline
  released,    \* its subscriber was told to go
  forced       \* srv.Close closed the connections

mainVars == <<run, err, signalled, elapsed, hubClosed, cancelled, engineClosed, forced>>
httpVars == <<errc, serving>>
connVars == <<conn, left, released>>
vars     == <<mainVars, httpVars, loop, connVars>>

(* Run's deferred calls in the order they run, the reverse of their registration.  Mutant: *)
deferredSwapped == <<"ui.Close", "wg.Wait", "cancel">>

deferred == <<"ui.Close", "cancel", "wg.Wait">>

RunStates == {"new", "listen", "serve", "ui.Close before Shutdown", "Shutdown", "drain",
              "force", "returned", "Fatal", "Close", "exit"} \cup {deferred[i] : i \in DOMAIN deferred}

(* What a handler does: read the rest of its request, an engine call, a fetch of a     *)
(* remote torrent, a transfer, or one of the three parts of ServeEvents.               *)
Handler == {"idle", "body", "call", "fetch", "transfer", "subscribe", "stream", "write"}

TypeOK ==
  /\ run \in RunStates /\ err \in {"nil", "error"}
  /\ signalled \in BOOLEAN /\ hubClosed \in BOOLEAN /\ cancelled \in BOOLEAN
  /\ engineClosed \in BOOLEAN /\ forced \in BOOLEAN
  /\ errc \in {"", "error", "ErrServerClosed"}
  /\ serving \in {"no", "bound", "accepting", "ended"}
  /\ elapsed \in 0..ShutdownTimeout
  /\ loop \in [Loop -> {"off", "work", "select", "done"}]
  /\ conn \in [Conn -> Handler]
  /\ left \in [Conn -> 0..SlowTimeout]
  /\ released \in [Conn -> BOOLEAN]

Init ==
  /\ run = "new" /\ err = "nil"
  /\ signalled = FALSE /\ hubClosed = FALSE /\ cancelled = FALSE
  /\ engineClosed = FALSE /\ forced = FALSE
  /\ errc = "" /\ serving = "no" /\ elapsed = 0
  /\ loop = [l \in Loop |-> "off"]
  /\ conn = [c \in Conn |-> "idle"]
  /\ left = [c \in Conn |-> 0]
  /\ released = [c \in Conn |-> FALSE]

-----------------------------------------------------------------------------
(* main and Run. *)

Goto(from, to) == run = from /\ run' = to

CtrlC ==
  /\ ~signalled /\ run # "exit"
  /\ signalled' = TRUE
  /\ UNCHANGED <<run, err, elapsed, hubClosed, cancelled, engineClosed, forced, httpVars, loop, connVars>>

(* Both loops begin by drawing, or by taking a sample. *)
Run ==
  /\ Goto("new", "listen")
  /\ loop' = [l \in Loop |-> "work"]
  /\ UNCHANGED <<err, signalled, elapsed, hubClosed, cancelled, engineClosed, forced, httpVars, connVars>>

Return(e) == run' = deferred[1] /\ err' = e

Listen ==
  /\ Goto("listen", "serve")
  /\ serving' = "bound"
  /\ UNCHANGED <<err, errc, signalled, elapsed, hubClosed, cancelled, engineClosed, forced, loop, connVars>>

ListenFails ==
  /\ run = "listen"
  /\ Return("error")
  /\ UNCHANGED <<signalled, elapsed, hubClosed, cancelled, engineClosed, forced, httpVars, loop, connVars>>

(* The select: Serve ended by itself, or the signal came. *)
ServeEnded ==
  /\ run = "serve" /\ errc # ""
  /\ Return(IF errc = "ErrServerClosed" THEN "nil" ELSE "error")
  /\ UNCHANGED <<signalled, elapsed, hubClosed, cancelled, engineClosed, forced, httpVars, loop, connVars>>

ShuttingDown ==
  /\ signalled
  /\ Goto("serve", "ui.Close before Shutdown")
  /\ UNCHANGED <<err, signalled, elapsed, hubClosed, cancelled, engineClosed, forced, httpVars, loop, connVars>>

(* The hub is latched and every subscriber told to go. *)
closeHub ==
  /\ hubClosed' = TRUE
  /\ released' = [c \in Conn |-> released[c] \/ conn[c] \in {"stream", "write"}]

(* Mutant: Shutdown is left to release the streams. *)
ReleaseNothing ==
  /\ Goto("ui.Close before Shutdown", "Shutdown")
  /\ UNCHANGED <<hubClosed, released>>
  /\ UNCHANGED <<err, signalled, elapsed, cancelled, engineClosed, forced, httpVars, loop, conn, left>>

ReleaseStreams ==
  /\ Goto("ui.Close before Shutdown", "Shutdown")
  /\ closeHub
  /\ UNCHANGED <<err, signalled, elapsed, cancelled, engineClosed, forced, httpVars, loop, conn, left>>

(* srv.Shutdown: no more connections are accepted, then wait for those there are. *)
BeginShutdown ==
  /\ Goto("Shutdown", "drain")
  /\ serving' = "ended"
  /\ errc' = IF errc = "" THEN "ErrServerClosed" ELSE errc
  /\ UNCHANGED <<err, signalled, elapsed, hubClosed, cancelled, engineClosed, forced, loop, connVars>>

Drained ==
  /\ run = "drain"
  /\ \A c \in Conn : conn[c] = "idle"
  /\ Return("nil")
  /\ UNCHANGED <<signalled, elapsed, hubClosed, cancelled, engineClosed, forced, httpVars, loop, connVars>>

Expired == elapsed >= ShutdownTimeout

Overrun ==
  /\ Expired
  /\ Goto("drain", "force")
  /\ UNCHANGED <<err, signalled, elapsed, hubClosed, cancelled, engineClosed, forced, httpVars, loop, connVars>>

(* Mutant: an overrun is reported as a failed run. *)
ForceCloseFails ==
  /\ run = "force"
  /\ forced' = TRUE
  /\ Return("error")
  /\ UNCHANGED <<signalled, elapsed, hubClosed, cancelled, engineClosed, httpVars, loop, connVars>>

(* srv.Close closes the connections and waits for no handler. *)
ForceClose ==
  /\ run = "force"
  /\ forced' = TRUE
  /\ Return("nil")
  /\ UNCHANGED <<signalled, elapsed, hubClosed, cancelled, engineClosed, httpVars, loop, connVars>>

Deferred(i) ==
  /\ Goto(deferred[i], IF i < Len(deferred) THEN deferred[i + 1] ELSE "returned")
  /\ \/ run = "ui.Close" /\ closeHub /\ UNCHANGED cancelled
     \/ run = "cancel" /\ cancelled' = TRUE /\ UNCHANGED <<hubClosed, released>>
     \/ /\ run = "wg.Wait" /\ \A l \in Loop : loop[l] = "done"
        /\ UNCHANGED <<hubClosed, released, cancelled>>
  /\ UNCHANGED <<err, signalled, elapsed, engineClosed, forced, httpVars, loop, conn, left>>

(* log.Fatal exits without main's deferred Close. *)
Returned ==
  /\ Goto("returned", IF err = "error" THEN "exit" ELSE "Close")
  /\ UNCHANGED <<err, signalled, elapsed, hubClosed, cancelled, engineClosed, forced, httpVars, loop, connVars>>

Close ==
  /\ Goto("Close", "exit")
  /\ engineClosed' = TRUE
  /\ UNCHANGED <<err, signalled, elapsed, hubClosed, cancelled, forced, httpVars, loop, connVars>>

-----------------------------------------------------------------------------
(* The goroutine that serves. *)

Alive == run # "exit"

Accepting ==
  /\ Alive /\ serving = "bound"
  /\ serving' = "accepting"
  /\ UNCHANGED <<mainVars, errc, loop, connVars>>

ServeFails ==
  /\ Alive /\ serving = "accepting"
  /\ serving' = "ended" /\ errc' = "error"
  /\ UNCHANGED <<mainVars, loop, connVars>>

-----------------------------------------------------------------------------
(* A render loop; what it draws for is left out. *)

LoopWakes(l) ==
  /\ Alive /\ loop[l] = "select"
  /\ loop' = [loop EXCEPT ![l] = "work"]
  /\ UNCHANGED <<mainVars, httpVars, connVars>>

LoopWorked(l) ==
  /\ Alive /\ loop[l] = "work"
  /\ loop' = [loop EXCEPT ![l] = "select"]
  /\ UNCHANGED <<mainVars, httpVars, connVars>>

LoopStops(l) ==
  /\ Alive /\ loop[l] = "select" /\ cancelled
  /\ loop' = [loop EXCEPT ![l] = "done"]
  /\ UNCHANGED <<mainVars, httpVars, connVars>>

-----------------------------------------------------------------------------
(* The handlers. *)

Handle(c, from, to, time) ==
  /\ Alive
  /\ conn[c] \in from
  /\ conn' = [conn EXCEPT ![c] = to]
  /\ left' = [left EXCEPT ![c] = time]
  /\ UNCHANGED <<mainVars, httpVars, loop>>

Keep(c)   == UNCHANGED released
Forget(c) == released' = [released EXCEPT ![c] = FALSE]

Request(c) ==
  /\ serving = "accepting"
  /\ Keep(c)
  /\ \E to \in {"body", "call", "transfer", "subscribe"} : Handle(c, {"idle"}, to, 0)

(* readBody, ParseForm, ParseMultipartForm: the client has sent what it says, in its   *)
(* own time, since there is no ReadTimeout; or the handler refuses it.                 *)
BodyArrives(c) ==
  /\ Keep(c)
  /\ \/ \E to \in {"call", "idle"} : Handle(c, {"body"}, to, 0)
     \/ Handle(c, {"body"}, "fetch", SlowTimeout)

(* addURI: the remote answers, and the engine is called; or it fails or times out. *)
Fetched(c)    == Keep(c) /\ Handle(c, {"fetch"}, "call", 0)
FetchFails(c) == Keep(c) /\ Handle(c, {"fetch"}, "idle", 0)

(* The engine has returned, and the outcome is reported. *)
finishAPI(c) == Keep(c) /\ Handle(c, {"call"}, "idle", 0)

(* A file or an archive is sent, or cannot be. *)
TransferEnds(c) == Keep(c) /\ Handle(c, {"transfer"}, "idle", 0)

(* A subscriber of a closed hub is told at once; then the snapshot is written. *)
subscribe(c) ==
  /\ released' = [released EXCEPT ![c] = hubClosed]
  /\ Handle(c, {"subscribe"}, "write", SlowTimeout)

(* ServeEvents' loop. *)
Frame(c)     == Keep(c) /\ Handle(c, {"stream"}, "write", SlowTimeout)
Written(c)   == Keep(c) /\ Handle(c, {"write"}, "stream", 0)
WriteFails(c) == Forget(c) /\ Handle(c, {"write"}, "idle", 0)
Released(c)  == released[c] /\ Forget(c) /\ Handle(c, {"stream"}, "idle", 0)

(* The client went away, or the connection was closed: the request's context ends. *)
Disconnected(c) == Forget(c) /\ Handle(c, {"body", "stream", "write", "transfer", "fetch"}, "idle", 0)

-----------------------------------------------------------------------------
(* Time. *)

(* Somebody can go on: main, a handler that waits for nothing, or one at its deadline. *)
Busy ==
  \/ run \notin {"serve", "drain", "wg.Wait"}
  \/ run = "serve" /\ (signalled \/ errc # "" \/ serving = "bound")
  \/ run = "drain" /\ (Expired \/ \A c \in Conn : conn[c] = "idle")
  \/ run = "wg.Wait" /\ (cancelled \/ \A l \in Loop : loop[l] = "done")
  \/ \E c \in Conn : \/ conn[c] \in {"call", "subscribe"}
                     \/ conn[c] = "stream" /\ released[c]
                     \/ conn[c] \in {"fetch", "write"} /\ left[c] = 0
                     \/ forced /\ conn[c] # "idle"

Tick ==
  /\ ~Busy
  /\ elapsed' = IF run = "drain" THEN elapsed + 1 ELSE elapsed
  /\ left' = [c \in Conn |-> IF left[c] > 0 THEN left[c] - 1 ELSE 0]
  /\ UNCHANGED <<run, err, signalled, hubClosed, cancelled, engineClosed, forced, httpVars,
                 loop, conn, released>>

-----------------------------------------------------------------------------
Main ==
  \/ Run \/ Listen \/ ListenFails \/ ServeEnded \/ ShuttingDown
  \/ ReleaseStreams \/ BeginShutdown \/ Drained \/ Overrun \/ ForceClose
  \/ \E i \in DOMAIN deferred : Deferred(i)
  \/ Returned \/ Close

Next ==
  \/ CtrlC \/ Main \/ Accepting \/ ServeFails \/ Tick
  \/ \E l \in Loop : LoopWakes(l) \/ LoopWorked(l) \/ LoopStops(l)
  \/ \E c \in Conn : \/ Request(c) \/ BodyArrives(c) \/ Fetched(c) \/ FetchFails(c)
                     \/ finishAPI(c) \/ TransferEnds(c) \/ subscribe(c)
                     \/ Frame(c) \/ Written(c) \/ WriteFails(c) \/ Released(c)
                     \/ Disconnected(c)

Spec == Init /\ [][Next]_vars

(* Goroutines that can run do, and time passes.  ctx.Done and a subscriber's done are *)
(* alternatives of a select with others, which does not pass over them for ever.      *)
(* Transfers need never end, remotes never answer, browsers never read, and a request  *)
(* need never be complete.                                                             *)
Fairness ==
  /\ WF_vars(Main) /\ WF_vars(Accepting) /\ WF_vars(Tick)
  /\ \A l \in Loop : WF_vars(LoopWorked(l)) /\ SF_vars(LoopStops(l))
  /\ \A c \in Conn : /\ WF_vars(finishAPI(c))
                     /\ WF_vars(subscribe(c))
                     /\ SF_vars(Released(c))
                     /\ WF_vars(left[c] = 0 /\ (WriteFails(c) \/ FetchFails(c)))
                     /\ WF_vars(forced /\ Disconnected(c))

FairSpec == Spec /\ Fairness

-----------------------------------------------------------------------------
(* Properties. *)

(* A signal ends the process, whatever transfers, remotes and clients do (Run, main). *)
ShutdownTerminates == signalled ~> run = "exit"

(* No render loop runs when the engine is closed, or ever after (Run's wg.Wait before  *)
(* main's deferred Close).                                                             *)
LoopsEndFirst == engineClosed \/ run = "Close" => \A l \in Loop : loop[l] = "done"

(* A shutdown that was asked for releases the engine, an overrun drain included: only  *)
(* a server that could not serve exits without (Run's error, log.Fatal).               *)
RequestedIsClean ==
  run = "exit" => engineClosed \/ serving = "no" \/ errc = "error"

(* Streams do not use up the drain: time passes in it only for a handler that waits    *)
(* for something outside the server (ui.Close before srv.Shutdown, hub.subscribe).     *)
StreamsDoNotDelay ==
  [][elapsed' > elapsed => \E c \in Conn : conn[c] \in {"body", "transfer", "fetch", "write"}]_vars
=============================================================================
