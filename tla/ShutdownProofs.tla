---------------------------- MODULE ShutdownProofs ----------------------------
(***************************************************************************)
(* Theorems about Shutdown, for any connections and timeouts.              *)
(*                                                                         *)
(* Run's deferred calls are only reached in their order, so what wg.Wait   *)
(* waited for holds whenever a later state does; a loop that is done stays *)
(* so, since only Run starts one, and Run is not called twice.             *)
(***************************************************************************)
EXTENDS Shutdown, TLAPS

Over == {"returned", "Close", "exit"}

(* Where the loops stand: none is started before Run, none is left after it. *)
LoopInv ==
  /\ run \in Over => \A l \in Loop : loop[l] = "done"
  /\ engineClosed => run = "exit"

(* Why Run returns an error, and what it takes to exit. *)
ErrorInv ==
  /\ run \in {"new", "listen"} => serving = "no" /\ err = "nil"
  /\ err = "error" => serving = "no" \/ errc = "error"
  /\ errc \in {"", "error", "ErrServerClosed"}
  /\ err \in {"nil", "error"}
  /\ run \notin {"ui.Close", "cancel", "wg.Wait", "returned", "exit"} => err = "nil"
  /\ run = "exit" => err = "error" \/ engineClosed

IInv == loop \in [Loop -> {"off", "work", "select", "done"}] /\ LoopInv /\ ErrorInv

LEMMA InitInv == Init => IInv
  BY DEF Init, IInv, LoopInv, ErrorInv, Over

LEMMA DeferredDomain == DOMAIN deferred = 1..3 /\ Len(deferred) = 3
  BY DEF deferred

(* The order of the deferred calls. *)
LEMMA DeferredFacts ==
  /\ deferred[1] = "ui.Close"
  /\ \A i \in DOMAIN deferred :
       LET next == IF i < Len(deferred) THEN deferred[i + 1] ELSE "returned"
       IN  \/ deferred[i] = "ui.Close" /\ next = "cancel"
           \/ deferred[i] = "cancel" /\ next = "wg.Wait"
           \/ deferred[i] = "wg.Wait" /\ next = "returned"
<1>1. Len(deferred) = 3 /\ DOMAIN deferred = 1..3
  BY DEF deferred
<1>2. deferred[1] = "ui.Close" /\ deferred[2] = "cancel" /\ deferred[3] = "wg.Wait"
  BY DEF deferred
<1>3. deferred[1 + 1] = "cancel" /\ deferred[2 + 1] = "wg.Wait"
  BY DEF deferred
<1>4. ASSUME NEW i \in DOMAIN deferred PROVE i \in {1, 2, 3}
  BY <1>1
<1> QED
  BY <1>1, <1>2, <1>3, <1>4

LEMMA StepInv == IInv /\ [Next]_vars => IInv'
<1> SUFFICES ASSUME IInv, [Next]_vars PROVE IInv'
  OBVIOUS
<1> USE DEF IInv, LoopInv, ErrorInv, Over, mainVars, httpVars, connVars, Goto, Return
<1>1. CASE CtrlC
  BY <1>1 DEF CtrlC
<1>2. CASE Run
  BY <1>2 DEF Run
<1>3. CASE Listen
  BY <1>3 DEF Listen
<1>4. CASE ListenFails
  BY <1>4, DeferredFacts DEF ListenFails
<1>5. CASE ServeEnded
  BY <1>5, DeferredFacts DEF ServeEnded
<1>6. CASE ShuttingDown
  BY <1>6 DEF ShuttingDown
<1>7. CASE ReleaseStreams
  BY <1>7 DEF ReleaseStreams
<1>8. CASE BeginShutdown
  BY <1>8 DEF BeginShutdown
<1>9. CASE Drained
  BY <1>9, DeferredFacts DEF Drained
<1>10. CASE Overrun
  BY <1>10 DEF Overrun
<1>11. CASE ForceClose
  BY <1>11, DeferredFacts DEF ForceClose
<1>12. ASSUME NEW i \in DOMAIN deferred, Deferred(i) PROVE IInv'
  <2>1. UNCHANGED <<err, engineClosed, errc, serving, loop>>
    BY <1>12 DEF Deferred
  <2>2. CASE run = "ui.Close" /\ run' = "cancel"
    BY <2>1, <2>2
  <2>3. CASE run = "cancel" /\ run' = "wg.Wait"
    BY <2>1, <2>3
  <2>4. CASE run = "wg.Wait" /\ run' = "returned"
    <3>1. \A l \in Loop : loop[l] = "done"
      BY <1>12, <2>4 DEF Deferred
    <3> QED
      BY <2>1, <2>4, <3>1
  <2> QED
    BY <1>12, <2>2, <2>3, <2>4, DeferredFacts DEF Deferred
<1>13. CASE Returned
  BY <1>13 DEF Returned
<1>14. CASE Close
  BY <1>14 DEF Close
<1>15. CASE Accepting
  BY <1>15 DEF Accepting, Alive
<1>16. CASE ServeFails
  BY <1>16 DEF ServeFails, Alive
<1>17. CASE Tick
  BY <1>17 DEF Tick
<1>18. ASSUME NEW l \in Loop, LoopWakes(l) \/ LoopWorked(l) \/ LoopStops(l) PROVE IInv'
  <2>1. run # "exit" /\ loop[l] # "done" /\ UNCHANGED <<mainVars, httpVars>>
    BY <1>18 DEF LoopWakes, LoopWorked, LoopStops, Alive
  <2>2. run \notin Over
    BY <2>1
  <2>3. loop' \in [Loop -> {"off", "work", "select", "done"}]
    BY <1>18 DEF LoopWakes, LoopWorked, LoopStops
  <2> QED
    BY <2>1, <2>2, <2>3
<1>19. ASSUME NEW c \in Conn,
              \/ Request(c) \/ BodyArrives(c) \/ Fetched(c) \/ FetchFails(c) \/ finishAPI(c)
              \/ TransferEnds(c) \/ subscribe(c) \/ Frame(c) \/ Written(c) \/ WriteFails(c) \/ Released(c)
              \/ Disconnected(c)
       PROVE IInv'
  <2>1. UNCHANGED <<mainVars, httpVars, loop>>
    BY <1>19 DEF Request, BodyArrives, Fetched, FetchFails, finishAPI, TransferEnds, subscribe, Frame,
                 Written, WriteFails, Released, Disconnected, Handle
  <2> QED
    BY <2>1
<1>20. CASE UNCHANGED vars
  BY <1>20 DEF vars
<1> QED
  BY <1>1, <1>2, <1>3, <1>4, <1>5, <1>6, <1>7, <1>8, <1>9, <1>10, <1>11, <1>12, <1>13, <1>14,
     <1>15, <1>16, <1>17, <1>18, <1>19, <1>20 DEF Next, Main

(* The invariant of a shutdown holds in every reachable state. *)
THEOREM ShutdownInvariant == Spec => []IInv
<1>1. Init => IInv
  BY InitInv
<1>2. IInv /\ [Next]_vars => IInv'
  BY StepInv
<1> QED
  BY <1>1, <1>2, PTL DEF Spec

(* No render loop runs when the engine is closed, or ever after. *)
THEOREM LoopsAreJoined == Spec => []LoopsEndFirst
<1>1. IInv => LoopsEndFirst
  BY DEF IInv, LoopInv, LoopsEndFirst, Over
<1> QED
  BY <1>1, ShutdownInvariant, PTL

(* A shutdown that was asked for releases the engine, an overrun drain included. *)
THEOREM ShutdownIsClean == Spec => []RequestedIsClean
<1>1. IInv => RequestedIsClean
  BY DEF IInv, ErrorInv, RequestedIsClean
<1> QED
  BY <1>1, ShutdownInvariant, PTL

-----------------------------------------------------------------------------
(* Wherever a deferred call leads, Run has a name for it.                              *)
LEMMA DeferredStates ==
  /\ deferred[1] \in RunStates
  /\ \A i \in DOMAIN deferred :
       (IF i < Len(deferred) THEN deferred[i + 1] ELSE "returned") \in RunStates
<1>1. deferred[1] = "ui.Close" /\ deferred[2] = "cancel" /\ deferred[3] = "wg.Wait"
  BY DEF deferred
<1>2. 1 \in DOMAIN deferred /\ 2 \in DOMAIN deferred /\ 3 \in DOMAIN deferred
  BY DeferredDomain
<1>3. /\ deferred[1] \in RunStates /\ deferred[2] \in RunStates /\ deferred[3] \in RunStates
      /\ "returned" \in RunStates
  BY <1>2 DEF RunStates
<1>4. ASSUME NEW i \in DOMAIN deferred, i < Len(deferred) PROVE deferred[i + 1] \in RunStates
  <2>1. i \in {1, 2}
    BY <1>4, DeferredDomain
  <2>2. CASE i = 1
    BY <1>3, <2>2
  <2>3. CASE i = 2
    BY <1>3, <2>3
  <2> QED
    BY <2>1, <2>2, <2>3
<1> QED
  BY <1>3, <1>4

(* A handler of a connection leaves the rest alone and keeps its own types.            *)
LEMMA HandlerTypes ==
  ASSUME TypeOK, NEW c \in Conn,
         \/ Request(c) \/ BodyArrives(c) \/ Fetched(c) \/ FetchFails(c) \/ finishAPI(c)
         \/ TransferEnds(c) \/ subscribe(c) \/ Frame(c) \/ Written(c) \/ WriteFails(c) \/ Released(c)
         \/ Disconnected(c)
  PROVE  TypeOK'
<1>1. \E to \in Handler, time \in {0, SlowTimeout} :
        /\ conn' = [conn EXCEPT ![c] = to]
        /\ left' = [left EXCEPT ![c] = time]
        /\ UNCHANGED <<mainVars, httpVars, loop>>
  BY DEF Request, BodyArrives, Fetched, FetchFails, finishAPI, TransferEnds, subscribe,
     Frame, Written, WriteFails, Released, Disconnected, Handler, Handle
<1>5. {0, SlowTimeout} \subseteq 0..SlowTimeout
  BY ShutdownAssumption
<1>2. released' \in [Conn -> BOOLEAN]
  BY DEF TypeOK, Request, BodyArrives, Fetched, FetchFails, finishAPI, TransferEnds, subscribe, Frame,
         Written, WriteFails, Released, Disconnected, Keep, Forget
<1>3. conn' \in [Conn -> Handler] /\ left' \in [Conn -> 0..SlowTimeout]
  BY <1>1, <1>5 DEF TypeOK
<1>4. UNCHANGED <<mainVars, httpVars, loop>>
  BY <1>1
<1> QED
  BY <1>2, <1>3, <1>4 DEF TypeOK, mainVars, httpVars

LEMMA TypeStep == TypeOK /\ [Next]_vars => TypeOK'
<1> SUFFICES ASSUME TypeOK, [Next]_vars PROVE TypeOK'
  OBVIOUS
<1> USE DEF TypeOK, mainVars, httpVars, connVars, Goto
<1>1. CASE CtrlC
  BY <1>1 DEF CtrlC
<1>2. CASE Run
  BY <1>2 DEF Run, RunStates
<1>3. CASE Listen
  BY <1>3 DEF Listen, RunStates
<1>4. CASE ListenFails
  BY DeferredStates, <1>4 DEF ListenFails, Return
<1>5. CASE ServeEnded
  BY DeferredStates, <1>5 DEF ServeEnded, Return
<1>6. CASE ShuttingDown
  BY <1>6 DEF ShuttingDown, RunStates
<1>7. CASE ReleaseStreams
  BY <1>7 DEF ReleaseStreams, closeHub, RunStates
<1>8. CASE BeginShutdown
  BY <1>8 DEF BeginShutdown, RunStates
<1>9. CASE Drained
  BY DeferredStates, <1>9 DEF Drained, Return
<1>10. CASE Overrun
  BY <1>10 DEF Overrun, RunStates
<1>11. CASE ForceClose
  BY DeferredStates, <1>11 DEF ForceClose, Return
<1>12. ASSUME NEW i \in DOMAIN deferred, Deferred(i) PROVE TypeOK'
  <2>1. run' = IF i < Len(deferred) THEN deferred[i + 1] ELSE "returned"
    BY <1>12 DEF Deferred
  <2>2. run' \in RunStates
    BY <2>1, DeferredStates, Zenon
  <2> QED
    BY <1>12, <2>2 DEF Deferred, closeHub
<1>13. CASE Returned
  BY <1>13 DEF Returned, RunStates
<1>14. CASE Close
  BY <1>14 DEF Close, RunStates
<1>15. CASE Accepting
  BY <1>15 DEF Accepting
<1>16. CASE ServeFails
  BY <1>16 DEF ServeFails
<1>17. CASE Tick
  <2>1. elapsed' \in 0..ShutdownTimeout
    <3>1. ShutdownTimeout \in Nat /\ elapsed \in 0..ShutdownTimeout
      BY ShutdownAssumption
    <3>2. CASE run = "drain"
      <4>1. ~(elapsed >= ShutdownTimeout) /\ elapsed' = elapsed + 1
        BY <1>17, <3>2 DEF Tick, Busy, Expired
      <4> HIDE DEF TypeOK
      <4> QED
        BY <3>1, <4>1
    <3>3. CASE run # "drain"
      BY <1>17, <3>1, <3>3 DEF Tick
    <3> QED
      BY <3>2, <3>3
  <2>2. left' \in [Conn -> 0..SlowTimeout]
    <3>1. SlowTimeout \in Nat /\ left \in [Conn -> 0..SlowTimeout]
      BY ShutdownAssumption
    <3>2. left' = [c \in Conn |-> IF left[c] > 0 THEN left[c] - 1 ELSE 0]
      BY <1>17 DEF Tick
    <3>3. ASSUME NEW c \in Conn PROVE (IF left[c] > 0 THEN left[c] - 1 ELSE 0) \in 0..SlowTimeout
      <4>1. left[c] \in 0..SlowTimeout
        BY <3>1
      <4> HIDE DEF TypeOK
      <4> QED
        BY <3>1, <4>1
    <3> QED
      BY <3>2, <3>3
  <2> QED
    BY <1>17, <2>1, <2>2 DEF Tick
<1>18. ASSUME NEW l \in Loop, LoopWakes(l) \/ LoopWorked(l) \/ LoopStops(l) PROVE TypeOK'
  <2>1. loop' \in [Loop -> {"off", "work", "select", "done"}]
    BY <1>18 DEF LoopWakes, LoopWorked, LoopStops
  <2> QED
    BY <1>18, <2>1 DEF LoopWakes, LoopWorked, LoopStops
<1>19. CASE UNCHANGED vars
  BY <1>19 DEF vars
<1> QED
  BY <1>1, <1>2, <1>3, <1>4, <1>5, <1>6, <1>7, <1>8, <1>9, <1>10, <1>11, <1>12, <1>13, <1>14,
     <1>15, <1>16, <1>17, <1>18, <1>19, HandlerTypes DEF Next, Main

(* Every variable has its type: the drain never lasts longer than shutdownTimeout, nor *)
(* a handler's wait longer than its deadline (Run, Client.Torrent, ServeEvents).       *)
THEOREM ShutdownTypes == Spec => []TypeOK
<1>1. Init => TypeOK
  <2> SUFFICES ASSUME Init PROVE TypeOK
    OBVIOUS
  <2>0. ShutdownTimeout \in Nat /\ SlowTimeout \in Nat
    BY ShutdownAssumption
  <2>4. elapsed = 0
    BY DEF Init
  <2>1. elapsed \in 0..ShutdownTimeout
    BY <2>0, <2>4
  <2>3. 0 \in 0..SlowTimeout
    BY <2>0
  <2>2. left \in [Conn -> 0..SlowTimeout]
    BY <2>3 DEF Init
  <2> QED
    BY <2>1, <2>2 DEF Init, TypeOK, RunStates, Handler
<1> QED
  BY <1>1, TypeStep, PTL DEF Spec

-----------------------------------------------------------------------------
(* From the latching of the hub on, every stream has been told to go: those there were *)
(* by closeHub, those that come later as they subscribe.                               *)
HubInv ==
  /\ run \in {"Shutdown", "drain", "force"} => hubClosed
  /\ hubClosed => \A c \in Conn : conn[c] \in {"stream", "write"} => released[c]

ClosingInv == TypeOK /\ HubInv

(* Only a handler that ends forgets that it was told. *)
LEMMA HandlerHeedsHub ==
  ASSUME ClosingInv, NEW c \in Conn,
         \/ Request(c) \/ BodyArrives(c) \/ Fetched(c) \/ FetchFails(c) \/ finishAPI(c)
         \/ TransferEnds(c) \/ subscribe(c) \/ Frame(c) \/ Written(c) \/ WriteFails(c) \/ Released(c)
         \/ Disconnected(c)
  PROVE  HubInv'
<1> USE DEF ClosingInv, TypeOK, Handle, Keep, Forget
<1>1. UNCHANGED <<run, hubClosed>>
  BY DEF Request, BodyArrives, Fetched, FetchFails, finishAPI, TransferEnds, subscribe, Frame, Written,
         WriteFails, Released, Disconnected, mainVars
<1>2. \A d \in Conn \ {c} : conn'[d] = conn[d] /\ released'[d] = released[d]
  BY DEF Request, BodyArrives, Fetched, FetchFails, finishAPI, TransferEnds, subscribe, Frame, Written,
         WriteFails, Released, Disconnected
<1>3. \/ conn'[c] \notin {"stream", "write"}
      \/ conn[c] \in {"stream", "write"} /\ released'[c] = released[c]
      \/ released'[c] = hubClosed
  BY DEF Request, BodyArrives, Fetched, FetchFails, finishAPI, TransferEnds, subscribe, Frame, Written,
         WriteFails, Released, Disconnected
<1> QED
  BY <1>1, <1>2, <1>3 DEF HubInv

LEMMA HubStep == ClosingInv /\ [Next]_vars => HubInv'
<1> SUFFICES ASSUME ClosingInv, [Next]_vars PROVE HubInv'
  OBVIOUS
<1> DEFINE closing == {"Shutdown", "drain", "force"}
<1> USE DEF mainVars, connVars, Goto, Return
<1>0. ASSUME UNCHANGED <<hubClosed, conn, released>>, run' \in closing => run \in closing
      PROVE  HubInv'
  BY <1>0 DEF ClosingInv, HubInv
<1>1. CASE Run \/ Listen \/ ShuttingDown \/ Returned \/ Close
  <2>1. UNCHANGED <<hubClosed, conn, released>> /\ run' \notin closing
    BY <1>1 DEF Run, Listen, ShuttingDown, Returned, Close
  <2> QED BY <1>0, <2>1
<1>7. CASE BeginShutdown \/ Overrun
  <2>1. UNCHANGED <<hubClosed, conn, released>> /\ run \in closing
    BY <1>7 DEF BeginShutdown, Overrun
  <2> QED BY <1>0, <2>1
<1>2. CASE ListenFails \/ ServeEnded \/ Drained \/ ForceClose
  <2>1. UNCHANGED <<hubClosed, conn, released>> /\ run' = deferred[1]
    BY <1>2 DEF ListenFails, ServeEnded, Drained, ForceClose
  <2>2. deferred[1] \notin closing
    BY DeferredFacts
  <2> QED BY <1>0, <2>1, <2>2
<1>3. CASE ReleaseStreams
  BY <1>3 DEF ReleaseStreams, closeHub, ClosingInv, HubInv, TypeOK
<1>4. ASSUME NEW i \in DOMAIN deferred, Deferred(i) PROVE HubInv'
  <2>1. run' \in {"cancel", "wg.Wait", "returned"} /\ UNCHANGED conn
    BY <1>4, DeferredFacts DEF Deferred
  <2>2. closeHub \/ UNCHANGED <<hubClosed, released>>
    BY <1>4 DEF Deferred
  <2>3. CASE closeHub
    BY <2>1, <2>3 DEF closeHub, ClosingInv, HubInv, TypeOK
  <2> QED BY <1>0, <2>1, <2>2, <2>3
<1>5. CASE CtrlC \/ Accepting \/ ServeFails \/ Tick \/ UNCHANGED vars
  <2>1. UNCHANGED <<run, hubClosed, conn, released>>
    BY <1>5 DEF CtrlC, Accepting, ServeFails, Tick, vars
  <2> QED BY <1>0, <2>1
<1>6. ASSUME NEW l \in Loop, LoopWakes(l) \/ LoopWorked(l) \/ LoopStops(l) PROVE HubInv'
  <2>1. UNCHANGED <<run, hubClosed, conn, released>>
    BY <1>6 DEF LoopWakes, LoopWorked, LoopStops
  <2> QED BY <1>0, <2>1
<1> QED
  BY <1>1, <1>2, <1>3, <1>4, <1>5, <1>6, <1>7, HandlerHeedsHub DEF Next, Main

(* Streams do not use up the drain, for any connections and timeouts: time passes in it *)
(* only for a handler that waits for something outside the server.                     *)
THEOREM StreamsAreReleased == Spec => StreamsDoNotDelay
<1>1. Init => HubInv
  BY DEF Init, HubInv
<1>2. TypeOK /\ HubInv /\ [Next]_vars => HubInv'
  BY HubStep DEF ClosingInv
<1>3. TypeOK /\ HubInv /\ [Next]_vars =>
        [elapsed' > elapsed =>
           \E c \in Conn : conn[c] \in {"body", "transfer", "fetch", "write"}]_vars
  <2> SUFFICES ASSUME TypeOK, HubInv, Next, elapsed' > elapsed
               PROVE  \E c \in Conn : conn[c] \in {"body", "transfer", "fetch", "write"}
    OBVIOUS
  <2>1. CASE Tick
    <3>1. elapsed \in Nat /\ ~(elapsed > elapsed)
      <4>1. elapsed \in 0..ShutdownTimeout /\ ShutdownTimeout \in Nat
        BY ShutdownAssumption DEF TypeOK
      <4> QED BY <4>1
    <3>2. run = "drain"
      BY <2>1, <3>1 DEF Tick
    <3>3. PICK c \in Conn : conn[c] # "idle"
      BY <2>1, <3>2 DEF Tick, Busy
    <3>4. conn[c] \in Handler \ {"idle", "call", "subscribe"}
      BY <2>1, <3>3 DEF Tick, Busy, TypeOK
    <3>5. ~(conn[c] = "stream" /\ released[c])
      BY <2>1 DEF Tick, Busy
    <3> QED BY <3>2, <3>4, <3>5 DEF HubInv, Handler
  <2>2. CASE ~Tick
    <3>1. elapsed' = elapsed
      BY <2>2 DEF Next, Main, CtrlC, Run, Listen, ListenFails, ServeEnded, ShuttingDown,
           ReleaseStreams, BeginShutdown, Drained, Overrun, ForceClose, Deferred, Returned, Close,
           Accepting, ServeFails, LoopWakes, LoopWorked, LoopStops, Request, BodyArrives, Fetched, FetchFails,
           finishAPI, TransferEnds, subscribe, Frame, Written, WriteFails, Released,
           Disconnected, Handle, mainVars
    <3>2. elapsed \in 0..ShutdownTimeout /\ ShutdownTimeout \in Nat
      BY ShutdownAssumption DEF TypeOK
    <3>3. FALSE
      BY <3>1, <3>2
    <3> QED BY <3>3
  <2> QED BY <2>1, <2>2
<1> QED
  BY <1>1, <1>2, <1>3, ShutdownTypes, PTL DEF Spec, StreamsDoNotDelay
=============================================================================
