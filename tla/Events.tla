------------------------------- MODULE Events -------------------------------
(***************************************************************************)
(* The live page: the two render loops, the renderer's cache, the hub and  *)
(* one /events handler per connected browser.                              *)
(*                                                                         *)
(* One region is modelled, stats: it is the one both loops draw, and the   *)
(* others go through the same steps from one loop only.  What a region     *)
(* shows is the number of the host sample it was drawn from; two draws of  *)
(* one sample render the same bytes.  A loop reads the sample before it    *)
(* takes UI.mu; under UI.mu it changes the cache (renderer.mu) and then    *)
(* the queues (hub.mu), in two critical sections of their own, between     *)
(* which a handler can subscribe or take its snapshot.                     *)
(*                                                                         *)
(* When a loop draws is left open here: that is module RenderLoop.         *)
(***************************************************************************)
EXTENDS Integers, Sequences

CONSTANTS
  Browser,     \* each has at most one connection at a time
  SubBuffer,   \* subBuffer, frames that may queue for one browser
  MaxSample    \* bound on the host samples taken

ASSUME EventsAssumption == SubBuffer \in Nat \ {0} /\ MaxSample \in Nat \ {0}

NoFrame == 0
Frame   == 1..MaxSample
Loop    == {"poll", "sampleHost"}
Nobody  == "nobody"

VARIABLES
  latest,        \* sampledStats.system
  loop, drawing, \* where each loop stands, and the sample it is drawing
  mu,            \* who holds UI.mu
  framedBody,    \* the renderer's cache
  subs, closed,  \* the hub
  toStall,       \* subscribers hub.close copied and has not stalled yet
  handler,       \* where each browser's /events handler stands
  ch, done,      \* its subscriber: the queue, and whether done is closed
  shown          \* what the browser shows

loopVars    == <<latest, loop, drawing, mu>>
hubVars     == <<subs, closed, toStall>>
handlerVars == <<handler, ch, done, shown>>
vars        == <<loopVars, framedBody, hubVars, handlerVars>>

TypeOK ==
  /\ latest \in Frame
  /\ loop \in [Loop -> {"idle", "gate", "lock", "render", "broadcast"}]
  /\ drawing \in [Loop -> Frame \cup {NoFrame}]
  /\ mu \in Loop \cup {Nobody}
  /\ framedBody \in Frame \cup {NoFrame}
  /\ subs \in SUBSET Browser
  /\ closed \in BOOLEAN
  /\ toStall \in SUBSET Browser
  /\ handler \in [Browser -> {"off", "snapshot", "loop", "leave"}]
  /\ ch \in [Browser -> Seq(Frame)]
  /\ \A b \in Browser : Len(ch[b]) <= SubBuffer
  /\ done \in [Browser -> BOOLEAN]
  /\ shown \in [Browser -> Frame \cup {NoFrame}]

(* Before the first host sample, the zero one is what a loop would draw. *)
Init ==
  /\ latest = 1
  /\ loop = [l \in Loop |-> "idle"]
  /\ drawing = [l \in Loop |-> NoFrame]
  /\ mu = Nobody
  /\ framedBody = NoFrame
  /\ subs = {} /\ closed = FALSE /\ toStall = {}
  /\ handler = [b \in Browser |-> "off"]
  /\ ch = [b \in Browser |-> <<>>]
  /\ done = [b \in Browser |-> TRUE]
  /\ shown = [b \in Browser |-> NoFrame]

-----------------------------------------------------------------------------
(* The loops: renderStats, RenderStats, emit. *)

(* sampleHost takes a reading whether or not anyone is watching. *)
Sample ==
  /\ loop["sampleHost"] = "idle"
  /\ latest < MaxSample
  /\ latest' = latest + 1
  /\ loop' = [loop EXCEPT !["sampleHost"] = "gate"]
  /\ UNCHANGED <<drawing, mu, framedBody, hubVars, handlerVars>>

(* poll is woken by a sample of the engine or a kick. *)
Wake ==
  /\ loop["poll"] = "idle"
  /\ loop' = [loop EXCEPT !["poll"] = "gate"]
  /\ UNCHANGED <<latest, drawing, mu, framedBody, hubVars, handlerVars>>

(* Nothing is drawn for nobody; the sample is read before UI.mu is taken. *)
renderStats(l) ==
  /\ loop[l] = "gate"
  /\ IF subs = {}
     THEN /\ loop' = [loop EXCEPT ![l] = "idle"]
          /\ UNCHANGED drawing
     ELSE /\ loop' = [loop EXCEPT ![l] = "lock"]
          /\ drawing' = [drawing EXCEPT ![l] = latest]
  /\ UNCHANGED <<latest, mu, framedBody, hubVars, handlerVars>>

(* Mutant: UI.mu is not taken. *)
LockNothing(l) ==
  /\ loop[l] = "lock"
  /\ loop' = [loop EXCEPT ![l] = "render"]
  /\ UNCHANGED <<latest, drawing, mu, framedBody, hubVars, handlerVars>>

Lock(l) ==
  /\ loop[l] = "lock"
  /\ mu = Nobody
  /\ mu' = l
  /\ loop' = [loop EXCEPT ![l] = "render"]
  /\ UNCHANGED <<latest, drawing, framedBody, hubVars, handlerVars>>

(* A template that fails drops the frame and leaves the cache alone. *)
RenderFails(l) ==
  /\ loop[l] = "render"
  /\ mu' = Nobody
  /\ loop' = [loop EXCEPT ![l] = "idle"]
  /\ UNCHANGED <<latest, drawing, framedBody, hubVars, handlerVars>>

(* store: an unchanged region broadcasts nothing. *)
store(l) ==
  /\ loop[l] = "render"
  /\ framedBody' = drawing[l]
  /\ IF framedBody = drawing[l]
     THEN loop' = [loop EXCEPT ![l] = "idle"] /\ mu' = Nobody
     ELSE loop' = [loop EXCEPT ![l] = "broadcast"] /\ UNCHANGED mu
  /\ UNCHANGED <<latest, drawing, hubVars, handlerVars>>

(* Mutant: a frame that does not fit is dropped. *)
broadcastLossy(l) ==
  /\ loop[l] = "broadcast"
  /\ ch' = [b \in Browser |-> IF b \in subs /\ Len(ch[b]) < SubBuffer
                              THEN Append(ch[b], drawing[l]) ELSE ch[b]]
  /\ loop' = [loop EXCEPT ![l] = "idle"]
  /\ mu' = Nobody
  /\ UNCHANGED <<latest, drawing, framedBody, hubVars, handler, done, shown>>

(* A subscriber without room for the frame is stalled, not skipped. *)
broadcast(l) ==
  /\ loop[l] = "broadcast"
  /\ LET room(b) == Len(ch[b]) < SubBuffer
     IN  /\ ch' = [b \in Browser |-> IF b \in subs /\ room(b)
                                     THEN Append(ch[b], drawing[l]) ELSE ch[b]]
         /\ done' = [b \in Browser |-> done[b] \/ (b \in subs /\ ~room(b))]
  /\ loop' = [loop EXCEPT ![l] = "idle"]
  /\ mu' = Nobody
  /\ UNCHANGED <<latest, drawing, framedBody, hubVars, handler, shown>>

-----------------------------------------------------------------------------
(* ServeEvents: one connection of a browser. *)

(* Mutant: the hub does not remember that it was closed. *)
subscribeAnyway(b) ==
  /\ handler[b] = "off"
  /\ handler' = [handler EXCEPT ![b] = "snapshot"]
  /\ ch' = [ch EXCEPT ![b] = <<>>]
  /\ done' = [done EXCEPT ![b] = FALSE]
  /\ subs' = subs \cup {b}
  /\ UNCHANGED <<loopVars, framedBody, closed, toStall, shown>>

(* A browser connects, for the first time or again: a new subscriber, which a *)
(* closed hub releases at once.                                               *)
subscribe(b) ==
  /\ handler[b] = "off"
  /\ handler' = [handler EXCEPT ![b] = "snapshot"]
  /\ ch' = [ch EXCEPT ![b] = <<>>]
  /\ done' = [done EXCEPT ![b] = closed]
  /\ subs' = IF closed THEN subs ELSE subs \cup {b}
  /\ UNCHANGED <<loopVars, framedBody, closed, toStall, shown>>

(* The snapshot is written before anything is taken from the queue; an empty *)
(* cache writes nothing.                                                     *)
snapshot(b) ==
  /\ handler[b] = "snapshot"
  /\ handler' = [handler EXCEPT ![b] = "loop"]
  /\ shown' = [shown EXCEPT ![b] = IF framedBody = NoFrame THEN @ ELSE framedBody]
  /\ UNCHANGED <<loopVars, framedBody, hubVars, ch, done>>

Deliver(b) ==
  /\ handler[b] = "loop"
  /\ ch[b] # <<>>
  /\ shown' = [shown EXCEPT ![b] = Head(ch[b])]
  /\ ch' = [ch EXCEPT ![b] = Tail(ch[b])]
  /\ UNCHANGED <<loopVars, framedBody, hubVars, handler, done>>

(* The browser went away, or a write to it failed or timed out. *)
Disconnect(b) ==
  /\ \/ handler[b] = "snapshot" /\ framedBody # NoFrame
     \/ handler[b] = "loop"
  /\ handler' = [handler EXCEPT ![b] = "leave"]
  /\ UNCHANGED <<loopVars, framedBody, hubVars, ch, done, shown>>

(* Mutant: the handler does not watch done. *)
NeverReleased(b) == FALSE

(* The select sees done; while frames are queued it may take one of them first. *)
Released(b) ==
  /\ handler[b] = "loop"
  /\ done[b]
  /\ handler' = [handler EXCEPT ![b] = "leave"]
  /\ UNCHANGED <<loopVars, framedBody, hubVars, ch, done, shown>>

(* Mutant: a handler that returns leaves its subscriber behind. *)
unsubscribeStallOnly(b) ==
  /\ handler[b] = "leave"
  /\ handler' = [handler EXCEPT ![b] = "off"]
  /\ done' = [done EXCEPT ![b] = TRUE]
  /\ UNCHANGED <<loopVars, framedBody, hubVars, ch, shown>>

unsubscribe(b) ==
  /\ handler[b] = "leave"
  /\ handler' = [handler EXCEPT ![b] = "off"]
  /\ subs' = subs \ {b}
  /\ done' = [done EXCEPT ![b] = TRUE]
  /\ UNCHANGED <<loopVars, framedBody, closed, toStall, ch, shown>>

-----------------------------------------------------------------------------
(* hub.close: latch and empty the hub under its lock, stall the copies after. *)

close ==
  /\ ~closed
  /\ closed' = TRUE
  /\ toStall' = subs
  /\ subs' = {}
  /\ UNCHANGED <<loopVars, framedBody, handlerVars>>

StallOne(b) ==
  /\ b \in toStall
  /\ toStall' = toStall \ {b}
  /\ done' = [done EXCEPT ![b] = TRUE]
  /\ UNCHANGED <<loopVars, framedBody, subs, closed, handler, ch, shown>>

-----------------------------------------------------------------------------
Draw(l) == renderStats(l) \/ Lock(l) \/ store(l) \/ broadcast(l)

Next ==
  \/ Sample \/ Wake \/ close
  \/ \E l \in Loop : \/ renderStats(l) \/ Lock(l) \/ RenderFails(l)
                     \/ store(l) \/ broadcast(l)
  \/ \E b \in Browser : \/ subscribe(b) \/ snapshot(b) \/ Deliver(b) \/ Disconnect(b)
                        \/ Released(b) \/ unsubscribe(b) \/ StallOne(b)

Spec == Init /\ [][Next]_vars

(* Runnable goroutines are scheduled.  Released is an alternative of a select whose   *)
(* other cases can be ready each time round; the runtime's random pick does not pass *)
(* over it for ever.  Nothing is assumed of when a browser comes, goes or returns,   *)
(* nor that a loop ever draws again.                                                 *)
Fairness ==
  /\ \A l \in Loop : WF_vars(Draw(l))
  /\ \A b \in Browser : /\ WF_vars(snapshot(b) \/ unsubscribe(b))
                        /\ WF_vars(Deliver(b))
                        /\ WF_vars(Released(b))
                        /\ WF_vars(StallOne(b))

FairSpec == Spec /\ Fairness

-----------------------------------------------------------------------------
(* Properties. *)

Publishing == \E l \in Loop : loop[l] = "broadcast"

(* What the browser will show once it has read everything sent to it. *)
Awaited(b) == IF ch[b] = <<>> THEN shown[b] ELSE ch[b][Len(ch[b])]

(* A browser that has its snapshot and has not been told to go away never misses a *)
(* change: with what is queued for it, it ends on the cached region, except while  *)
(* a frame is between the cache and the queues (subscribe, snapshot, store,        *)
(* broadcast).                                                                     *)
NothingMissed ==
  ~Publishing =>
    \A b \in Browser : handler[b] = "loop" /\ ~done[b] /\ ~closed =>
      Awaited(b) = framedBody

(* The hub counts exactly the connections it still has to serve, so nothing is     *)
(* drawn for browsers that are gone, and ConnectedUsers is right (subscribe,       *)
(* unsubscribe, close).                                                            *)
WatchersAreConnected ==
  subs = IF closed THEN {} ELSE {b \in Browser : handler[b] # "off"}

(* Once the hub is closed, every connection has been told to end or is about to    *)
(* be, one made after the close included (hub.closed).                             *)
ClosedReleasesAll ==
  closed => \A b \in Browser : handler[b] # "off" => done[b] \/ b \in toStall

(* A browser that stays connected comes to show the cached region once no more     *)
(* samples change it (ServeEvents, broadcast).                                     *)
Converges ==
  \A b \in Browser :
    <>[](handler[b] = "loop" => shown[b] = framedBody)
      \/ []<>(handler[b] # "loop")

(* A stalled subscriber, or one of a closed hub, lets go of its handler            *)
(* (ServeEvents).                                                                  *)
StalledLeaves ==
  \A b \in Browser : done[b] /\ handler[b] # "off" ~> handler[b] = "off"
=============================================================================
