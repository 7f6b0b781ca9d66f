----------------------------- MODULE RenderLoop -----------------------------
(***************************************************************************)
(* When the page is redrawn: renderLoop.poll, woken by the engine's sample *)
(* signal or by a kick, and the floor under kick-driven renders.           *)
(*                                                                         *)
(* What is drawn is reduced to one bit: `stale` says that the page differs *)
(* from the state it is drawn from.  Every wake-up goes through a one-slot *)
(* channel that never blocks the sender.  Time is counted in fractions of  *)
(* kickFloor and stands still while the loop or a sender can take a step:  *)
(* a render takes no time here, and a timer fires when it is due.          *)
(***************************************************************************)
EXTENDS Clock

CONSTANTS
  Caller,     \* API calls under way
  Browser,    \* browsers that connect and leave
  Floor       \* kickFloor

ASSUME RenderLoopAssumption ==
  /\ Floor \in Nat \ {0} /\ Interval \in Nat \ {0} /\ MaxTime \in Nat \ {0}
  /\ Caller \cap Browser = {}

Sender == Caller \cup Browser

VARIABLES
  stale,        \* the state changed since it was last drawn
  watching,     \* connected browsers
  toKick,       \* senders that changed something and have not kicked yet
  kickCh, sampled,   \* whether each channel holds a signal
  poll,         \* where the loop stands
  until,        \* when its wait ends
  lastRender,
  since,        \* when a connected browser first had a kick sent for it that was not drawn
  draws         \* renders since the last sample signal

vars == <<now, stale, watching, toKick, kickCh, sampled, poll, until, lastRender, since, draws>>

TypeOK ==
  /\ now \in 1..MaxTime
  /\ stale \in BOOLEAN
  /\ watching \in SUBSET Browser
  /\ toKick \in SUBSET Sender
  /\ kickCh \in BOOLEAN /\ sampled \in BOOLEAN
  /\ poll \in {"gate", "draw", "send", "select", "wait", "done"}
  /\ until \in 0..(MaxTime + Floor)
  /\ lastRender \in 0..now
  /\ since \in 0..now
  /\ draws \in Nat

Init ==
  /\ now = 1 /\ stale = TRUE
  /\ watching = {} /\ toKick = {}
  /\ kickCh = FALSE /\ sampled = FALSE
  /\ poll = "gate" /\ until = None /\ lastRender = None
  /\ since = None /\ draws = 0

-----------------------------------------------------------------------------
(* Those who wake the loop. *)

(* An API call changes the engine or the files, and kicks when it finishes. *)
Change(a) ==
  /\ a \notin toKick
  /\ stale' = TRUE
  /\ toKick' = toKick \cup {a}
  /\ UNCHANGED <<now, watching, kickCh, sampled, poll, until, lastRender, since, draws>>

(* /events subscribes, then kicks. *)
Connect(b) ==
  /\ b \notin watching
  /\ watching' = watching \cup {b}
  /\ toKick' = toKick \cup {b}
  /\ UNCHANGED <<now, stale, kickCh, sampled, poll, until, lastRender, since, draws>>

Disconnect(b) ==
  /\ b \in watching \ toKick
  /\ watching' = watching \ {b}
  /\ since' = IF watching' = {} THEN None ELSE since
  /\ UNCHANGED <<now, stale, toKick, kickCh, sampled, poll, until, lastRender, draws>>

(* Mutant: the channel has no buffer, so a kick the loop is not waiting for is lost. *)
kickUnbuffered(s) ==
  /\ s \in toKick
  /\ toKick' = toKick \ {s}
  /\ kickCh' = (kickCh \/ poll = "select")
  /\ since' = IF since = None /\ stale /\ watching # {} THEN now ELSE since
  /\ UNCHANGED <<now, stale, watching, sampled, poll, until, lastRender, draws>>

(* A kick while one is pending is absorbed by it. *)
kick(s) ==
  /\ s \in toKick
  /\ toKick' = toKick \ {s}
  /\ kickCh' = TRUE
  /\ since' = IF since = None /\ stale /\ watching # {} THEN now ELSE since
  /\ UNCHANGED <<now, stale, watching, sampled, poll, until, lastRender, draws>>

-----------------------------------------------------------------------------
(* poll. *)

(* render: nothing is drawn while nobody watches. *)
Gate ==
  /\ poll = "gate"
  /\ poll' = IF watching = {} THEN "select" ELSE "draw"
  /\ UNCHANGED <<now, stale, watching, toKick, kickCh, sampled, until, lastRender, since, draws>>

(* GetTorrents, List: what changes from here on is not in this drawing. *)
render ==
  /\ poll = "draw"
  /\ poll' = "send"
  /\ stale' = FALSE
  /\ since' = None
  /\ UNCHANGED <<now, watching, toKick, kickCh, sampled, until, lastRender, draws>>

(* The drawing is broadcast and render returns true. *)
Rendered ==
  /\ poll = "send"
  /\ poll' = "select"
  /\ lastRender' = now
  /\ draws' = draws + 1
  /\ UNCHANGED <<now, stale, watching, toKick, kickCh, sampled, until, since>>

TakeSample ==
  /\ poll = "select"
  /\ sampled
  /\ sampled' = FALSE
  /\ poll' = "gate"
  /\ UNCHANGED <<now, stale, watching, toKick, kickCh, until, lastRender, since, draws>>

(* Mutant: the full floor is waited for from the kick on. *)
kickDelayFull(at, last) == Floor

(* Mutant: kicks are not spaced. *)
kickDelayNone(at, last) == 0

(* How long a kick received now must wait: the floor counts from the last render. *)
kickDelay(at, last) ==
  IF last = None \/ at - last >= Floor THEN 0 ELSE Floor - (at - last)

TakeKick ==
  /\ poll = "select"
  /\ kickCh
  /\ kickCh' = FALSE
  /\ LET wait == kickDelay(now, lastRender)
     IN  /\ poll' = IF wait > 0 THEN "wait" ELSE "gate"
         /\ until' = IF wait > 0 THEN now + wait ELSE None
  /\ UNCHANGED <<now, stale, watching, toKick, sampled, lastRender, since, draws>>

WaitOver ==
  /\ poll = "wait"
  /\ now >= until
  /\ poll' = "gate"
  /\ until' = None
  /\ UNCHANGED <<now, stale, watching, toKick, kickCh, sampled, lastRender, since, draws>>

(* Run's context is cancelled: the loop sees it in either of its selects. *)
Stop ==
  /\ poll \in {"select", "wait"}
  /\ poll' = "done"
  /\ until' = None
  /\ UNCHANGED <<now, stale, watching, toKick, kickCh, sampled, lastRender, since, draws>>

(* Nobody can act at this instant. *)
Quiet ==
  /\ toKick = {}
  /\ \/ poll = "select" /\ ~kickCh /\ ~sampled
     \/ poll = "wait" /\ now < until
     \/ poll = "done"

(* Time passes; the engine signals its samples, each with something new to draw. *)
Advance ==
  /\ Quiet
  /\ now < MaxTime
  /\ now' = now + 1
  /\ IF now' % Interval = 0
     THEN sampled' = TRUE /\ stale' = TRUE /\ draws' = 0
     ELSE UNCHANGED <<sampled, stale, draws>>
  /\ UNCHANGED <<watching, toKick, kickCh, poll, until, lastRender, since>>

Next ==
  \/ \E a \in Caller : Change(a)
  \/ \E b \in Browser : Connect(b) \/ Disconnect(b)
  \/ \E s \in Sender : kick(s)
  \/ Gate \/ render \/ Rendered \/ TakeSample \/ TakeKick \/ WaitOver \/ Stop
  \/ Advance

Spec == Init /\ [][Next]_vars

-----------------------------------------------------------------------------
(* Properties. *)

(* A browser is never left on a stale page with nothing on its way to redraw it: a   *)
(* signal is pending, the loop is about to draw, or a sender is about to kick,       *)
(* whatever instant the kick or the connection fell on, until the server stops       *)
(* (kick, poll, ServeEvents).                                                        *)
NoLostWakeup ==
  stale /\ watching # {} /\ poll # "done" =>
    kickCh \/ sampled \/ poll \in {"gate", "draw", "wait"} \/ toKick # {}

(* What a kick was sent for is drawn at once, or as soon as the floor since the last *)
(* render is over: a lone click does not pay for the bound on bursts (kickDelay).    *)
Prompt ==
  since # None /\ poll # "done" => now = since \/ (lastRender # None /\ now <= lastRender + Floor)

(* However many kicks come, between one sample signal and the next the loop draws at   *)
(* most once for every floor that begins there and once more for the sample (kickDelay, *)
(* the coalescing channels).                                                            *)
BurstsAreBounded == draws <= (Interval - 1) \div Floor + 1 + 1
=============================================================================
