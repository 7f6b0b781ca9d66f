-------------------------- MODULE TorrentLifecycle --------------------------
(***************************************************************************)
(* What the engine promises of each torrent, without handles, watchers or  *)
(* locks: what it can be doing, which steps lead from one phase to the     *)
(* next, and that a torrent which can download eventually does.            *)
(***************************************************************************)
CONSTANT Hash

VARIABLES phase, closed

vars == <<phase, closed>>

Phase == {"absent",   \* not in the list
          "added",    \* in the list, never started since it was added
          "stopped",  \* stopped by the user
          "waiting",  \* flagged as running, metadata not known yet
          "ready",    \* flagged as running, metadata known, not downloading yet
          "running"}  \* downloading

TypeOK == phase \in [Hash -> Phase] /\ closed \in BOOLEAN

Init == phase = [h \in Hash |-> "absent"] /\ closed = FALSE

Move(h, from, to) ==
  /\ ~closed
  /\ phase[h] \in from
  /\ \E p \in to : phase' = [phase EXCEPT ![h] = p]
  /\ UNCHANGED closed

Add(h)       == Move(h, {"absent", "stopped"}, {"added"})
Start(h)     == Move(h, {"added", "stopped"}, {"waiting", "running"})
AutoStart(h) == Move(h, {"added"}, {"running"})
Resolve(h)   == Move(h, {"waiting"}, {"ready"})
Resume(h)    == Move(h, {"ready"}, {"running"})
Stop(h)      == Move(h, {"waiting", "ready", "running"}, {"stopped"})
Delete(h)    == Move(h, Phase \ {"absent"}, {"absent"})

(* Closing empties the list, and it stays empty. *)
Close ==
  /\ ~closed
  /\ closed' = TRUE
  /\ phase' = [h \in Hash |-> "absent"]

Next ==
  \/ \E h \in Hash : \/ Add(h) \/ Start(h) \/ AutoStart(h) \/ Resolve(h)
                     \/ Resume(h) \/ Stop(h) \/ Delete(h)
  \/ Close

Spec == Init /\ [][Next]_vars

FairSpec == Spec /\ \A h \in Hash : WF_vars(Resume(h))
=============================================================================
