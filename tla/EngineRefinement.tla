-------------------------- MODULE EngineRefinement --------------------------
(* The engine implements TorrentLifecycle under this mapping. *)
EXTENDS Engine

phaseOf(h) ==
  IF h \notin known THEN "absent"
  ELSE IF ~rec[h].Started
       THEN IF rec[h].t = None THEN "stopped" ELSE "added"
       ELSE IF rec[h].t \notin info THEN "waiting"
            ELSE IF rec[h].t \notin downloading THEN "ready" ELSE "running"

phases == [h \in Hash |-> phaseOf(h)]

shut == ctxDone /\ client = "nil"

Lifecycle == INSTANCE TorrentLifecycle WITH phase <- phases, closed <- shut

(* Every step of the engine is a step of the lifecycle or invisible in it, and a  *)
(* torrent that is flagged as running and whose metadata is known downloads,      *)
(* unless it is stopped or deleted or the engine closes first (engine.go: addSpec *)
(* to Close).                                                                     *)
ImplementsLifecycle == Lifecycle!FairSpec
=============================================================================
