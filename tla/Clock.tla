-------------------------------- MODULE Clock --------------------------------
(***************************************************************************)
(* The clock of the engine's samples, which its sampleLoop (Sampling) and  *)
(* the server's renderLoop (RenderLoop) are both timed by.                 *)
(***************************************************************************)
EXTENDS Integers

CONSTANTS
  Interval,   \* engine.SampleInterval, in time units
  MaxTime     \* bound on the clock

VARIABLE now

None == 0     \* time.Time{}: the clock starts at 1
=============================================================================
