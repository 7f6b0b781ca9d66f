------------------------------ MODULE Settings ------------------------------
(***************************************************************************)
(* What saving the settings promises: one save is one atomic change of the *)
(* fields its form carries, a directory that depends on where the server   *)
(* runs pinned to that place, and it survives a restart.  Only a power     *)
(* loss can take saves back, to what the disk had last caught up with.     *)
(***************************************************************************)
CONSTANTS
  Configs,       \* configurations that may be saved
  Forms,         \* partial configurations users submit
  Places,        \* where the server may run
  Merge(_, _, _) \* a form laid over a configuration at a place

VARIABLES
  saved,     \* what the next start will use
  kept       \* the saved value the disk is sure to hold

vars == <<saved, kept>>

TypeOK == saved \in Configs /\ kept \in Configs

Init == saved \in Configs /\ kept = saved

Save(w, f) ==
  /\ Merge(w, f, saved) \in Configs
  /\ saved' = Merge(w, f, saved)
  /\ UNCHANGED kept

(* The disk catches up. *)
Flush == kept' = saved /\ UNCHANGED saved

PowerLoss == saved' = kept /\ UNCHANGED kept

Next == Flush \/ PowerLoss \/ \E w \in Places, f \in Forms : Save(w, f)

Spec == Init /\ [][Next]_vars
=============================================================================
