---------------------------- MODULE ConfigStore -----------------------------
(***************************************************************************)
(* The settings: POST /api/configure from parsing the form to the renamed  *)
(* file, and start-up, across shutdowns, crashes and power losses.         *)
(*                                                                         *)
(* Three copies of the configuration are at stake: the file, the server's  *)
(* `desired` (what the form shows and merges over) and the engine's, which *)
(* is what runs.  A handler holds configMu from before it reads `desired`  *)
(* until after it has set it; the engine applies under its own lock; the   *)
(* file is written to a temporary one, synced and renamed.  A power loss   *)
(* can undo a rename the directory was not flushed after, and leaves a     *)
(* file whose bytes were never synced truncated.                           *)
(*                                                                         *)
(* A configuration is AutoStart, the only field that applies live, the     *)
(* directory, which may be given relative to the one the process runs in   *)
(* and is made absolute before the engine sees it, and one value for all   *)
(* the others; BadOther is one Validate rejects.                           *)
(***************************************************************************)
EXTENDS FiniteSets

CONSTANTS
  Request,       \* POST /api/configure handlers in flight
  Cwd,           \* directories the process may be started in
  Here,          \* what a relative directory is under
  Name,          \* the rest of a directory's path
  DefaultName,   \* ./downloads
  Other,         \* the other settings, as far as Validate accepts them
  DefaultOther,  \* those of Defaults()
  BadOther,      \* settings Validate rejects: a port out of range
  Keep,          \* a field the form does not carry
  Missing, Torn, \* a file that is not there, a truncated one
  Nobody

Directory == [under : Cwd \cup {Here}, name : Name]
Config    == [AutoStart : BOOLEAN, dir : Directory, other : Other \cup {BadOther}]
Form      == [AutoStart : {"true", "false", "absent"}, dir : Directory \cup {Keep},
              other : Other \cup {BadOther, Keep}]
Defaults  == [AutoStart |-> TRUE, dir |-> [under |-> Here, name |-> DefaultName],
              other |-> DefaultOther]

ASSUME ConfigStoreAssumption ==
  /\ Here \notin Cwd /\ DefaultName \in Name
  /\ DefaultOther \in Other
  /\ {BadOther, Keep} \cap Other = {} /\ BadOther # Keep /\ Keep \notin Directory
  /\ {Missing, Torn} \cap Config = {} /\ Missing # Torn
  /\ Nobody \notin Request

VARIABLES
  up, closed,    \* the process runs; its engine is closed
  cwd,           \* where it runs
  live,          \* engine.Config()
  desired,       \* Server.desired
  configMu,      \* its holder
  pc, c,         \* each handler: where it stands, the merged configuration
  tmp,           \* the temporary file: "none", "created", "written", "synced"
  file,          \* what reading the file returns
  whole,         \* its bytes were synced
  disk           \* the version a power loss can bring back instead

handlerVars == <<pc, c>>
fileVars    == <<tmp, file, whole, disk>>
vars        == <<up, closed, cwd, live, desired, configMu, handlerVars, fileVars>>

TypeOK ==
  /\ up \in BOOLEAN /\ closed \in BOOLEAN
  /\ cwd \in Cwd \cup {Here}
  /\ live \in Config /\ desired \in Config
  /\ configMu \in Request \cup {Nobody}
  /\ pc \in [Request -> {"idle", "lock", "parse", "apply", "create", "write", "sync",
                         "rename", "desire"}]
  /\ c \in [Request -> Config]
  /\ tmp \in {"none", "created", "written", "synced"}
  /\ file \in Config \cup {Missing, Torn}
  /\ whole \in BOOLEAN
  /\ disk \in Config \cup {Missing}

Validate(cfg) == cfg.other # BadOther

Absolute(w, cfg) == IF cfg.dir.under = Here THEN [cfg EXCEPT !.dir.under = w] ELSE cfg

(* Mutant: no field applies live. *)
needsRestartAlways(old, next) == old # next

needsRestart(old, next) == [old EXCEPT !.AutoStart = next.AutoStart] # next

(* A checkbox is paired with a hidden field, so "absent" and "off" differ. *)
parseConfig(f, current) ==
  [AutoStart |-> IF f.AutoStart = "absent" THEN current.AutoStart ELSE f.AutoStart = "true",
   dir       |-> IF f.dir = Keep THEN current.dir ELSE f.dir,
   other     |-> IF f.other = Keep THEN current.other ELSE f.other]

(* The first start may find no file, or one somebody put there. *)
Init ==
  /\ up = FALSE /\ closed = FALSE
  /\ cwd = Here /\ live = Defaults /\ desired = Defaults
  /\ configMu = Nobody
  /\ pc = [r \in Request |-> "idle"]
  /\ c = [r \in Request |-> Defaults]
  /\ tmp = "none"
  /\ file \in {cfg \in Config : Validate(cfg)} \cup {Missing}
  /\ whole = TRUE
  /\ disk = file

-----------------------------------------------------------------------------
(* Start-up and the ways a process ends. *)

Load(contents) == IF contents = Missing THEN Defaults ELSE contents

(* New: load, apply to a fresh engine, write nothing.  It refuses a file that    *)
(* does not parse, or a configuration Validate rejects.  torrent.NewClient may   *)
(* refuse the others, for a port that another program holds, say: the process    *)
(* then ends as it began, and nothing has changed.                               *)
Start ==
  /\ ~up
  /\ file # Torn
  /\ \E w \in Cwd :
       /\ Validate(Absolute(w, Load(file)))
       /\ cwd' = w
       /\ live' = Absolute(w, Load(file)) /\ desired' = Absolute(w, Load(file))
  /\ up' = TRUE /\ closed' = FALSE
  /\ UNCHANGED <<configMu, handlerVars, fileVars>>

(* main's deferred Close. *)
CloseEngine ==
  /\ up /\ ~closed
  /\ closed' = TRUE
  /\ UNCHANGED <<up, cwd, live, desired, configMu, handlerVars, fileVars>>

(* The process is gone, whatever its handlers were doing. *)
Ended ==
  /\ up' = FALSE
  /\ configMu' = Nobody
  /\ pc' = [r \in Request |-> "idle"]
  /\ tmp' = "none"
  /\ cwd' = Here /\ live' = Defaults /\ desired' = Defaults
  /\ c' = [r \in Request |-> Defaults]
  /\ closed' = FALSE

(* It exits, crashes or is killed; what it wrote is in the file system. *)
Exit == up /\ Ended /\ UNCHANGED <<file, whole, disk>>

(* External: the machine goes down with it. *)
PowerLoss ==
  /\ Ended
  /\ file' \in {disk, IF whole THEN file ELSE Torn}
  /\ whole' = TRUE
  /\ disk' = file'

(* External: the kernel writes back the directory and the file. *)
Flush ==
  /\ whole' = TRUE
  /\ disk' = file
  /\ UNCHANGED <<up, closed, cwd, live, desired, configMu, handlerVars, tmp, file>>

-----------------------------------------------------------------------------
(* handleConfigure. *)

(* The form is read before the lock is taken; what it says matters from Parse on. *)
Submit(r) ==
  /\ up
  /\ pc[r] = "idle"
  /\ pc' = [pc EXCEPT ![r] = "lock"]
  /\ UNCHANGED <<up, closed, cwd, live, desired, configMu, c, fileVars>>

(* Mutant: the lock is taken for the write only, after the merge. *)
LockNothing(r) ==
  /\ pc[r] = "lock"
  /\ pc' = [pc EXCEPT ![r] = "parse"]
  /\ UNCHANGED <<up, closed, cwd, live, desired, configMu, c, fileVars>>

Lock(r) ==
  /\ pc[r] = "lock"
  /\ configMu = Nobody
  /\ configMu' = r
  /\ pc' = [pc EXCEPT ![r] = "parse"]
  /\ UNCHANGED <<up, closed, cwd, live, desired, c, fileVars>>

Goto(r, next) == pc' = [pc EXCEPT ![r] = next]

(* The handler returns, with an error or without: configMu is released and what *)
(* it held is gone.                                                             *)
Return(r) ==
  /\ Goto(r, "idle")
  /\ configMu' = Nobody
  /\ c' = [c EXCEPT ![r] = Defaults]

(* A form with an empty directory or a port that is no number changes nothing. *)
BadRequest(r) ==
  /\ pc[r] = "parse"
  /\ Return(r)
  /\ UNCHANGED <<up, closed, cwd, live, desired, fileVars>>

Parse(r, f) ==
  /\ pc[r] = "parse"
  /\ c' = [c EXCEPT ![r] = parseConfig(f, desired)]
  /\ Goto(r, "apply")
  /\ UNCHANGED <<up, closed, cwd, live, desired, configMu, fileVars>>

(* What passed Configure is applied, or waits for a restart, and is saved. *)
Accept(r, cfg) ==
  /\ live' = IF needsRestart(live, cfg) THEN live ELSE cfg
  /\ c' = [c EXCEPT ![r] = cfg]
  /\ Goto(r, "create")
  /\ UNCHANGED configMu

(* Mutant: Configure asks whether a restart is needed before it validates. *)
applyRestartFirst(r) ==
  /\ pc[r] = "apply"
  /\ LET cfg == Absolute(cwd, c[r]) IN
     IF ~closed /\ (needsRestart(live, cfg) \/ Validate(cfg))
     THEN Accept(r, cfg)
     ELSE Return(r) /\ UNCHANGED live
  /\ UNCHANGED <<up, closed, cwd, desired, fileVars>>

(* applyConfig: the directory is made absolute, and engine.Configure applies it *)
(* to the running client.  Needing a restart is not a failure here: what cannot *)
(* be applied is saved all the same, and NewClient has not tried it.            *)
applyConfig(r) ==
  /\ pc[r] = "apply"
  /\ LET cfg == Absolute(cwd, c[r]) IN
     IF Validate(cfg) /\ ~closed
     THEN Accept(r, cfg)
     ELSE Return(r) /\ UNCHANGED live
  /\ UNCHANGED <<up, closed, cwd, desired, fileVars>>

(* filepath.Abs finds no working directory. *)
NoCwd(r) ==
  /\ pc[r] = "apply" /\ c[r].dir.under = Here
  /\ Return(r)
  /\ UNCHANGED <<up, closed, cwd, live, desired, fileVars>>

(* writeAtomic, up to the rename: each step can fail, which removes the temporary file. *)
WriteTemp(r, from, to, state) ==
  /\ pc[r] = from
  /\ tmp' = state
  /\ Goto(r, to)
  /\ UNCHANGED <<up, closed, cwd, live, desired, configMu, c, file, whole, disk>>

CreateTemp(r) == WriteTemp(r, "create", "write", "created")
Write(r)      == WriteTemp(r, "write", "sync", "written")
Sync(r)       == WriteTemp(r, "sync", "rename", "synced")

Rename(r) ==
  /\ pc[r] = "rename"
  /\ tmp' = "none"
  /\ file' = c[r]
  /\ whole' = (tmp = "synced")
  /\ Goto(r, "desire")
  /\ UNCHANGED <<up, closed, cwd, live, desired, configMu, c, disk>>

(* Mutant: a save that failed is remembered as desired. *)
SaveFailsDesired(r) ==
  /\ pc[r] \in {"create", "write", "sync", "rename"}
  /\ tmp' = "none"
  /\ desired' = c[r]
  /\ Return(r)
  /\ UNCHANGED <<up, closed, cwd, live, file, whole, disk>>

SaveFails(r) ==
  /\ pc[r] \in {"create", "write", "sync", "rename"}
  /\ tmp' = "none"
  /\ Return(r)
  /\ UNCHANGED <<up, closed, cwd, live, desired, file, whole, disk>>

(* Only now that the file holds it. *)
SetDesired(r) ==
  /\ pc[r] = "desire"
  /\ desired' = c[r]
  /\ Return(r)
  /\ UNCHANGED <<up, closed, cwd, live, fileVars>>

-----------------------------------------------------------------------------
Next ==
  \/ Start \/ CloseEngine \/ Exit \/ PowerLoss \/ Flush
  \/ \E r \in Request :
       \/ Submit(r) \/ Lock(r) \/ BadRequest(r)
       \/ \E f \in Form : Parse(r, f)
       \/ applyConfig(r) \/ NoCwd(r)
       \/ CreateTemp(r) \/ Write(r) \/ Sync(r) \/ Rename(r) \/ SaveFails(r)
       \/ SetDesired(r)

Spec == Init /\ [][Next]_vars

-----------------------------------------------------------------------------
(* Properties. *)

(* The server never leaves itself a file that does not parse or that Validate       *)
(* rejects, whatever is submitted and whenever the machine goes down (Configure's    *)
(* order of checks, writeAtomic).  That a client can be built from it is not said: a *)
(* port that another program holds is saved untried.                                 *)
FileIsValid == file # Torn /\ Validate(Load(file))

Renamed(r) == pc[r] = "desire"

(* While the server runs, what the form shows is what the file says where the server *)
(* runs, except between a rename and the assignment that follows it under configMu   *)
(* (reconfigure, applyConfig).                                                       *)
DesiredIsFile ==
  up /\ (\A r \in Request : ~Renamed(r)) => desired = Absolute(cwd, Load(file))

(* What runs differs from what is saved in nothing but settings that wait for a      *)
(* restart, as soon as a save has succeeded: AutoStart alone is never left behind    *)
(* when the other settings agree (reconfigure, Configure).                           *)
OnlyRestartPending ==
  [][\A r \in Request :
       Renamed(r) /\ SetDesired(r) /\ live.dir = desired'.dir /\ live.other = desired'.other
         => live = desired']_vars

(* Saving is atomic: reading, merging, applying, writing and renaming amount to one  *)
(* change of the saved configuration, by the fields of one form and by pinning a     *)
(* relative directory to where the server runs; so no save undoes another            *)
(* (handleConfigure, configMu).                                                      *)
Pinned(w, f, cfg) == Absolute(w, parseConfig(f, cfg))

Atomic == INSTANCE Settings WITH
  Configs <- {cfg \in Config : Validate(cfg)},
  Forms   <- Form,
  Places  <- Cwd,
  Merge   <- Pinned,
  saved   <- Load(file),
  kept    <- Load(disk)

SavesAreAtomic == Atomic!Spec

(* "AutoStart is the exception, and the only one: ... so it applies live" (engine.go) *)
(* and "Everything except Auto-start takes effect on the next start" (README.md).  It *)
(* does not while another setting waits for a restart.                                *)
AutoStartAppliesLive ==
  [][\A r \in Request : SetDesired(r) => live.AutoStart = desired'.AutoStart]_vars
=============================================================================
