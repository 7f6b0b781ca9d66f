-------------------------- MODULE ConfigStoreProofs --------------------------
(***************************************************************************)
(* Theorems about ConfigStore, for every set of concurrent saves and every *)
(* set of settings.                                                        *)
(***************************************************************************)
EXTENDS ConfigStore, TLAPS

Good     == {cfg \in Config : Validate(cfg)}
Saving   == {"create", "write", "sync", "rename"}
Critical == {"parse", "apply", "desire"} \cup Saving

(* configMu: whoever is between reading desired and setting it holds the lock. *)
MuInv == \A r \in Request : pc[r] \in Critical => configMu = r

(* Handlers live in a process. *)
ProcessInv == (up => cwd \in Cwd) /\ (up \/ \A r \in Request : pc[r] = "idle")

(* Both versions of the file load, and their bytes are safe. *)
FileInv == file \in Good \cup {Missing} /\ disk \in Good \cup {Missing} /\ whole

(* What is renamed over the file was synced first. *)
TmpInv == \A r \in Request : pc[r] = "rename" => tmp = "synced"

(* A merged configuration is a form laid over what is desired now; it is pinned to  *)
(* where the server runs and validated before anything is written.                  *)
MergedInv ==
  \A r \in Request :
    /\ pc[r] = "apply" => \E f \in Form : c[r] = parseConfig(f, desired)
    /\ pc[r] \in Saving => \E f \in Form : c[r] = Pinned(cwd, f, desired)
    /\ pc[r] = "desire" => c[r] = Absolute(cwd, c[r])
    /\ pc[r] \in Saving \cup {"desire"} => Validate(c[r])
    /\ pc[r] = "desire" => file = c[r]

IInv == TypeOK /\ MuInv /\ ProcessInv /\ FileInv /\ TmpInv /\ MergedInv /\ DesiredIsFile

-----------------------------------------------------------------------------
LEMMA DefaultsAreGood == Defaults \in Good
  BY ConfigStoreAssumption DEF Defaults, Directory, Good, Config, Validate

LEMMA MergeType ==
  ASSUME NEW f \in Form, NEW cfg \in Config
  PROVE  parseConfig(f, cfg) \in Config
  BY DEF parseConfig, Form, Config

(* Where the server runs decides what a relative directory is, once and for all. *)
LEMMA AbsoluteType ==
  ASSUME NEW w \in Cwd, NEW cfg \in Config
  PROVE  /\ Absolute(w, cfg) \in Config
         /\ Validate(Absolute(w, cfg)) <=> Validate(cfg)
         /\ Absolute(w, Absolute(w, cfg)) = Absolute(w, cfg)
<1> DEFINE d == [under |-> w, name |-> cfg.dir.name]
<1>1. cfg.dir \in Directory /\ d \in Directory /\ w # Here
  BY ConfigStoreAssumption DEF Config, Directory
<1>2. CASE cfg.dir.under = Here
  <2>1. Absolute(w, cfg) = [cfg EXCEPT !.dir = d]
    BY <1>1, <1>2 DEF Absolute, Config, Directory
  <2> HIDE DEF d
  <2>2. Absolute(w, cfg) \in Config /\ Absolute(w, cfg).dir = d /\ Absolute(w, cfg).other = cfg.other
    BY <1>1, <2>1 DEF Config
  <2>3. Absolute(w, cfg).dir.under # Here
    BY <1>1, <2>2 DEF d
  <2> QED BY <2>2, <2>3 DEF Absolute, Validate
<1>3. CASE cfg.dir.under # Here
  BY <1>3 DEF Absolute
<1> QED BY <1>2, <1>3

(* It does not matter whether the directory is pinned before the merge as well. *)
LEMMA PinnedOnce ==
  ASSUME NEW w \in Cwd, NEW f \in Form, NEW cfg \in Config
  PROVE  Pinned(w, f, Absolute(w, cfg)) = Pinned(w, f, cfg)
<1> DEFINE a == Absolute(w, cfg)
<1>1. a \in Config /\ Absolute(w, a) = a
  BY AbsoluteType
<1>2. a.AutoStart = cfg.AutoStart /\ a.other = cfg.other
  BY DEF Absolute, Config
<1> HIDE DEF a
<1>3. CASE f.dir # Keep
  BY <1>2, <1>3 DEF a, Pinned, parseConfig
<1>4. CASE f.dir = Keep
  <2> DEFINE p == parseConfig(f, cfg)
             q == parseConfig(f, a)
  <2>1. p \in Config /\ q \in Config /\ p.dir = cfg.dir /\ q.dir = a.dir
        /\ p.AutoStart = q.AutoStart /\ p.other = q.other
    BY <1>1, <1>2, <1>4, MergeType DEF parseConfig
  <2> HIDE DEF p, q
  <2>2. CASE cfg.dir.under = Here
    <3>1. a.dir = [cfg.dir EXCEPT !.under = w] /\ a.dir.under # Here
      BY <2>2, ConfigStoreAssumption DEF a, Absolute, Config, Directory
    <3>2. Absolute(w, q) = q /\ Absolute(w, p) = [p EXCEPT !.dir.under = w]
      BY <2>1, <2>2, <3>1 DEF Absolute
    <3>3. [p EXCEPT !.dir.under = w] = [AutoStart |-> p.AutoStart, dir |-> [p.dir EXCEPT !.under = w],
                                        other |-> p.other]
      BY <2>1 DEF Config, Directory
    <3>4. q = [AutoStart |-> q.AutoStart, dir |-> q.dir, other |-> q.other]
      BY <2>1 DEF Config
    <3>5. Absolute(w, p) = q
      BY <2>1, <3>1, <3>2, <3>3, <3>4
    <3> QED BY <3>2, <3>5 DEF p, q, a, Pinned
  <2>3. CASE cfg.dir.under # Here
    BY <2>3 DEF a, Absolute
  <2> QED BY <2>2, <2>3
<1> QED BY <1>3, <1>4

LEMMA LoadType == \A contents \in Good \cup {Missing} : Load(contents) \in Good
  BY DefaultsAreGood DEF Load

LEMMA LoadGood == \A cfg \in Good : Load(cfg) = cfg
  BY ConfigStoreAssumption DEF Load, Good

LEMMA InitInv == Init => IInv
<1> SUFFICES ASSUME Init PROVE IInv
  OBVIOUS
<1>1. TypeOK
  BY DefaultsAreGood DEF Init, TypeOK, Good
<1>2. FileInv
  BY DEF Init, FileInv, Good
<1>3. MuInv /\ ProcessInv /\ TmpInv /\ MergedInv /\ DesiredIsFile
  BY DEF Init, MuInv, ProcessInv, TmpInv, MergedInv, DesiredIsFile, Critical, Saving
<1> QED BY <1>1, <1>2, <1>3 DEF IInv

(* The end of a process, with or without the machine. *)
LEMMA EndStep == ASSUME IInv, Exit \/ PowerLoss PROVE IInv'
<1> USE DEF IInv
<1>1. Ended
  BY DEF Exit, PowerLoss
<1>2. FileInv'
  BY DEF Exit, PowerLoss, FileInv
<1>3. TypeOK'
  BY <1>1, <1>2, DefaultsAreGood DEF Ended, FileInv, TypeOK, Good
<1> QED BY <1>1, <1>2, <1>3 DEF Ended, MuInv, ProcessInv, TmpInv, MergedInv, DesiredIsFile,
        Critical, Saving

LEMMA StartStep == ASSUME IInv, Start PROVE IInv'
<1> USE DEF IInv
<1>1. Load(file) \in Config
  BY LoadType DEF FileInv, Good
<1>2. PICK w \in Cwd : /\ Validate(Absolute(w, Load(file)))
                      /\ cwd' = w
                      /\ live' = Absolute(w, Load(file)) /\ desired' = Absolute(w, Load(file))
  BY DEF Start
<1>3. Absolute(w, Load(file)) \in Config
  BY <1>1, AbsoluteType
<1>4. up' = TRUE /\ closed' = FALSE /\ UNCHANGED <<configMu, pc, c, tmp, file, whole, disk>>
  BY DEF Start, handlerVars, fileVars
<1>5. \A r \in Request : pc'[r] = "idle"
  BY <1>4 DEF Start, ProcessInv
<1>6. TypeOK'
  BY <1>2, <1>3, <1>4 DEF TypeOK
<1>7. DesiredIsFile'
  BY <1>2, <1>4 DEF DesiredIsFile, Load
<1> QED BY <1>2, <1>4, <1>5, <1>6, <1>7 DEF MuInv, ProcessInv, FileInv, TmpInv, MergedInv, Critical, Saving

LEMMA ProcessStep == ASSUME IInv, CloseEngine \/ Flush PROVE IInv'
<1> USE DEF IInv
<1>1. CASE CloseEngine
  BY <1>1 DEF CloseEngine, handlerVars, fileVars, TypeOK, MuInv, ProcessInv, FileInv, TmpInv,
     MergedInv, DesiredIsFile, Renamed
<1>2. CASE Flush
  BY <1>2 DEF Flush, handlerVars, TypeOK, MuInv, ProcessInv, FileInv, TmpInv, MergedInv,
     DesiredIsFile, Renamed, Good
<1> QED BY <1>1, <1>2

(* A handler on its way to the lock and in it, before it has merged anything. *)
LEMMA EnterStep ==
  ASSUME IInv, NEW r \in Request, Submit(r) \/ Lock(r) \/ BadRequest(r)
  PROVE  IInv'
<1> USE DEF IInv, Critical, Saving
<1>1. CASE Submit(r)
  BY <1>1 DEF Submit, fileVars, TypeOK, MuInv, ProcessInv, FileInv, TmpInv, MergedInv,
     DesiredIsFile, Renamed
<1>2. CASE Lock(r)
  BY <1>2, ConfigStoreAssumption DEF Lock, fileVars, TypeOK, MuInv, ProcessInv, FileInv, TmpInv,
     MergedInv, DesiredIsFile, Renamed
<1>3. CASE BadRequest(r)
  <2>1. TypeOK'
    BY <1>3, DefaultsAreGood DEF BadRequest, Return, Goto, fileVars, TypeOK, Good
  <2> QED BY <1>3, <2>1 DEF BadRequest, Return, Goto, fileVars, TypeOK, MuInv, ProcessInv, FileInv,
          TmpInv, MergedInv, DesiredIsFile, Renamed
<1> QED BY <1>1, <1>2, <1>3

(* The merge, and applyConfig, which lets nothing pass that Validate rejects and pins *)
(* what passes.                                                                       *)
LEMMA MergeStep ==
  ASSUME IInv, NEW r \in Request, (\E f \in Form : Parse(r, f)) \/ NoCwd(r)
  PROVE  IInv'
<1> USE DEF IInv, Critical, Saving
<1>1. ASSUME NEW f \in Form, Parse(r, f) PROVE IInv'
  <2>1. parseConfig(f, desired) \in Config
    BY MergeType DEF TypeOK
  <2>2. TypeOK'
    BY <1>1, <2>1, DefaultsAreGood DEF Parse, Goto, fileVars, TypeOK
  <2>3. MergedInv'
    BY <1>1, <2>1 DEF Parse, Goto, fileVars, TypeOK, MergedInv
  <2> QED BY <1>1, <2>2, <2>3 DEF Parse, Goto, fileVars, TypeOK, MuInv, ProcessInv, FileInv, TmpInv,
          DesiredIsFile, Renamed
<1>2. CASE NoCwd(r)
  <2>1. TypeOK'
    BY <1>2, DefaultsAreGood DEF NoCwd, Return, Goto, fileVars, TypeOK, Good
  <2>2. MergedInv'
    BY <1>2 DEF NoCwd, Return, Goto, fileVars, TypeOK, MergedInv
  <2> QED BY <1>2, <2>1, <2>2 DEF NoCwd, Return, Goto, fileVars, TypeOK, MuInv, ProcessInv,
          FileInv, TmpInv, DesiredIsFile, Renamed
<1> QED BY <1>1, <1>2

LEMMA ApplyStep == ASSUME IInv, NEW r \in Request, applyConfig(r) PROVE IInv'
<1> USE DEF IInv, Critical, Saving
<1> DEFINE cfg == Absolute(cwd, c[r])
<1>1. pc[r] = "apply" /\ UNCHANGED <<up, closed, cwd, desired, tmp, file, whole, disk>>
  BY DEF applyConfig, fileVars
<1>2. cwd \in Cwd /\ c[r] \in Config
  BY <1>1 DEF ProcessInv, TypeOK
<1>3. cfg \in Config /\ Absolute(cwd, cfg) = cfg
  BY <1>2, AbsoluteType
<1>4. \E f \in Form : cfg = Pinned(cwd, f, desired)
  BY <1>1 DEF MergedInv, Pinned
<1>5. \/ Validate(cfg) /\ Accept(r, cfg)
      \/ Return(r) /\ UNCHANGED live
  BY DEF applyConfig
<1> HIDE DEF cfg
<1>6. CASE Validate(cfg) /\ Accept(r, cfg)
  <2>1. /\ live' \in {live, cfg} /\ configMu' = configMu
        /\ c' = [c EXCEPT ![r] = cfg] /\ pc' = [pc EXCEPT ![r] = "create"]
    BY <1>6 DEF Accept, Goto
  <2>2. TypeOK'
    BY <1>1, <1>3, <2>1 DEF TypeOK
  <2>3. MergedInv'
    BY <1>1, <1>4, <1>6, <2>1 DEF TypeOK, MergedInv
  <2> QED BY <1>1, <2>1, <2>2, <2>3 DEF TypeOK, MuInv, ProcessInv, FileInv, TmpInv, DesiredIsFile, Renamed
<1>7. CASE Return(r) /\ UNCHANGED live
  <2>1. TypeOK'
    BY <1>1, <1>7, DefaultsAreGood DEF Return, Goto, TypeOK, Good
  <2>2. MergedInv'
    BY <1>1, <1>7 DEF Return, Goto, TypeOK, MergedInv
  <2> QED BY <1>1, <1>7, <2>1, <2>2 DEF Return, Goto, TypeOK, MuInv, ProcessInv, FileInv, TmpInv,
          DesiredIsFile, Renamed
<1> QED BY <1>5, <1>6, <1>7

LEMMA WriteStep ==
  ASSUME IInv, NEW r \in Request, CreateTemp(r) \/ Write(r) \/ Sync(r)
  PROVE  IInv'
<1> USE DEF IInv, Critical, Saving
<1>1. CASE CreateTemp(r)
  BY <1>1 DEF CreateTemp, WriteTemp, Goto, TypeOK, MuInv, ProcessInv, FileInv, TmpInv, MergedInv,
     DesiredIsFile, Renamed
<1>2. CASE Write(r)
  BY <1>2 DEF Write, WriteTemp, Goto, TypeOK, MuInv, ProcessInv, FileInv, TmpInv, MergedInv,
     DesiredIsFile, Renamed
<1>3. CASE Sync(r)
  BY <1>3 DEF Sync, WriteTemp, Goto, TypeOK, MuInv, ProcessInv, FileInv, TmpInv, MergedInv,
     DesiredIsFile, Renamed
<1> QED BY <1>1, <1>2, <1>3

(* The file holds the merged configuration, and desired follows under the same lock. *)
LEMMA RenameStep == ASSUME IInv, NEW r \in Request, Rename(r) PROVE IInv'
<1> USE DEF IInv, Critical, Saving
<1>1. c[r] \in Good
  BY DEF Rename, TypeOK, MergedInv, Good
<1>2. FileInv'
  BY <1>1 DEF Rename, TmpInv, FileInv
<1>3. TypeOK'
  BY DEF Rename, Goto, TypeOK
<1>4. MergedInv'
  <2>1. c[r] = Absolute(cwd, c[r])
    <3>1. cwd \in Cwd /\ desired \in Config
      BY DEF Rename, ProcessInv, TypeOK
    <3>2. PICK f \in Form : c[r] = Absolute(cwd, parseConfig(f, desired))
      BY DEF Rename, MergedInv, Pinned
    <3> QED BY <3>1, <3>2, AbsoluteType, MergeType
  <2> QED BY <2>1 DEF Rename, Goto, TypeOK, MuInv, MergedInv
<1>5. DesiredIsFile'
  BY DEF Rename, Goto, TypeOK, DesiredIsFile, Renamed
<1> QED BY <1>2, <1>3, <1>4, <1>5 DEF Rename, Goto, TypeOK, MuInv, ProcessInv, TmpInv

LEMMA FinishStep ==
  ASSUME IInv, NEW r \in Request, SaveFails(r) \/ SetDesired(r)
  PROVE  IInv'
<1> USE DEF IInv, Critical, Saving
<1>1. TypeOK'
  BY DefaultsAreGood DEF SaveFails, SetDesired, Return, Goto, fileVars, TypeOK, Good
<1>2. CASE SaveFails(r)
  BY <1>1, <1>2 DEF SaveFails, Return, Goto, TypeOK, MuInv, ProcessInv, FileInv, TmpInv, MergedInv,
     DesiredIsFile, Renamed
<1>3. CASE SetDesired(r)
  <2>1. c[r] \in Good
    BY <1>3 DEF SetDesired, TypeOK, MergedInv, Good
  <2>2. DesiredIsFile'
    BY <1>3, <2>1, LoadGood DEF SetDesired, fileVars, MergedInv, DesiredIsFile
  <2>3. MergedInv'
    BY <1>3 DEF SetDesired, Return, Goto, fileVars, TypeOK, MuInv, MergedInv
  <2> QED BY <1>1, <1>3, <2>2, <2>3 DEF SetDesired, Return, Goto, fileVars, TypeOK, MuInv,
          ProcessInv, FileInv, TmpInv
<1> QED BY <1>2, <1>3

LEMMA StepInv == IInv /\ [Next]_vars => IInv'
<1> SUFFICES ASSUME IInv, [Next]_vars PROVE IInv'
  OBVIOUS
<1>1. CASE UNCHANGED vars
  BY <1>1 DEF vars, handlerVars, fileVars, IInv, TypeOK, MuInv, ProcessInv, FileInv, TmpInv,
     MergedInv, DesiredIsFile, Renamed
<1>2. CASE Next
  BY <1>2, EndStep, StartStep, ProcessStep, EnterStep, MergeStep, ApplyStep, WriteStep, RenameStep,
     FinishStep DEF Next
<1> QED BY <1>1, <1>2

THEOREM ConfigInvariant == Spec => []IInv
  BY InitInv, StepInv, PTL DEF Spec

(* Every variable has its type, the file and what a request carries included           *)
(* (parseConfig, writeAtomic).                                                         *)
THEOREM ConfigTypes == Spec => []TypeOK
<1>1. IInv => TypeOK
  BY DEF IInv
<1> QED BY <1>1, ConfigInvariant, PTL

(* Whatever is submitted, however many saves run at once and whenever the machine goes  *)
(* down, the next start finds a file that parses and that Validate accepts (Configure,  *)
(* writeAtomic).                                                                        *)
THEOREM FileStaysValid == Spec => []FileIsValid
<1>1. IInv => FileIsValid
  BY LoadType, ConfigStoreAssumption DEF IInv, FileInv, FileIsValid, Good
<1> QED BY <1>1, ConfigInvariant, PTL

(* The form shows what the file says where the server runs, from the start on, though   *)
(* the file may hold a relative directory (applyConfig, reconfigure, configMu).         *)
THEOREM DesiredFollowsFile == Spec => []DesiredIsFile
<1>1. IInv => DesiredIsFile
  BY DEF IInv
<1> QED BY <1>1, ConfigInvariant, PTL

-----------------------------------------------------------------------------
RestartFor(old, next) == old.dir # next.dir \/ old.other # next.other

(* What a save that passed Configure holds runs already, or waits for a restart. *)
LiveInv ==
  \A r \in Request : pc[r] \in Saving \cup {"desire"} => live = c[r] \/ RestartFor(live, c[r])

LEMMA NoRestartNeeded ==
  ASSUME NEW old \in Config, NEW next \in Config
  PROVE  needsRestart(old, next) <=> RestartFor(old, next)
  BY DEF needsRestart, Config, RestartFor

LEMMA LiveStep == IInv /\ LiveInv /\ [Next]_vars => LiveInv'
<1> SUFFICES ASSUME IInv, LiveInv, [Next]_vars PROVE LiveInv'
  OBVIOUS
<1> USE DEF IInv, LiveInv, Saving
<1>1. ASSUME NEW r \in Request, applyConfig(r) PROVE LiveInv'
  <2> DEFINE cfg == Absolute(cwd, c[r])
  <2>1. live \in Config /\ cfg \in Config
    BY <1>1, AbsoluteType DEF applyConfig, TypeOK, ProcessInv
  <2>2. \A k \in Request : k # r => pc[k] \notin Saving \cup {"desire"}
    BY <1>1 DEF applyConfig, MuInv, Critical
  <2>3. Accept(r, cfg) \/ Return(r)
    BY <1>1 DEF applyConfig
  <2> HIDE DEF cfg
  <2>4. CASE Accept(r, cfg)
    BY <2>1, <2>2, <2>4, NoRestartNeeded DEF Accept, Goto, TypeOK
  <2>5. CASE Return(r)
    BY <2>2, <2>5 DEF Return, Goto, TypeOK
  <2> QED BY <2>3, <2>4, <2>5
<1>2. CASE Start \/ Exit \/ PowerLoss
  BY <1>2 DEF Start, Exit, PowerLoss, Ended, ProcessInv, handlerVars
<1>3. CASE CloseEngine \/ Flush \/ UNCHANGED vars
  BY <1>3 DEF CloseEngine, Flush, vars, handlerVars
<1>4. ASSUME NEW r \in Request,
             Submit(r) \/ Lock(r) \/ BadRequest(r) \/ NoCwd(r) \/ \E f \in Form : Parse(r, f)
      PROVE  LiveInv'
  BY <1>4 DEF Submit, Lock, BadRequest, NoCwd, Parse, Return, Goto, TypeOK
<1>5. ASSUME NEW r \in Request,
             CreateTemp(r) \/ Write(r) \/ Sync(r) \/ Rename(r) \/ SaveFails(r) \/ SetDesired(r)
      PROVE  LiveInv'
  BY <1>5 DEF CreateTemp, Write, Sync, WriteTemp, Rename, SaveFails, SetDesired, Return, Goto, TypeOK
<1> QED BY <1>1, <1>2, <1>3, <1>4, <1>5 DEF Next

(* After a save that succeeded, what runs differs from what is saved in settings that   *)
(* wait for a restart or in nothing (reconfigure, Configure, needsRestart).             *)
THEOREM OnlyRestartIsPending == Spec => OnlyRestartPending
<1>1. Init => LiveInv
  BY DEF Init, LiveInv, Saving
<1>2. ASSUME IInv, LiveInv, [Next]_vars
      PROVE  [\A r \in Request :
                 Renamed(r) /\ SetDesired(r) /\ live.dir = desired'.dir /\ live.other = desired'.other
                   => live = desired']_vars
  BY <1>2 DEF LiveInv, RestartFor, Saving, SetDesired, Renamed
<1> QED BY <1>1, <1>2, LiveStep, ConfigInvariant, PTL DEF Spec, OnlyRestartPending

-----------------------------------------------------------------------------
(* Every step is one atomic save, a write-back, a power loss or nothing to Settings. *)

LEMMA AtomicInit == Init => Atomic!Init
<1> SUFFICES ASSUME Init PROVE Atomic!Init
  OBVIOUS
<1>1. file \in Good \cup {Missing} /\ disk = file
  BY DEF Init, Good
<1> QED BY <1>1, LoadType DEF Atomic!Init, Good

(* Renaming is where a save takes effect: what is renamed is a form over what is saved. *)
LEMMA RenameIsSave == ASSUME IInv, NEW r \in Request, Rename(r) PROVE Atomic!Next
<1> USE DEF IInv
<1>1. c[r] \in Good /\ Load(c[r]) = c[r]
  BY LoadGood DEF Rename, TypeOK, MergedInv, Saving, Good
<1>2. PICK f \in Form : c[r] = Pinned(cwd, f, desired)
  BY DEF Rename, MergedInv, Saving
<1>3. up /\ cwd \in Cwd
  BY DEF Rename, ProcessInv
<1>4. desired = Absolute(cwd, Load(file))
  <2>1. \A k \in Request : ~Renamed(k)
    BY DEF Rename, MuInv, Critical, Saving, Renamed
  <2> QED BY <1>3, <2>1 DEF DesiredIsFile
<1>5. Load(file) \in Config
  BY LoadType DEF FileInv, Good
<1>6. c[r] = Pinned(cwd, f, Load(file))
  BY <1>2, <1>3, <1>4, <1>5, PinnedOnce
<1>7. Load(file)' = Pinned(cwd, f, Load(file)) /\ Load(disk)' = Load(disk)
  BY <1>1, <1>6 DEF Rename, Load
<1>8. Atomic!Save(cwd, f)
  BY <1>1, <1>6, <1>7 DEF Atomic!Save, Good
<1> QED BY <1>3, <1>8 DEF Atomic!Next

LEMMA AtomicStep == IInv /\ [Next]_vars => [Atomic!Next]_(Atomic!vars)
<1> SUFFICES ASSUME IInv, [Next]_vars PROVE [Atomic!Next]_(Atomic!vars)
  OBVIOUS
<1>1. CASE UNCHANGED <<file, disk>>
  BY <1>1 DEF Atomic!vars, Load
<1>2. CASE PowerLoss
  <2>1. disk' = file' /\ (file' = disk \/ file' = file)
    BY <1>2 DEF PowerLoss, IInv, FileInv
  <2>2. Atomic!PowerLoss \/ Atomic!Flush
    BY <2>1 DEF Load, Atomic!PowerLoss, Atomic!Flush
  <2> QED BY <2>2 DEF Atomic!Next
<1>3. CASE Flush
  BY <1>3 DEF Flush, Load, Atomic!Next, Atomic!Flush
<1>4. CASE \E r \in Request : Rename(r)
  BY <1>4, RenameIsSave
<1>5. UNCHANGED <<file, disk>> \/ PowerLoss \/ Flush \/ \E r \in Request : Rename(r)
  BY DEF Next, vars, fileVars, Start, CloseEngine, Exit, Submit, Lock, BadRequest, Parse, applyConfig, NoCwd,
     CreateTemp, Write, Sync, WriteTemp, SaveFails, SetDesired
<1> QED BY <1>1, <1>2, <1>3, <1>4, <1>5

(* Saving the settings is atomic: with any number of saves at once, failures at any     *)
(* step and crashes in between, ConfigStore implements Settings (handleConfigure,       *)
(* reconfigure, writeAtomic).                                                           *)
THEOREM SavesAreAtomicForAll == Spec => SavesAreAtomic
<1> QED BY AtomicInit, AtomicStep, ConfigInvariant, PTL DEF Spec, SavesAreAtomic, Atomic!Spec
=============================================================================
