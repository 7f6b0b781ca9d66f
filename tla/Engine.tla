------------------------------- MODULE Engine -------------------------------
(***************************************************************************)
(* engine.Engine: one anacrolix client, the cache of torrent records keyed *)
(* by infohash, one metadata watcher goroutine per torrent, the sampler    *)
(* goroutine, and Close.                                                   *)
(*                                                                         *)
(* Every exported method runs its body under Engine.mu, so a method is one *)
(* action here; what interleaves is the methods with each other, with the  *)
(* goroutines' selects and waits, which happen outside mu, and with the    *)
(* four steps of Close.  An early error return that changes nothing is a   *)
(* stuttering step and is left out, as are the pure reads (GetTorrents,    *)
(* GetTorrentsWithFiles, TorrentWithFiles, Config).  Readings (bytes,      *)
(* rate) are in module Sampling.                                           *)
(*                                                                         *)
(* e.ts is split in two: `known` is its key set, `rec` holds the records.  *)
(* A torrent.Torrent handle is a pointer: a handle can be handed out again *)
(* only when nothing refers to it any more.  The client is external code,  *)
(* modelled by what the engine relies on: AddTorrentSpec returns the       *)
(* handle it holds for the hash or a new one, Drop removes it and does not *)
(* close GotInfo, a .torrent spec carries the metadata, a magnet does not. *)
(***************************************************************************)
EXTENDS Integers, FiniteSets

CONSTANTS
  Hash,     \* infohashes
  Handle,   \* *torrent.Torrent pointers
  Watcher,  \* watcher goroutines that can exist at once (a bound of the model)
  Closer,   \* goroutines that call Close
  Rest,     \* values of the settings that need a restart (all but AutoStart)
  None      \* the nil pointer

ASSUME EngineAssumption ==
  /\ None \notin Hash \cup Handle \cup Watcher \cup Rest
  /\ IsFiniteSet(Watcher)

VARIABLES
  ctxDone,      \* e.ctx is cancelled
  client,       \* e.client: "nil" or "live"
  open,         \* a client was built and is not released yet
  config,       \* e.config
  known, rec,   \* e.ts: its keys, and the record of each key
  watcher,      \* the watcher goroutines
  wg,           \* the counter of e.wg
  sampler,      \* where sampleLoop stands
  sampled,      \* signals in the buffer of e.sampled
  closer,       \* where each caller of Close stands, and the client it took
  held,         \* the client's torrents: the handle it holds for a hash
  info,         \* handles whose metadata is known (GotInfo is closed)
  downloading   \* handles DownloadAll was called on

engineVars == <<ctxDone, client, open, config, known, rec>>
procVars   == <<watcher, wg, sampler, sampled, closer>>
clientVars == <<held, info, downloading>>
vars       == <<engineVars, procVars, clientVars>>

Spec_ == {"magnet", "file"}

Config == [AutoStart : BOOLEAN, rest : Rest \cup {None}]

Record == [t       : Handle \cup {None},
           Started : BOOLEAN,
           Loaded  : BOOLEAN,
           spec    : Spec_ \cup {None},
           watching    : Handle \cup {None},
           cancelWatch : Watcher \cup {None}]

Blank == [t |-> None, Started |-> FALSE, Loaded |-> FALSE, spec |-> None,
          watching |-> None, cancelWatch |-> None]

WatcherState == [pc : {"free", "select", "arrived"},
                 ih : Hash \cup {None},
                 tt : Handle \cup {None},
                 cancelled : BOOLEAN]

Free == [pc |-> "free", ih |-> None, tt |-> None, cancelled |-> FALSE]

CloserState == [pc : {"idle", "lock", "wait", "release", "done"},
                client : {"nil", "live"}]

TypeOK ==
  /\ ctxDone \in BOOLEAN
  /\ client \in {"nil", "live"}
  /\ open \in BOOLEAN
  /\ config \in Config
  /\ known \in SUBSET Hash
  /\ rec \in [Hash -> Record]
  /\ watcher \in [Watcher -> WatcherState]
  /\ wg \in Nat
  /\ sampler \in {"select", "refresh", "signal", "exited"}
  /\ sampled \in 0..1
  /\ closer \in [Closer -> CloserState]
  /\ held \in [Hash -> Handle \cup {None}]
  /\ info \in SUBSET Handle
  /\ downloading \in SUBSET Handle

(* New: an empty engine without a client, its sampler running and counted. *)
Init ==
  /\ ctxDone = FALSE
  /\ client = "nil"
  /\ open = FALSE
  /\ config = [AutoStart |-> FALSE, rest |-> None]
  /\ known = {}
  /\ rec = [h \in Hash |-> Blank]
  /\ watcher = [w \in Watcher |-> Free]
  /\ wg = 1
  /\ sampler = "select"
  /\ sampled = 0
  /\ closer = [c \in Closer |-> [pc |-> "idle", client |-> "nil"]]
  /\ held = [h \in Hash |-> None]
  /\ info = {}
  /\ downloading = {}

-----------------------------------------------------------------------------
(* The watchers. *)

Live(w) == watcher[w].pc # "free"

(* Mutant: the watcher's context is not a child of e.ctx. *)
DoneByCancel(w) == watcher[w].cancelled

(* A watcher's context is done: a child of e.ctx, so either cancel ends it. *)
Done(w) == ctxDone \/ watcher[w].cancelled

(* Nothing refers to the handle, so a new torrent may be allocated there. *)
Fresh(tt) ==
  /\ \A h \in Hash : held[h] # tt /\ rec[h].t # tt /\ rec[h].watching # tt
  /\ \A w \in Watcher : watcher[w].tt # tt

FreeWatchers ==
  {w \in Watcher : ~Live(w) /\ \A h \in Hash : rec[h].cancelWatch # w}

(* cancelWatch() on the watcher table; a goroutine that has ended is not disturbed. *)
Cancel(ws, w) ==
  IF w # None /\ ws[w].pc # "free"
  THEN [ws EXCEPT ![w].cancelled = TRUE] ELSE ws

Unwatched(r) == [r EXCEPT !.watching = None, !.cancelWatch = None]

(* Mutant: stopWatch forgets to call cancelWatch. *)
stopWatchSilently(ws, r) == ws

(* t.stopWatch(): both the record and the watcher it names. *)
stopWatch(ws, r) == Cancel(ws, r.cancelWatch)

(* Mutant: the new goroutine is not added to the wait group. *)
watchInfoUncounted(h, r, tt, ws, n) ==
  IF ctxDone \/ r.watching = tt
  THEN /\ rec' = [rec EXCEPT ![h] = r]
       /\ watcher' = ws
       /\ wg' = n
  ELSE \E w \in FreeWatchers :
         /\ rec' = [rec EXCEPT ![h] = [r EXCEPT !.watching = tt, !.cancelWatch = w]]
         /\ watcher' = [stopWatch(ws, r) EXCEPT
              ![w] = [pc |-> "select", ih |-> h, tt |-> tt, cancelled |-> FALSE]]
         /\ wg' = n

(* Store record r for hash h and park a watcher for handle tt, given the   *)
(* watcher table ws and counter n its caller has left.                     *)
watchInfoLocked(h, r, tt, ws, n) ==
  IF ctxDone \/ r.watching = tt
  THEN /\ rec' = [rec EXCEPT ![h] = r]
       /\ watcher' = ws
       /\ wg' = n
  ELSE \E w \in FreeWatchers :
         /\ rec' = [rec EXCEPT ![h] = [r EXCEPT !.watching = tt, !.cancelWatch = w]]
         /\ watcher' = [stopWatch(ws, r) EXCEPT
              ![w] = [pc |-> "select", ih |-> h, tt |-> tt, cancelled |-> FALSE]]
         /\ wg' = n + 1

(* client.AddTorrentSpec(s): tt is the handle it returns for hash h.  A new *)
(* handle starts out without metadata and without a download.              *)
AddTorrentSpec(h, s, tt) ==
  /\ IF held[h] # None THEN tt = held[h] ELSE Fresh(tt)
  /\ held' = [held EXCEPT ![h] = tt]
  /\ LET kept == IF held[h] = tt THEN info ELSE info \ {tt}
     IN  info' = IF s = "file" THEN kept \cup {tt} ELSE kept

DownloadsAfterAdd(h, tt) ==
  IF held[h] = tt THEN downloading ELSE downloading \ {tt}

(* t.Drop(): the client forgets the torrent; GotInfo is left as it is. *)
Drop(h) == held' = [held EXCEPT ![h] = None]

-----------------------------------------------------------------------------
(* The exported methods. *)

needsRestart(old, next) == [old EXCEPT !.AutoStart = next.AutoStart] # next

(* Configure(c): build the client once, afterwards only AutoStart applies. *)
(* A failing torrent.NewClient changes nothing.                            *)
Configure(c) ==
  /\ ~ctxDone
  /\ \/ client = "nil"
     \/ client = "live" /\ ~needsRestart(config, c)
  /\ client' = "live"
  /\ open' = TRUE
  /\ config' = c
  /\ UNCHANGED <<ctxDone, known, rec, procVars, clientVars>>

(* Mutant: a reading does not store the handle it was taken from. *)
updateLoadedOnly(r, tt, loaded) == [r EXCEPT !.Loaded = loaded]

(* What a reading of handle tt leaves in a record. *)
update(r, tt, loaded) == [r EXCEPT !.t = tt, !.Loaded = loaded]

(* NewMagnet and NewTorrentFile: addSpec with a spec that has an infohash. *)
addSpec(h, s) ==
  /\ client = "live"
  /\ \E tt \in Handle :
       /\ AddTorrentSpec(h, s, tt)
       /\ downloading' = DownloadsAfterAdd(h, tt)
       /\ known' = known \cup {h}
       /\ watchInfoLocked(h, [update(rec[h], tt, tt \in info') EXCEPT !.spec = s],
                          tt, watcher, wg)
  /\ UNCHANGED <<ctxDone, client, open, config, sampler, sampled, closer>>

(* Mutant: a torrent started again gets no watcher. *)
startUnwatched(h, ws, n) ==
  /\ client = "live"
  /\ watcher' = ws
  /\ wg' = n
  /\ \E tt \in Handle :
       /\ IF rec[h].t = None THEN AddTorrentSpec(h, rec[h].spec, tt)
                             ELSE tt = rec[h].t /\ UNCHANGED <<held, info>>
       /\ downloading' = DownloadsAfterAdd(h, tt) \cup (info' \cap {tt})
       /\ rec' = [rec EXCEPT ![h].t = tt, ![h].Started = TRUE]

(* startLocked: re-add a dropped torrent, flag it, download if it can. *)
startLocked(h, ws, n) ==
  IF rec[h].t = None
  THEN /\ client = "live"
       /\ rec[h].spec # None
       /\ \E tt \in Handle :
            /\ AddTorrentSpec(h, rec[h].spec, tt)
            /\ downloading' = DownloadsAfterAdd(h, tt) \cup (info' \cap {tt})
            /\ watchInfoLocked(h, [rec[h] EXCEPT !.t = tt, !.Started = TRUE], tt, ws, n)
  ELSE /\ rec' = [rec EXCEPT ![h].Started = TRUE]
       /\ downloading' = downloading \cup (info \cap {rec[h].t})
       /\ watcher' = ws
       /\ wg' = n
       /\ UNCHANGED <<held, info>>

StartTorrent(h) ==
  /\ h \in known
  /\ ~rec[h].Started
  /\ startLocked(h, watcher, wg)
  /\ UNCHANGED <<ctxDone, client, open, config, known, sampler, sampled, closer>>

(* There is no pause: stopping drops the torrent and keeps its spec. *)
StopTorrent(h) ==
  /\ h \in known
  /\ rec[h].Started
  /\ watcher' = stopWatch(watcher, rec[h])
  /\ IF rec[h].t # None THEN Drop(h) ELSE UNCHANGED held
  /\ rec' = [rec EXCEPT ![h] = [Unwatched(@) EXCEPT !.t = None, !.Started = FALSE]]
  /\ UNCHANGED <<ctxDone, client, open, config, known,
                 wg, sampler, sampled, closer, info, downloading>>

DeleteTorrent(h) ==
  /\ h \in known
  /\ watcher' = stopWatch(watcher, rec[h])
  /\ IF rec[h].t # None THEN Drop(h) ELSE UNCHANGED held
  /\ known' = known \ {h}
  /\ rec' = [rec EXCEPT ![h] = Blank]
  /\ UNCHANGED <<ctxDone, client, open, config,
                 wg, sampler, sampled, closer, info, downloading>>

-----------------------------------------------------------------------------
(* The watcher goroutine: select, then infoArrived under mu.  A goroutine   *)
(* that returns calls wg.Done on the way out.                               *)

WatcherReleased(w) ==
  /\ watcher[w].pc = "select"
  /\ Done(w)
  /\ watcher' = [watcher EXCEPT ![w] = Free]
  /\ wg' = wg - 1
  /\ UNCHANGED <<engineVars, sampler, sampled, closer, clientVars>>

(* Both cases of the select may be ready: the runtime then picks either. *)
WatcherWoken(w) ==
  /\ watcher[w].pc = "select"
  /\ watcher[w].tt \in info
  /\ watcher' = [watcher EXCEPT ![w].pc = "arrived"]
  /\ UNCHANGED <<engineVars, wg, sampler, sampled, closer, clientVars>>

(* Mutant: the goroutine does not check that its handle is still the torrent's. *)
isKnown(ih, tt) == ih \in known

(* The torrent was neither deleted nor given another handle while nobody held mu. *)
isCurrent(ih, tt) == ih \in known /\ rec[ih].t = tt

infoArrived(w) ==
  LET ih == watcher[w].ih
      tt == watcher[w].tt
      ws == [watcher EXCEPT ![w] = Free]
      current == isCurrent(ih, tt)
  IN /\ watcher[w].pc = "arrived"
     /\ \/ /\ current /\ rec[ih].Started
           /\ downloading' = downloading \cup {tt}
           /\ watcher' = ws /\ wg' = wg - 1
           /\ UNCHANGED <<rec, held, info>>
        \/ /\ current /\ ~rec[ih].Started /\ config.AutoStart
           /\ startLocked(ih, ws, wg - 1)
        \/ /\ ~current \/ (~rec[ih].Started /\ ~config.AutoStart)
           /\ watcher' = ws /\ wg' = wg - 1
           /\ UNCHANGED <<rec, clientVars>>
     /\ UNCHANGED <<ctxDone, client, open, config, known, sampler, sampled, closer>>

(* External: the swarm delivers the metadata of a torrent the client holds. *)
MetadataResolved(h) ==
  /\ held[h] \notin info \cup {None}
  /\ info' = info \cup {held[h]}
  /\ UNCHANGED <<engineVars, procVars, held, downloading>>

-----------------------------------------------------------------------------
(* The sampler goroutine, and the reader of Sampled(). *)

SamplerTick ==
  /\ sampler = "select"
  /\ sampler' = "refresh"
  /\ UNCHANGED <<engineVars, watcher, wg, sampled, closer, clientVars>>

SamplerExit ==
  /\ sampler = "select"
  /\ ctxDone
  /\ sampler' = "exited"
  /\ wg' = wg - 1
  /\ UNCHANGED <<engineVars, watcher, sampled, closer, clientVars>>

(* refresh: upsert every torrent the client holds. *)
Refresh ==
  /\ sampler = "refresh"
  /\ sampler' = "signal"
  /\ LET seen == IF client = "live" THEN {h \in Hash : held[h] # None} ELSE {}
     IN /\ known' = known \cup seen
        /\ rec' = [h \in Hash |-> IF h \in seen
                     THEN update(rec[h], held[h], held[h] \in info)
                     ELSE rec[h]]
  /\ UNCHANGED <<ctxDone, client, open, config, watcher, wg, sampled, closer, clientVars>>

(* Mutant: a blocking send. *)
SamplerSend ==
  /\ sampler = "signal"
  /\ sampled = 0
  /\ sampler' = "select"
  /\ sampled' = 1
  /\ UNCHANGED <<engineVars, watcher, wg, closer, clientVars>>

(* A non-blocking send: a signal nobody took yet absorbs this one. *)
SamplerSignal ==
  /\ sampler = "signal"
  /\ sampler' = "select"
  /\ sampled' = 1
  /\ UNCHANGED <<engineVars, watcher, wg, closer, clientVars>>

(* External: the server's poll loop receives the signal. *)
TakeSampled ==
  /\ sampled = 1
  /\ sampled' = 0
  /\ UNCHANGED <<engineVars, watcher, wg, sampler, closer, clientVars>>

-----------------------------------------------------------------------------
(* Close, in the order it works: cancel, take the client under mu, wait for *)
(* the goroutines, release the client.                                      *)

CloseCancel(c) ==
  /\ closer[c].pc = "idle"
  /\ closer' = [closer EXCEPT ![c].pc = "lock"]
  /\ ctxDone' = TRUE
  /\ UNCHANGED <<client, open, config, known, rec, watcher, wg, sampler, sampled, clientVars>>

(* Mutant: Close keeps the cached torrents. *)
CloseTakeClientOnly(c) ==
  /\ closer[c].pc = "lock"
  /\ closer' = [closer EXCEPT ![c] = [pc |-> "wait", client |-> client]]
  /\ client' = "nil"
  /\ UNCHANGED <<ctxDone, open, config, known, rec, watcher, wg, sampler, sampled,
                 clientVars>>

CloseTake(c) ==
  /\ closer[c].pc = "lock"
  /\ closer' = [closer EXCEPT ![c] = [pc |-> "wait", client |-> client]]
  /\ client' = "nil"
  /\ known' = {}
  /\ rec' = [h \in Hash |-> Blank]
  /\ UNCHANGED <<ctxDone, open, config, watcher, wg, sampler, sampled, clientVars>>

CloseWaited(c) ==
  /\ closer[c].pc = "wait"
  /\ wg = 0
  /\ closer' = [closer EXCEPT ![c].pc =
                  IF closer[c].client = "live" THEN "release" ELSE "done"]
  /\ UNCHANGED <<engineVars, watcher, wg, sampler, sampled, clientVars>>

CloseRelease(c) ==
  /\ closer[c].pc = "release"
  /\ closer' = [closer EXCEPT ![c] = [pc |-> "done", client |-> "nil"]]
  /\ open' = FALSE
  /\ held' = [h \in Hash |-> None]
  /\ UNCHANGED <<ctxDone, client, config, known, rec, watcher, wg, sampler, sampled,
                 info, downloading>>

-----------------------------------------------------------------------------
Next ==
  \/ \E c \in [AutoStart : BOOLEAN, rest : Rest] : Configure(c)
  \/ \E h \in Hash, s \in Spec_ : addSpec(h, s)
  \/ \E h \in Hash : StartTorrent(h)
  \/ \E h \in Hash : StopTorrent(h)
  \/ \E h \in Hash : DeleteTorrent(h)
  \/ \E w \in Watcher : WatcherReleased(w)
  \/ \E w \in Watcher : WatcherWoken(w)
  \/ \E w \in Watcher : infoArrived(w)
  \/ \E h \in Hash : MetadataResolved(h)
  \/ SamplerTick \/ SamplerExit \/ Refresh \/ SamplerSignal \/ TakeSampled
  \/ \E c \in Closer : CloseCancel(c)
  \/ \E c \in Closer : CloseTake(c)
  \/ \E c \in Closer : CloseWaited(c)
  \/ \E c \in Closer : CloseRelease(c)

Spec == Init /\ [][Next]_vars

(* A runnable goroutine is scheduled and mu is handed out fairly.  Nothing is  *)
(* assumed of the callers of the API, of the swarm, or of whoever reads        *)
(* Sampled.  SamplerExit needs strong fairness: it is ready only while the     *)
(* sampler is in its select, and the runtime picks at random between a pending *)
(* tick and ctx.Done.                                                          *)
Fairness ==
  /\ \A w \in Watcher : /\ WF_vars(WatcherReleased(w) \/ WatcherWoken(w))
                        /\ WF_vars(infoArrived(w))
  /\ WF_vars(SamplerTick \/ Refresh \/ SamplerSignal)
  /\ SF_vars(SamplerExit)
  /\ \A c \in Closer : WF_vars(CloseTake(c) \/ CloseWaited(c) \/ CloseRelease(c))

FairSpec == Spec /\ Fairness
-----------------------------------------------------------------------------
(* Properties. *)

Downloading(h) == rec[h].t # None /\ rec[h].t \in downloading

(* While a client is installed, the cache and the client hold the same torrents   *)
(* under the same handles.  So the sampler, which upserts whatever the client     *)
(* holds, never brings back a deleted torrent or hands a stopped one a handle     *)
(* (refresh, StopTorrent, DeleteTorrent).                                         *)
CacheMatchesClient ==
  client = "live" =>
    \A h \in Hash : held[h] = IF h \in known THEN rec[h].t ELSE None

(* A torrent flagged as running is running: it downloads already, or a watcher    *)
(* that nobody cancelled waits on exactly its handle and will start the download  *)
(* (startLocked, watchInfoLocked, infoArrived).                                   *)
StartedNotPhantom ==
  ~ctxDone => \A h \in known : rec[h].Started =>
    \/ Downloading(h)
    \/ \E w \in Watcher : /\ watcher[w].pc \in {"select", "arrived"}
                          /\ watcher[w].ih = h /\ watcher[w].tt = rec[h].t
                          /\ ~watcher[w].cancelled

(* A watcher that was not released is the one its torrent's record names, waiting *)
(* on the handle that record has: one watcher per torrent, none left behind by    *)
(* add, stop, start and delete churn (watchInfoLocked, stopWatch).                *)
WatcherOwned ==
  \A w \in Watcher : Live(w) /\ ~Done(w) =>
    LET h == watcher[w].ih
    IN  h \in known /\ rec[h].cancelWatch = w
          /\ rec[h].watching = watcher[w].tt /\ rec[h].t = watcher[w].tt

(* Once a Close has passed its critical section the engine has no client and no   *)
(* torrents, whatever calls and goroutines come after (Close, Configure).         *)
ClosedStaysClosed ==
  (\E c \in Closer : closer[c].pc \in {"wait", "release", "done"}) =>
    client = "nil" /\ known = {}

(* When a Close has returned, no goroutine of the engine is left (wg.Wait).       *)
QuietAfterClose ==
  (\E c \in Closer : closer[c].pc \in {"release", "done"}) =>
    sampler = "exited" /\ \A w \in Watcher : ~Live(w)

(* After a Close no client is left that nothing will ever release: an open client *)
(* is installed before the cancel, or is in the hands of a Close under way        *)
(* (Configure, Close).                                                            *)
ClientReleased ==
  open => \/ client = "live" /\ (ctxDone => \E c \in Closer : closer[c].pc = "lock")
          \/ \E c \in Closer : closer[c].pc \in {"wait", "release"}
                                 /\ closer[c].client = "live"

(* A torrent the user stopped gets a handle again only when the user starts or    *)
(* adds it again: no stale watcher and no sample resurrects it (infoArrived,      *)
(* refresh).                                                                      *)
StoppedStaysStopped ==
  [][\A h \in known : rec[h].t = None /\ rec'[h].t # None =>
        StartTorrent(h) \/ \E s \in Spec_ : addSpec(h, s)]_vars

(* Close returns: neither the sampler nor a watcher keeps wg.Wait waiting (Close). *)
CloseReturns ==
  \A c \in Closer : closer[c].pc = "lock" ~> closer[c].pc = "done"

(* The sampler keeps sampling until Close, even if nobody reads Sampled           *)
(* (sampleLoop's non-blocking send).                                              *)
SamplerNeverStalls == []<>(sampler = "refresh" \/ ctxDone)
-----------------------------------------------------------------------------
(* The inductive invariant behind the safety properties. *)

LiveWatchers == {w \in Watcher : Live(w)}

(* The client is empty until it is installed, and only an installed one has torrents cached. *)
ClientInv ==
  /\ client = "nil" => known = {}
  /\ client = "nil" /\ ~ctxDone => \A h \in Hash : held[h] = None
  /\ CacheMatchesClient

(* A record without a handle is a stopped one, and has no watcher. *)
RecordInv ==
  \A h \in Hash :
    /\ h \notin known => rec[h] = Blank
    /\ rec[h].t = None => ~rec[h].Started /\ rec[h].watching = None
    /\ rec[h].watching = None => rec[h].cancelWatch = None

(* No two torrents share a handle or a watcher. *)
DistinctInv ==
  \A g, h \in Hash : g # h =>
    /\ rec[g].t # None => rec[g].t # rec[h].t
    /\ rec[g].cancelWatch # None => rec[g].cancelWatch # rec[h].cancelWatch

(* A goroutine that has been woken waits on a resolved handle; an ended one leaves nothing. *)
WatcherInv ==
  \A w \in Watcher :
    /\ ~Live(w) => watcher[w] = Free
    /\ Live(w) => watcher[w].ih \in Hash /\ watcher[w].tt \in Handle
    /\ watcher[w].pc = "arrived" => watcher[w].tt \in info

(* Until the engine closes every handle in use is looked after: its own watcher is *)
(* still there, or that watcher has run and did what it had to do.                 *)
Covered(h) ==
  /\ rec[h].watching = rec[h].t
  /\ \/ /\ rec[h].cancelWatch # None
        /\ watcher[rec[h].cancelWatch].pc # "free"
        /\ watcher[rec[h].cancelWatch].ih = h
        /\ watcher[rec[h].cancelWatch].tt = rec[h].t
        /\ ~watcher[rec[h].cancelWatch].cancelled
     \/ /\ rec[h].t \in info
        /\ rec[h].Started => rec[h].t \in downloading

CoveredInv ==
  ~ctxDone => \A h \in Hash : rec[h].t # None => Covered(h)

CloserInv ==
  \A c \in Closer :
    /\ closer[c].pc # "idle" => ctxDone
    /\ closer[c].client = "live" => closer[c].pc \in {"wait", "release"}
    /\ closer[c].pc = "release" => closer[c].client = "live"
    /\ closer[c].pc \in {"wait", "release", "done"} => client = "nil"

WgInv ==
  /\ IsFiniteSet(LiveWatchers)
  /\ wg = Cardinality(LiveWatchers) + (IF sampler = "exited" THEN 0 ELSE 1)

IInv ==
  /\ TypeOK
  /\ ClientInv
  /\ RecordInv
  /\ DistinctInv
  /\ WatcherInv
  /\ CoveredInv
  /\ WatcherOwned
  /\ CloserInv
  /\ ClientReleased
  /\ WgInv
  /\ QuietAfterClose
=============================================================================
