# nd.cloud.torrent in TLA+

A formal model of the self-hosted torrent server in this repository: TLA+ modules
translated from the Go source, TLC configurations that check them on small
instances, and theorems that TLAPS proves for every instance.

## 1. The system

One process. `main` builds a `server.Server`, runs it until a signal, then closes it.

| Component | Source | State | Operations | Concurrency |
|---|---|---|---|---|
| Engine | `engine/engine.go`, `engine/torrent.go` | the client, `config`, the cache `ts` of torrent records, a context, a wait group | Configure, NewMagnet, NewTorrentFile, StartTorrent, StopTorrent, DeleteTorrent, Close, reads | one mutex; a sampler goroutine; a metadata watcher goroutine per torrent, parked outside the mutex |
| Readings | `engine/torrent.go`, `engine/engine.go` | `Downloaded`, `updatedAt`, `DownloadRate`, `Percent` | sample, from the ticker and from adding a torrent whose metadata is known | timestamps taken before the mutex is obtained; a magnet's metadata comes when it comes |
| Render loop | `server/loops.go` | `kickCh`, `lastRender` | poll, sampleHost, kick | two goroutines, coalescing channels, a timed floor |
| Live page | `web/events.go`, `web/render.go`, `web/ui.go` | cache of rendered regions, hub of subscribers, one bounded queue each | render, broadcast, subscribe, snapshot, close | three locks; one handler goroutine per browser; browsers reconnect |
| Settings | `server/config.go`, `server/api.go`, `server/forms.go`, `configfile` | `desired`, the file; the engine's live `config` | configure, load at start | `configMu`; a failing or interrupted write; crash and restart, perhaps in another directory |
| Downloads ping | `web/downloads.go` | last admitted content signature and its time | RenderDownloads, the fetch of the fragment | under `UI.mu`; a time window; browsers fetch when they please |
| Run and shutdown | `server/run.go`, `main.go` | the HTTP server, the loops | Run, Close | signal, drain timeout, deferred closes |
| File tree | `files/` | none | List, ResolveWithin, Remove, zip | the tree changes while it is walked; a client leaves while it is sent |
| HTTP API | `server/api.go`, `forms.go`, `errors.go`, `routes.go` | none of its own | dispatch, partial uploads, error mapping | handlers run concurrently; a body may never arrive |
| Authentication | `internal/auth` | a per-process key; sessions live in cookies | verify, issue, refresh, deny | overlapping requests, time boundaries, restart |
| Remote fetch | `fetch` | none | Torrent, guarded dial | a resolver and a remote end that may do anything; timeouts, redirects |
| Browser | `static/files/js/ct.js`, templates | collapse state, armed confirmation, drag depth | event handlers | timers against clicks |
| Rest | `sysstat`, `reqlog`, `cli`, `static`, `open.go` | none worth modelling | | |

How they interact: an API handler calls the engine and then kicks the render loop;
the engine's sampler signals the loop after every sample; the loop reads the engine
and the file tree and hands the data to the UI, which caches what it rendered and
broadcasts it; a browser's `/events` handler subscribes, writes a snapshot of the
cache, kicks the loop and then drains its queue; saving the settings applies them to
the engine, writes the file and updates `desired`; shutting down closes the hub,
drains HTTP, joins the loops and closes the engine.

What makes each one correct:

* **Engine**: the cache and the client hold the same torrents; a torrent shown as
  started downloads or will; no watcher outlives its purpose or brings a stopped
  torrent back; Close is final, leaves nothing running and loses no client.
* **Readings**: a rate is finite; a sample is all or nothing and never goes back.
* **Render loop**: no wake-up is lost; a click is drawn promptly; a burst is bounded.
* **Live page**: a connected browser misses no change; a stalled one is let go; the
  watcher count is exact; a closed hub releases everyone.
* **Settings**: the file stays valid; a save is atomic and survives a restart; the form
  shows what the file says.
* **Ping**: the last change is announced. **Shutdown**: it terminates and uses nothing
  that is closed. **File tree**: a truncated listing says so and is a prefix; an archive
  misses nothing that lies before what ended it.
* **HTTP API**: an answer is true, blames the right side, and comes once the body of the
  request has; what a call changed is shown, also when the call failed. **Remote fetch**:
  only allowed addresses are dialled, only whole files are returned.
* **Authentication**: an active browser is never asked again, an idle session ends.

## 2. The modules

| Module | Models | Checked by |
|---|---|---|
| `Engine` | the engine with its goroutines, and of the torrent client what the engine relies on | `Engine.cfg`, through `EngineRefinement` |
| `TorrentLifecycle` | the abstract promise: the phases of a torrent and the steps between them | `Engine.cfg`, `MCApi.cfg` |
| `EngineRefinement` | the mapping from engine states to phases | `Engine.cfg` |
| `EngineProofs` | the engine's theorems, the refinement included | TLAPS |
| `Clock` | the clock of the samples, which `Sampling` and `RenderLoop` share | through them |
| `Sampling` | one torrent's readings | `Sampling.cfg` |
| `Events` | renderer cache, hub, `/events` handlers, both loops' publication | `Events.cfg` |
| `EventsProofs` | its theorems | TLAPS |
| `RenderLoop` | when the loop draws, in discrete time | `RenderLoop.cfg` |
| `LoopProofs` | theorems about `Sampling` and `RenderLoop` | TLAPS |
| `ConfigStore` | configure, the file, start-up, crash, power loss | `Config*.cfg` |
| `Settings` | the abstract promise: a save is one atomic merge | through `ConfigStore` |
| `ConfigStoreProofs` | its theorems, the refinement included | TLAPS |
| `FileList` | what `files.List` returns of a tree that stands still, and the fingerprints of it | `FileWalk`, `Downloads` |
| `FileWalk` | `files.List` and `serveZip` as they run, while the tree changes | `FileWalk*.cfg` |
| `Downloads` | the files, `RenderDownloads`, the ping, a browser that fetches | `Downloads.cfg` |
| `FilesProofs` | theorems about `FileWalk`, `Downloads` and the operators of `FileList` | TLAPS |
| `Shutdown` | `main`, `Run`, the loops it joins, the handlers it drains | `Shutdown.cfg` |
| `ShutdownProofs` | its theorems | TLAPS |
| `Fetch` | `Client.Torrent` and the guarded dialer, one fetch per caller | through `Api` |
| `Api` | the mutating routes from the same-origin check to the answer, composed with `Fetch`, `TorrentLifecycle` and the kick | `MCApi.cfg` |
| `MCApi` | which requests each caller sends under TLC | `MCApi.cfg` |
| `ApiProofs` | theorems about `Api` and `Fetch` | TLAPS |
| `Sessions` | the session cookie between a browser and a server that restarts | `Sessions.cfg` |
| `SessionsProofs` | its theorems | TLAPS |

### Engine

An exported method holds `Engine.mu` throughout, so it is one action. What interleaves
is the rest: a watcher's `select` (`WatcherReleased`, `WatcherWoken`) and its
`infoArrived`, the sampler's tick, refresh and non-blocking signal, and the four steps
of `Close` (cancel; take the client and clear the cache under the mutex; wait for the
group; release the client). A `*torrent.Torrent` is a model value that may be handed
out again only when nothing refers to it, which is what a live pointer guarantees.
`e.ts` is the pair `known` (keys) and `rec` (records). The client is external: `held`,
`info`, `downloading`, with `AddTorrentSpec`, `Drop` and `GotInfo` as the engine uses
them; in particular `Drop` does not close `GotInfo`, so a watcher outlives its handle
unless it is cancelled. Early returns that change nothing are stuttering steps.

### Sampling

Times are integers, a rate is the pair (bytes, span) it divides, a percentage is in
hundredths as `percent` truncates it. The ticker's one-slot channel, the timestamp it
carries and the wait for the mutex are separate steps, so a tick can be older than the
reading `addSpec` takes meanwhile. `torrent` is how much the client has of it (`Stage`):
neither `addSpec` nor `refresh` takes a reading before the metadata is known
(`if t.Loaded`), so a magnet's first one is `refresh`'s, perhaps with a tick from before
the metadata came, and a torrent can be stopped, started again or deleted without ever
having had one.

### Events

The stats region, which both loops draw, stands for all three. A loop reads the sample,
takes `UI.mu`, stores into the cache and broadcasts: four steps, since the cache and the
hub have locks of their own that `/events` handlers take in between. A subscriber's
queue is a sequence of at most `SubBuffer` frames; overflow stalls it. A browser
disconnects at any time, or its write fails, and it may come back.

### RenderLoop

`stale` is the one fact about the data that matters: the page differs from the state.
Time advances only when neither the loop nor a sender can act (rendering takes no time
and timers are punctual), which is what makes `Prompt` and `BurstsAreBounded`
meaningful; `NoLostWakeup` does not depend on it.

### ConfigStore

The three copies of a configuration (file, `desired`, live) and every step between
them. `writeAtomic` is four steps that can each fail. The file system is external: a
power loss returns to the version last flushed, or to the renamed one, truncated if its
bytes had not been synced. AutoStart, which applies live, is a field of its own, and so is
the directory: it may be relative, and `applyConfig` makes it absolute where the process
runs (`Absolute`, `cwd`), at the start without writing it and in a save for good. The
other settings are one value, among them one that `Validate` rejects. A client that
cannot be made of a valid configuration ends the start with nothing changed, which needs
no action. What a form says is chosen where it is read under the lock (`Parse`).

### FileList and FileWalk

A tree is a function from the entries that exist to their directories; the order of
numbers is the order of names. `FileList` says of a tree that stands still which entries
a walk with a budget returns: those before the entry at which the budget runs out, less
the directories that entry is in. `FileWalk` is the recursion of `list` with its stack
made explicit, one system call at a time, in a tree that others change. A frame is a call:
the path of its directory, which has to be in place still when an entry is looked at, the
entries that are left, and how many nodes there were before its own. The nodes are one
sequence, in the order of the tree, instead of the nested `Children`: what a call that
fails would have dropped is what lies beyond its frame's `from`. `serveZip` is the same
walk by `filepath.WalkDir` with other rules: a directory that cannot be read, a file that
is gone, or one that cannot be opened or copied (`failed`) ends it, and the client may
leave. The files in `nodes` are those the archive has whole; it may hold the beginning of
the one that failed. Entries that `visible` hides, which both walks ask, sizes and an
unreadable root are left out. The parts of `FileWalk`
are named for the walk (`WalkSpec`, `disk`), and those of `Sampling` for the sampling, so
that one module of theorems can extend each together with its neighbour.

### Downloads

A drawing, the two signatures, the settle window, the ping and the fragment a browser
fetches when it loads or is pinged. Sizes and times are one number per node, the change
that touched it last; a hash is injective. Time is counted in drawings. That a ping once
stored reaches the browser is `Events`' promise, so here it arrives at once; when the
browser fetches is free.

### Shutdown

`run` is the place of main's goroutine, `deferred` the list of Run's deferred calls in the
order they run. A handler waits for the rest of its request, calls the engine, fetches a
remote torrent, transfers a file or is in one of the three parts of `ServeEvents`. Only a
fetch and a write have deadlines, reading a body has none; time passes only when main and
every handler wait for something, so whatever needs no waiting is instantaneous. What
closing the engine does is `Engine`, what closing the hub does is `Events`; `Shutdown`
composes their promises: by `CloseIsFinal` and `QuietAfterClose` a handler that outlives
Run can do no harm to the closed engine.

### Fetch and Api

A call goes from `requireSameOrigin` through its handler to `finishAPI`. A handler that
reads a body waits for it first (`BodyArrives`), and nothing makes it arrive. What a handler
asks of the engine is a step of `TorrentLifecycle`, the specification the engine is
proved to implement, together with the outcome its methods return; the engine's own steps
and `Close` come in between. A multipart upload handles one file per step, a removal can
give up half way, and an added URL is a `Fetch` on the caller's own time: parse, look up,
partition, dial, follow redirects, read up to one byte past the cap. The resolver may
answer differently each time. An error is the set of sentinels in its chain, which is all
`classify` looks at; beside it the model carries whose doing the failure really was
(`Fault`), which the code never sees and the properties compare with the status: the
caller's, the server's or the remote end's, or *unnoticed*, a mistake of the caller's that
passes every check and fails in a library or a system call (section 5). `/api/configure`
runs through the same `finishAPI` and is `ConfigStore`. Reading is of a length and of
what the bytes say: a part of a file cannot be parsed.

### Sessions

A token is its expiry and the key of the process that issued it. Requests and answers are
sets, under way for any time and in any order, so answers that set cookies can overtake
each other, and be lost. The clock is finer than the whole seconds a token is rounded to.
`active` is the history the first property needs: logged in, and since then neither
restarted under, nor slower than `Gap` and `Delay`, nor a renewal refused by a failing
random source. `SessionsAssumption` says what "active" may mean: a gap and four delays
must fit between the moment a refresh is due and the end of the session. The browser may
hold a cookie that a late answer has put in the place of a newer one (a delay); the
request that finds it due leaves up to a gap later and takes a delay, its answer another,
and what is sent meanwhile with the old cookie must arrive within a fourth. And a refresh
is due no sooner than a second after the issue, since an expiry is rounded to whole
seconds; with the code's hours both hold with room to spare.

## 3. The runs

| Run | Bounds | Shows |
|---|---|---|
| `engine` | 1 torrent, 2 handles, 3 watchers, 1 Close | cache and client agree, no phantom start, one watcher per torrent, stop is respected; Close is final, quiet and returns; sampling goes on; the lifecycle is implemented, its liveness included |
| `sampling` | 10 time units, interval 3, 4 byte counts, metadata at any time or never | finite rates, one sample at a time, 100% means all |
| `events` | 1 browser, queue of 2, 3 samples | nothing missed, exact watcher count, closed hub releases all; convergence; a stalled connection ends |
| `config` | 2 concurrent saves, 2 places to run in, a relative and 2 absolute directories, a good value of the rest and a bad one | the file stays valid, desired is what the file means where the server runs, saves are atomic |
| `config_autostart` | 1 save at a time | finding: AutoStart is not applied while a restart is pending |
| `render_loop` | 2 calls, 2 browsers, floor 2, interval 6, 14 time units | no lost wake-up, promptness, bounded bursts |
| `file_walk` | every tree of 2 directories and 2 files, any of which may fail, budget 3 | the walk and the archive agree with their definitions; the budget is kept while the tree changes |
| `walk_returned` | the same | finding: a truncated listing can be empty |
| `downloads` | 1 directory, 1 file, budget 2, window 2, 2 changes, 5 drawings | the last change is shown or announced within one window |
| `shutdown` | 2 connections, drain of 2 units, deadlines of 3 | the process ends, cleanly when it was asked to, and not delayed by streams |
| `sessions` | 2 units to a second, TTL of 8, refresh after 2, gap 1, delay 1, 2 processes, 2 messages under way, 11 units | an active browser is never asked again, an idle session ends, who proves the password is served |
| `api` | 2 callers, 1 torrent, 2 files, 3 addresses, uploads of 2, `maxRedirects` 2, so one redirect is followed | what changed is drawn, the answer is true, blames the right side and comes if the body does; fetches are sound |

Why the bounds suffice. *Engine*: the second handle is the torrent's next life, and with
three watchers two stale ones can be about while it is watched. One torrent shows no
confusion between two, which would need handles or watchers to be shared; that they never
are is part of the invariant that is proved for any number of torrents (`DistinctInv`), as
are all the safety properties and the refinement. *Events*: a queue of two with three
samples can overflow, and can hold frames older than the snapshot; browsers only meet in
the hub's set, and the safety properties are proved for any number of them. *Sampling*:
three ticks fall into the clock, so one can be late, dropped, or older than the metadata.
*ConfigStore*: a lost update needs two saves on two fields, and the stale merge base needs
a value to go back to, which the directories are; in the second place the server runs in,
a directory that was not pinned would be another one. *RenderLoop*: the interval holds
three floors (five in the code), so a burst fits and two samples pass. *FileWalk*: the
budget can run out at the top, in a directory, in a nested one, after an unreadable one,
or not at all; the archive is of either directory, wherever it is. *Downloads*: a change
inside the window, its admission and one more window fit into five drawings. *Shutdown*:
one connection can hold up the drain while the other comes late; the timeouts have the
proportions of the code. *Sessions*: the clock lasts for a session that is refreshed
several times before it ends, and the half seconds fall on both sides of each boundary;
two messages are the least that can overtake each other. *Api*: `c1` asks for anything,
uploads that fail in part included; a body too large is one that would otherwise parse, no
upload names a file twice, since a file that repeats says nothing a second one does not,
and the same files come in one order. `c2` removes the entries `c1` removes; it need not
do more, because the engine's own steps already change every torrent at any point. Of the
addresses one is refused and two are not, so a host can have none, some or all that may be
dialled, and a dial can go on to the next. The safety properties are proved without these
bounds. Bounds in the modules: `MaxTime`, `MaxSample` and `MaxChange` end the clock, the
host's samples and the changes; `Watcher` bounds the goroutines alive at once,
`MaxProcess` and `MaxUnderWay` the restarts and the messages of `Sessions`, `MaxUpload`
the files of an upload. `MaxSize` and `maxRedirects` are limits of the code.

Fairness. `Engine`: runnable goroutines run (weak fairness on each watcher, the sampler
and Close); the sampler's exit needs strong fairness because it is one case of a
`select` the pending tick competes with, from which the runtime picks at random.
`Events`: weak fairness for the loops' drawing once begun and for each handler's steps;
that `Released` is not passed over for ever is again the random pick of the `select`.
`Shutdown`: main, handlers that wait for nothing and the clock go on; a loop's `ctx.Done` and a
released stream's `done` are again one case of a `select` (strong fairness); a transfer
need never end, a body never arrive, a remote never answer, a browser never read.
`Api`: weak fairness of each handler's next step, of parsing a URL and of the deadline of
a fetch (`http.Client.Timeout`); nothing is asked of the remote end, of the resolver, of
the render loop or of the client: the server sets no `ReadTimeout`, so a body need never
arrive, and `EveryCallIsAnswered` says that a call is answered or waits for its body for
ever. What `net/http` reads of a body its handler left alone comes after the handler, and is
outside. `Sessions` has safety properties only.
Nobody is assumed to call the API, to connect, to leave or to deliver metadata.
`TorrentLifecycle` asks only that a torrent which is able to download does.

Each property of a passing run has a mutant: an operator next to the one it replaces,
marked "Mutant", that makes the property fail.

## 4. What is proved

`EngineProofs`, for any finite set of watchers and any sets of torrents, handles and
callers of Close, from `EngineAssumption` alone:

* `EngineInvariant`: `Spec => []IInv`;
* `EngineTypes`, `CacheAgrees`, `NoPhantom`, `NoOrphanWatcher`, `CloseIsFinal`: the
  safety properties the runs check;
* `NothingRunsAfterClose`: `QuietAfterClose`, and no client is left behind (`CloseIsFinal`);
* `StopIsRespected`: the action property `StoppedStaysStopped`;
* `WaitGroupNotMisused`: once a Close waits, nothing is added to the wait group;
* `LifecycleIsImplemented`: `Spec => Lifecycle!Spec`, every step of the engine is a step of
  `TorrentLifecycle` or none. This is what lets `Api` use the lifecycle in its place.

The argument. None of the properties is inductive by itself. `StartedNotPhantom` needs
to know that the record's watcher is on the record's own handle and uncancelled, or has
run and done its work: that is `Covered`, and it is the heart of `IInv`. For a watcher to
be covered by its record, handles and watchers must not be shared (`DistinctInv`) and a
record without a handle must have no watcher (`RecordInv`). A watcher that was woken is
on a resolved handle (`WatcherInv`), so when it finishes, its torrent no longer needs
it. `CacheMatchesClient` is what makes `refresh` a no-op on the set of torrents. For
Close, `WgInv` ties the counter to the goroutines that exist, so that a zero counter
means none is left, and `CloserInv` says where the client went. Each action has one
lemma; `StepInv` collects them. Lemmas about `watchInfoLocked`, `stopWatch` and
`AddTorrentSpec` (`ParkFacts`, `CancelFacts`, `AddFacts`) carry the common part. The
refinement needs one fact more, that only a torrent with metadata downloads
(`DownloadsResolved`): without it a torrent could be seen running that was never ready.

`LoopProofs`, for any callers, browsers, floor and interval: `RenderLoopTypes`,
`NoWakeupIsLost`, `KicksArePrompt` and `BurstsStayBounded`. The invariant adds that a
wait ends one floor after the last drawing, and that a kick not drawn yet has an
audience and is pending or being served. Of the drawings since a sample signal one is
for the sample, and need keep no distance; the others are a floor apart, so there are no
more of them than floors begin between the signal and the last drawing. `BurstInv`
counts them, and knows whether the sample's own is still to come.

`EventsProofs`, for any browsers, queue length and number of samples: `EventsTypes`,
`NothingIsMissed`, `WatchersAreExact`, `CloseReleasesAll`. `NothingMissed` is not
inductive, because it says nothing of the time between a store and its broadcast, nor of a
subscriber without its snapshot. The invariant adds that only the loop that holds `UI.mu`
changes the cache or broadcasts, that it broadcasts what it has cached, and that what is
queued for a subscriber ahead of its snapshot ends on the cached region too.

`ConfigStoreProofs`, for any set of concurrent requests and any values of the settings:
`ConfigTypes`, `FileStaysValid`, `DesiredFollowsFile`, `OnlyRestartIsPending` and
`SavesAreAtomicForAll`, the refinement of `Settings`: every step of the store is a save, a
flush, a loss of power or nothing. The invariant says that whoever is between reading
`desired` and setting it holds `configMu`, that what it carries is a form laid over
`desired` and is valid before it is written, and that only a synced file is renamed. A save
merges over `desired`, where `Settings` merges over what is saved; the two differ by the
relative directory the file may still hold, and come to the same once it is made absolute
(`PinnedOnce`).

`ShutdownProofs`, for any connections and timeouts: `ShutdownTypes`, `LoopsAreJoined`,
`ShutdownIsClean`, `StreamsAreReleased`. Time passes in the drain only for a handler that
waits outside the server because the hub is closed before the drain begins, and from then on
every stream has been told to go: those there were by `ui.Close`, those that come later as
they subscribe (`HubInv`).

`ApiProofs`, for any callers, torrents, files, addresses and bounds, from
`FetchAssumption`, `ApiAssumption`, `SendsAssumption`: `ApiTypes`, `ChangesAreShown`,
`AnswersAreTrue`, `BlameIsTheCausers`, `FetchesAreSound`. The invariant has one part per
caller and one for what they share. A fetch's part (`FetchOK`) says that what is left to
dial, and what was dialled, is allowed, and that the chain of a failed fetch names
`ErrBlocked` or `ErrInvalidURL` exactly when its failure was found to be the caller's. A
call's part (`CallOK`) is a count: of an upload, the files done, failed and left add up to
those asked for; a result is success exactly when nothing is missing; and the result is
one of the pairs of chain and blame (`Result`) on which `classify`, evaluated rule by
rule, sides with the blame. `NoInvisibleChange` is inductive once every step is seen to do
one of three things to the page (`Page`): wake the loop, add itself to a call still under
way, or nothing.

`SessionsProofs`, for any clock, lifetimes, restarts and number of messages, from
`SessionsAssumption`: `SessionsTypes`, `IdleSessionsExpire`, `ActiveBrowserStaysLoggedIn` and
`CredentialsSuffice`. Nothing bounds the age of a cookie under way, so the first invariant
speaks of every cookie, held or under way: its key is of this process or an earlier one, and
if of this one it ends no later than a TTL after the last request served. An active
browser needs a bound from below (`ActiveInv`): what it sent lasts until it arrives
(`SentInTime`), what it holds is what it sent or newer (`HeldSince`), and if that is due, the
request that will renew it or the answer that does is on its way (`Renewed`).

`LoopProofs` again, for any interval, torrent size and byte counts: `SamplingTypes`,
`RateAlwaysFinite`, `ReadingsAreWhole`, `CompleteOnlyWhenWhole`. Here the invariant is the
conjunction of `SamplingTypeOK` and `RateIsFinite`: a timestamp in the ticker's channel or
in the sampler's hands is never of the future, so a reading can only be late, which
`sample`'s guard rejects. Every reading goes through `update`, whoever takes it
(`UpdateKeeps`). The last theorem rests on `PercentTruncates`, a fact about integer
division that no instance of TLC's covers for every size.

`FilesProofs`, about `FileList` and `FileWalk`, for any entries, any budget and any set of
directories that cannot be read: `WalkIsTyped`, `WalkKeepsBudget`, `WalkReturnsTheTree`,
`ArchiveHoldsTheTree`. A tree is given without recursion (`Path` is the smallest set with an
entry and, of each entry in it, the directory that is in), which is what puts the agreement
of the walk with its definition within reach of the prover: everything is by induction over
the steps of the walk, none over the tree. The lemmas rest on each other thus:

* *Trees*: a path is its end and the path of the directory that is in, no two nodes are
  above each other, and under a node above another there is one entry on the way.
* *Order*: `Before` is a strict total order of the nodes (`BeforeIrreflexive`,
  `BeforeTotal`, `BeforeTransitive`).
* *Sorting*: `SortedBy` returns the elements of a finite set in increasing order
  (`SortedBySorts`), and that is the only sequence that does.
* *The stack* (`Stack`): each frame stands where its path says, and is for an entry that
  comes before all that is left in the frame below it.
* *The course* (`Course`): everything a walk has met comes before everything it has not,
  with the directory it is about to read last. Each step has its lemma (`CourseTakes` and
  its neighbours), which `Listing` and `Archive` share.
* `Listing` says that the nodes are those met, in order, less what cannot be read, and that
  each frame's `from` splits off exactly the nodes of its directory; where the budget runs
  out, the nodes met are therefore the `Limit` nodes before the entry at hand, which makes
  it the entry of `Cut`, and dropping what lies beyond the root's second frame removes just
  what `Listed` calls lost (`ListingIsCut`). `Archive` says the same of the files below one
  directory, whether it ends with it, at a directory (`ArchiveEnds`) or at a file
  (`ArchiveBreaks`).

`ExactInv` joins these to `BudgetInv`, and holds them only while `still` does: nothing is
claimed of a directory that changes, but the budget and the types.

And about `Downloads`, for any tree, window and number of changes: `RegionInvariant`,
`DownloadsTypes`, `LastChangeIsShown`. `LastChangeArrives` is not inductive: it speaks of a
moment at which the window is over. The invariant says that what was admitted is shown or
announced to whoever has a page (`Announced`), that a drawing is held back only within the
window of one that was admitted (`HeldBack`), and that what was admitted after the last
change is that change (`AdmittedLast`); the first needs that a change of a node in a listing
that has every node always changes the signature.

Proving changed what is claimed in three places. The bound on bursts held of every instance
checked, but had been written as a quotient that is right only where the floor divides the
interval; `BurstsAreBounded` now counts the floors that begin in an interval. The margin an
active session needs was a delay too small, and lacked that a refresh is due no sooner than
a second after the issue. And the provers read `UNION A \ B` as the union of the
difference, TLC as a difference from the union; wherever the two could part, the formula has
parentheses.

Only model-checked: what is about liveness (fairness is out of the prover's reach):
`CloseReturns`, `SamplerNeverStalls`, `Converges`, `StalledLeaves`, `ShutdownTerminates`,
`EveryCallIsAnswered`, and of `ImplementsLifecycle` the part that a ready torrent runs.
Every safety property of a run is a theorem.

## 5. Findings

Each with a run that shows it:

1. AutoStart does not apply live while another setting waits for a restart
   (`engine.go:161`, `README.md:97`): run `config_autostart`.
2. A truncated listing drops everything visited in the directories the budget ran out
   in; it can be empty (`files_test.go:125`, `downloads.html:4`): run `walk_returned`.

Met while modelling, without a run of their own:

* `torrent.go:59` says `watching` and `cancelWatch` are nil when no watcher is live;
  `infoArrived` leaves them set. A consequence: re-adding a loaded torrent parks no
  watcher, so AutoStart switched on in between is not honoured for it.
* `torrent.go:132` says only `refresh` takes readings; `addSpec` does too, and the next
  rate spans less than an interval.
* `ui.go:52` says `UI.mu` keeps samples in order; the sample is read before it is taken.
* The settings form says that saving restarts the client; it does not.
* `downloads.go:153` says a name that appears or disappears reaches the browser at once.
  An entry that comes and goes between two drawings, with a fetch in between, stays on
  the page until the settle window admits the content. `shapeSignature` writes no depth
  marks, so a move can wait for the window too; and what a truncated listing does not
  show is not announced, which is why `LastChangeArrives` excepts it.
* `run.go:24` says no engine call is in flight when main closes the engine; a handler
  that outlived the drain may be in one. `Engine` shows that this is safe.
* `server.go:28` and `run.go:102` say only real transfers outlast the drain. A remote
  fetch and a stream blocked in a write can too: their timeouts are longer, as `Shutdown`
  has it. So can a handler whose request body does not arrive, which has no deadline at
  all: of the two timeouts that are set, `run.go:49` says "Without these a single idle
  connection can hold a goroutine forever", and a client that stalls in the middle of a
  body still does. Such a call is never answered (`EveryCallIsAnswered`).
* A setting that needs a restart is saved without having been tried (`engine.go:181`).
  `Validate` keeps out what it can; a port in its range that cannot be bound is written to
  the file, and the next start refuses it with "initial configure failed"
  (`server.go:181`). `FileIsValid` claims validity and no more.
* `config.go:30` says `desired` must never claim something the file does not hold. From a
  fresh start on it holds an absolute directory where the file says `./downloads`, or
  nothing; a save of any other field then writes the absolute one, and where the server is
  started from no longer matters. An empty directory in the file becomes the one the
  process runs in. `DesiredIsFile` and `SavesAreAtomic` are stated with this pinning.
* `errors.go:29` draws the line between the caller's doing and the server's, and says the
  default is never to blame the user. A multipart upload reports every failure of a file
  as 400 with its detail, a temporary file that cannot be opened and a client that is not
  running included (`forms.go:66`), and a body that could not be kept in a temporary file as
  malformed (`forms.go:51`); `BlameIsRight` excepts uploads.
* Mistakes of the caller's that nothing notices are blamed on the other side, which
  `BlameIsRight` states as it is: a URL without a host, or with a port there is no such
  number of, passes `url.Parse` and fails in `client.Do` as the remote end's, a 502
  (`fetch.go:66`, `fetch.go:93`); a path through a file, or with a name that is too long,
  is no `fs.ErrNotExist` to `EvalSymlinks`, a 500 (`files.go:128`); a `.torrent` that parses
  and is refused by the client is a 500.
* `api.go:61` says why a body is cut off with `MaxBytesReader`, "what the multipart path
  already uses": a `LimitReader` would report an oversized file as malformed. The parts of
  an upload are read through a `LimitReader` (`forms.go:74`); in `Api` that is
  `Read(b, Limited(b.size, MaxSize))`.
* A settings file that cannot be written because its directory is gone is a 404, since
  `classify` matches `fs.ErrNotExist` for any cause.
* The answer that asks for credentials clears the cookie (`auth.go:186`), also one a later
  login has set since: a late 401 logs a browser out. `Sessions` allows for it: a session
  counts as active only from an answer with nothing else under way.
* `serve.go:93` says that closing the archive properly shows the client a truncated file
  "rather than a silently valid-looking one"; closing it is what makes it look valid. And
  a directory that cannot be read is left out of the listing but ends the archive, as does a
  file that cannot be opened, which the listing shows; there the tree and its zip do not
  agree on what exists. `ArchiveIsExact` says which files are in it.

## 6. Not modelled

* Pieces, peers and trackers: the client library, external to the engine.
* View models, fragments, formatting and the HTML they end in (`web/torrents.go`,
  `fragments.go`, `regions.go`, `stats.go`, `server/state.go`): pure functions of one
  reading, without state. What can go wrong in them over time is in `Events`,
  `Downloads` and `Sampling`.
* The request log, the command line, static assets, opening the browser, the system calls
  behind the host statistics: no state that lives longer than one call.
* Serving one file: `net/http` does it. That it can outlast the drain is in `Shutdown`.
* Which entries `visible` hides: `List` and the archive call the same function
  (`files.go:97`, `serve.go:124`), and every entry of the models is one it lets through.
* HMAC, the encoding of tokens and the comparison of credentials, taken to do what they
  are for; `isDisallowedIP`'s table of networks, which is the constant `Disallowed`.
* In the browser, the collapse state of the tree, the timer of the delete confirmation and
  the drag depth: state of one page in one thread, which no other part reads. A second
  click clears the timer of the first before it arms its own.

What could follow: what a re-added, loaded torrent does with AutoStart (section 5) in the
abstract lifecycle, and an abstract specification of the live page.
