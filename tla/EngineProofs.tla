---------------------------- MODULE EngineProofs ----------------------------
(* Theorems about Engine, for any sets of infohashes, handles, watchers and closers. *)
EXTENDS EngineRefinement, FiniteSetTheorems, TLAPS

-----------------------------------------------------------------------------
(* What the record and watcher-table operators return.  Below these lemmas *)
(* Record and WatcherState stay folded.                                    *)

LEMMA RecordFields ==
  ASSUME NEW r \in Record
  PROVE  /\ r.t \in Handle \cup {None}
         /\ r.Started \in BOOLEAN
         /\ r.watching \in Handle \cup {None}
         /\ r.cancelWatch \in Watcher \cup {None}
         /\ r.spec \in Spec_ \cup {None}
BY DEF Record

LEMMA BlankRecord ==
  /\ Blank \in Record
  /\ Blank.t = None /\ Blank.Started = FALSE
  /\ Blank.watching = None /\ Blank.cancelWatch = None
BY DEF Record, Blank

LEMMA FreeWatcher ==
  /\ Free \in WatcherState
  /\ Free.pc = "free" /\ Free.tt = None
BY DEF WatcherState, Free

LEMMA UpdatedRecord ==
  ASSUME NEW r \in Record, NEW tt \in Handle, NEW l \in BOOLEAN
  PROVE  /\ update(r, tt, l) \in Record
         /\ update(r, tt, l).t = tt
         /\ update(r, tt, l).Started = r.Started
         /\ update(r, tt, l).watching = r.watching
         /\ update(r, tt, l).cancelWatch = r.cancelWatch
BY DEF Record, update

LEMMA CancelFacts ==
  ASSUME NEW ws \in [Watcher -> WatcherState], NEW w \in Watcher \cup {None}
  PROVE  /\ Cancel(ws, w) \in [Watcher -> WatcherState]
         /\ \A v \in Watcher :
              /\ Cancel(ws, w)[v].pc = ws[v].pc
              /\ Cancel(ws, w)[v].ih = ws[v].ih
              /\ Cancel(ws, w)[v].tt = ws[v].tt
              /\ ws[v].cancelled => Cancel(ws, w)[v].cancelled
              /\ v # w => Cancel(ws, w)[v] = ws[v]
              /\ ws[v].pc = "free" => Cancel(ws, w)[v] = ws[v]
              /\ v = w /\ ws[v].pc # "free" => Cancel(ws, w)[v].cancelled
BY EngineAssumption DEF Cancel, WatcherState

(* watchInfoLocked either leaves the caller's table alone, or parks a new watcher in a *)
(* free slot after cancelling the one the record named.                                *)
Kept(h, r, tt, ws, n) ==
  /\ ctxDone \/ r.watching = tt
  /\ rec'[h] = r /\ watcher' = ws /\ wg' = n

ParkedAt(w, h, r, tt, ws, n) ==
  /\ ~ctxDone
  /\ rec'[h].watching = tt /\ rec'[h].cancelWatch = w
  /\ watcher'[w].pc = "select" /\ watcher'[w].ih = h
  /\ watcher'[w].tt = tt /\ watcher'[w].cancelled = FALSE
  /\ \A v \in Watcher : v # w => watcher'[v] = Cancel(ws, r.cancelWatch)[v]
  /\ wg' = n + 1

Stored(h, r, tt, ws, n) ==
  /\ rec' \in [Hash -> Record]
  /\ watcher' \in [Watcher -> WatcherState]
  /\ wg' \in Int
  /\ \A g \in Hash : g # h => rec'[g] = rec[g]
  /\ rec'[h].t = r.t /\ rec'[h].Started = r.Started
  /\ Kept(h, r, tt, ws, n) \/ \E w \in FreeWatchers : ParkedAt(w, h, r, tt, ws, n)

LEMMA ParkFacts ==
  ASSUME rec \in [Hash -> Record],
         NEW h \in Hash, NEW r \in Record, NEW tt \in Handle,
         NEW ws \in [Watcher -> WatcherState], NEW n \in Int,
         watchInfoLocked(h, r, tt, ws, n)
  PROVE  Stored(h, r, tt, ws, n)
<1>1. CASE ctxDone \/ r.watching = tt
  BY <1>1 DEF watchInfoLocked, Stored, Kept
<1>2. CASE ~(ctxDone \/ r.watching = tt)
  <2>1. PICK w \in FreeWatchers :
          /\ rec' = [rec EXCEPT ![h] = [r EXCEPT !.watching = tt, !.cancelWatch = w]]
          /\ watcher' = [stopWatch(ws, r) EXCEPT
               ![w] = [pc |-> "select", ih |-> h, tt |-> tt, cancelled |-> FALSE]]
          /\ wg' = n + 1
    BY <1>2 DEF watchInfoLocked
  <2>2. w \in Watcher
    BY DEF FreeWatchers
  <2>3. Cancel(ws, r.cancelWatch) \in [Watcher -> WatcherState]
    BY CancelFacts, RecordFields
  <2> DEFINE parked == [pc |-> "select", ih |-> h, tt |-> tt, cancelled |-> FALSE]
  <2>4. /\ parked \in WatcherState
        /\ parked.pc = "select" /\ parked.ih = h /\ parked.tt = tt /\ parked.cancelled = FALSE
    BY DEF WatcherState
  <2> HIDE DEF parked
  <2>5. watcher' = [Cancel(ws, r.cancelWatch) EXCEPT ![w] = parked]
    BY <2>1 DEF stopWatch, parked
  <2> DEFINE q == [r EXCEPT !.watching = tt, !.cancelWatch = w]
  <2>6. /\ q \in Record
        /\ q.t = r.t /\ q.Started = r.Started /\ q.watching = tt /\ q.cancelWatch = w
    BY <2>2 DEF Record
  <2>7. rec' = [rec EXCEPT ![h] = q]
    BY <2>1
  <2> HIDE DEF q
  <2>8. /\ watcher' \in [Watcher -> WatcherState]
        /\ watcher'[w] = parked
        /\ \A v \in Watcher : v # w => watcher'[v] = Cancel(ws, r.cancelWatch)[v]
    BY <2>2, <2>3, <2>4, <2>5
  <2>9. /\ rec' \in [Hash -> Record]
        /\ rec'[h] = q
        /\ \A g \in Hash : g # h => rec'[g] = rec[g]
    BY <2>6, <2>7
  <2> QED
    BY <1>2, <2>1, <2>4, <2>6, <2>8, <2>9 DEF Stored, ParkedAt
<1> QED
  BY <1>1, <1>2

LEMMA AddFacts ==
  ASSUME TypeOK, NEW h \in Hash, NEW s, NEW tt \in Handle, AddTorrentSpec(h, s, tt)
  PROVE  /\ held' \in [Hash -> Handle \cup {None}]
         /\ held'[h] = tt
         /\ \A g \in Hash : g # h => held'[g] = held[g]
         /\ info' \in SUBSET Handle
         /\ info \ {tt} \subseteq info'
         /\ held[h] = tt => info \subseteq info'
         /\ held[h] # tt => held[h] = None /\ Fresh(tt)
BY DEF TypeOK, AddTorrentSpec

-----------------------------------------------------------------------------
(* One torrent gets a handle: what addSpec does, and startLocked when it re-adds a *)
(* dropped torrent.  The record r is the one stored before watchInfoLocked runs.   *)
LEMMA HandleStep ==
  ASSUME IInv, client = "live",
         NEW h \in Hash, NEW s, NEW tt \in Handle, NEW r \in Record,
         r.t = tt, r.watching = rec[h].watching, r.cancelWatch = rec[h].cancelWatch,
         r.Started => rec[h].Started \/ rec[h].t = None,
         AddTorrentSpec(h, s, tt),
         downloading' \in SUBSET Handle,
         downloading \ {tt} \subseteq downloading',
         held[h] = tt => downloading \subseteq downloading',
         known' = known \cup {h},
         watchInfoLocked(h, r, tt, watcher, wg),
         UNCHANGED <<ctxDone, client, open, config, sampler, sampled, closer>>
  PROVE  IInv'
<1> USE EngineAssumption
<1>1. /\ rec \in [Hash -> Record] /\ watcher \in [Watcher -> WatcherState] /\ wg \in Nat
  BY DEF IInv, TypeOK
<1>2. /\ held' \in [Hash -> Handle \cup {None}]
      /\ held'[h] = tt
      /\ \A g \in Hash : g # h => held'[g] = held[g]
      /\ info' \in SUBSET Handle
      /\ info \ {tt} \subseteq info'
      /\ held[h] = tt => info \subseteq info'
      /\ held[h] # tt => held[h] = None /\ Fresh(tt)
  BY AddFacts DEF IInv
<1>3. Stored(h, r, tt, watcher, wg)
  BY <1>1, ParkFacts
<1>4. \A g \in Hash : held[g] = IF g \in known THEN rec[g].t ELSE None
  BY DEF IInv, ClientInv, CacheMatchesClient
<1>5. \A g \in Hash : g # h => rec[g].t # tt
  BY <1>2, <1>4 DEF Fresh, IInv, RecordInv, DistinctInv
<1>6. /\ rec' \in [Hash -> Record]
      /\ watcher' \in [Watcher -> WatcherState]
      /\ \A g \in Hash : g # h => rec'[g] = rec[g]
      /\ rec'[h].t = tt /\ rec'[h].Started = r.Started
  BY <1>3 DEF Stored
<1>7. \A v \in Watcher :
        /\ Cancel(watcher, rec[h].cancelWatch)[v].pc = watcher[v].pc
        /\ Cancel(watcher, rec[h].cancelWatch)[v].ih = watcher[v].ih
        /\ Cancel(watcher, rec[h].cancelWatch)[v].tt = watcher[v].tt
        /\ watcher[v].cancelled => Cancel(watcher, rec[h].cancelWatch)[v].cancelled
        /\ v # rec[h].cancelWatch \/ watcher[v].pc = "free"
              => Cancel(watcher, rec[h].cancelWatch)[v] = watcher[v]
        /\ v = rec[h].cancelWatch /\ watcher[v].pc # "free"
              => Cancel(watcher, rec[h].cancelWatch)[v].cancelled
  <2>1. rec[h].cancelWatch \in Watcher \cup {None}
    BY <1>1, RecordFields
  <2> QED
    BY <1>1, <2>1, CancelFacts
<1> DEFINE Same(v) == /\ watcher'[v].pc = watcher[v].pc
                      /\ watcher'[v].ih = watcher[v].ih
                      /\ watcher'[v].tt = watcher[v].tt
                      /\ watcher[v].cancelled => watcher'[v].cancelled
                      /\ v # rec[h].cancelWatch \/ watcher[v].pc = "free"
                           => watcher'[v] = watcher[v]
                      /\ v = rec[h].cancelWatch /\ watcher[v].pc # "free"
                           => watcher'[v].cancelled
           KeptHere == /\ ctxDone \/ rec[h].watching = tt
                       /\ rec'[h].watching = rec[h].watching
                       /\ rec'[h].cancelWatch = rec[h].cancelWatch
                       /\ watcher' = watcher
                       /\ wg' = wg
           ParkedHere(w) == /\ ~ctxDone
                            /\ watcher[w].pc = "free"
                            /\ \A g \in Hash : rec[g].cancelWatch # w
                            /\ rec'[h].watching = tt /\ rec'[h].cancelWatch = w
                            /\ watcher'[w].pc = "select" /\ watcher'[w].ih = h
                            /\ watcher'[w].tt = tt /\ watcher'[w].cancelled = FALSE
                            /\ \A v \in Watcher : v # w => Same(v)
                            /\ wg' = wg + 1
<1>8. KeptHere \/ \E w \in Watcher : ParkedHere(w)
  BY <1>3, <1>7 DEF Stored, Kept, ParkedAt, FreeWatchers, Live
<1>9. \A g \in Hash : rec[g] \in Record /\ rec'[g] \in Record
  BY <1>1, <1>6
<1>10. ClientInv'
  BY <1>2, <1>4, <1>6 DEF IInv, ClientInv, CacheMatchesClient
<1>11. RecordInv'
  BY <1>2, <1>6, <1>8 DEF IInv, RecordInv
<1>12. DistinctInv'
  BY <1>5, <1>6, <1>8 DEF IInv, DistinctInv
<1>13. WatcherInv'
  BY <1>1, <1>2, <1>6, <1>8 DEF IInv, WatcherInv, Live, Fresh
<1>14. CoveredInv'
  <2> SUFFICES ASSUME ~ctxDone', NEW g \in Hash, rec'[g].t # None
               PROVE  Covered(g)'
    BY DEF CoveredInv
  <2>1. ~ctxDone /\ (rec[g].t # None => Covered(g))
    BY DEF IInv, CoveredInv
  <2>2. rec[g].cancelWatch \in Watcher \cup {None}
    BY <1>9, RecordFields
  <2>3. CASE g # h
    BY <1>2, <1>5, <1>6, <1>8, <2>1, <2>2, <2>3 DEF Covered, IInv, DistinctInv
  <2>4. CASE g = h /\ KeptHere
    <3>1. /\ rec[h].t = tt /\ held[h] = tt /\ Covered(h)
      BY <1>4, <2>1, <2>4, BlankRecord, EngineAssumption DEF Covered, IInv, RecordInv
    <3> QED
      BY <1>2, <1>6, <2>4, <3>1 DEF Covered
  <2>5. CASE g = h /\ ~KeptHere
    BY <1>6, <1>8, <2>5, EngineAssumption DEF Covered
  <2> QED
    BY <2>3, <2>4, <2>5
<1>15. WatcherOwned'
  BY <1>2, <1>4, <1>5, <1>6, <1>8, <1>9 DEF IInv, RecordInv, DistinctInv, WatcherOwned, WatcherInv, Live, Done
<1>16. CloserInv' /\ ClientReleased'
  BY DEF IInv, CloserInv, ClientReleased
<1>17. WgInv'
  <2>1. CASE KeptHere
    BY <2>1 DEF IInv, WgInv, LiveWatchers, Live
  <2>2. ASSUME NEW w \in Watcher, ParkedHere(w) PROVE WgInv'
    <3>1. w \notin LiveWatchers /\ LiveWatchers' = LiveWatchers \cup {w}
      BY <2>2 DEF LiveWatchers, Live
    <3> QED
      BY <2>2, <3>1, FS_AddElement, FS_CardinalityType DEF IInv, WgInv
  <2> QED
    BY <1>8, <2>1, <2>2
<1>18. QuietAfterClose'
  BY <1>8 DEF IInv, CloserInv, QuietAfterClose
<1>19. TypeOK'
  BY <1>2, <1>6, <1>8 DEF IInv, TypeOK
<1> QED
  BY <1>10, <1>11, <1>12, <1>13, <1>14, <1>15, <1>16, <1>17, <1>18, <1>19 DEF IInv

-----------------------------------------------------------------------------
(* A watcher goroutine ends.  It may leave its torrent flagged as running only if the *)
(* download has been asked for, and it may not leave a torrent it covers uncovered.   *)
LEMMA ExitStep ==
  ASSUME IInv, NEW w \in Watcher, Live(w),
         watcher' = [watcher EXCEPT ![w] = Free],
         wg' = wg - 1,
         rec' \in [Hash -> Record],
         \A g \in Hash : /\ rec'[g].t = rec[g].t
                         /\ rec'[g].watching = rec[g].watching
                         /\ rec'[g].cancelWatch = rec[g].cancelWatch
                         /\ rec'[g].Started => rec[g].Started \/ rec[g].t \in downloading'
                         /\ g \notin known => rec'[g] = rec[g]
                         /\ rec'[g].Started => rec[g].Started \/ rec[g].t # None,
         downloading' \in SUBSET Handle, downloading \subseteq downloading',
         \A g \in Hash : ~Done(w) /\ rec[g].t # None /\ rec[g].t = watcher[w].tt =>
            rec[g].t \in info /\ (rec'[g].Started => rec[g].t \in downloading'),
         UNCHANGED <<ctxDone, client, open, config, known, sampler, sampled, closer, held, info>>
  PROVE  IInv'
<1>1. /\ rec \in [Hash -> Record] /\ watcher \in [Watcher -> WatcherState] /\ wg \in Nat
  BY DEF IInv, TypeOK
<1>2. /\ watcher' \in [Watcher -> WatcherState]
      /\ watcher'[w] = Free /\ watcher'[w].pc = "free" /\ watcher'[w].tt = None
      /\ \A v \in Watcher : v # w => watcher'[v] = watcher[v]
  BY <1>1, FreeWatcher
<1>3. \A g \in Hash : rec[g].cancelWatch \in Watcher \cup {None}
  BY <1>1, RecordFields
<1>4. ClientInv'
  BY DEF IInv, ClientInv, CacheMatchesClient
<1>5. RecordInv'
  BY DEF IInv, RecordInv
<1>6. DistinctInv'
  BY DEF IInv, DistinctInv
<1>7. WatcherInv'
  BY <1>2 DEF IInv, WatcherInv, Live
<1>8. CoveredInv'
  <2> SUFFICES ASSUME ~ctxDone', NEW g \in Hash, rec'[g].t # None
               PROVE  Covered(g)'
    BY DEF CoveredInv
  <2>1. ~ctxDone /\ rec[g].t # None /\ Covered(g)
    BY DEF IInv, CoveredInv
  <2> QED
    BY <1>2, <1>3, <2>1 DEF Covered, Done
<1>9. WatcherOwned'
  BY <1>2 DEF IInv, WatcherOwned, WatcherInv, Live, Done
<1>10. CloserInv' /\ ClientReleased'
  BY DEF IInv, CloserInv, ClientReleased
<1>11. WgInv'
  <2>1. w \in LiveWatchers /\ LiveWatchers' = LiveWatchers \ {w}
    BY <1>2 DEF LiveWatchers, Live
  <2>2. IsFiniteSet(LiveWatchers) /\ Cardinality(LiveWatchers) \in Nat
    BY FS_CardinalityType DEF IInv, WgInv
  <2>3. /\ IsFiniteSet(LiveWatchers')
        /\ Cardinality(LiveWatchers') = Cardinality(LiveWatchers) - 1
    BY <2>1, <2>2, FS_RemoveElement
  <2> QED
    BY <2>2, <2>3 DEF IInv, WgInv
<1>12. QuietAfterClose'
  BY <1>2 DEF IInv, QuietAfterClose, Live
<1>13. wg' \in Nat
  <2>1. wg' = Cardinality(LiveWatchers') + (IF sampler' = "exited" THEN 0 ELSE 1)
          /\ IsFiniteSet(LiveWatchers')
    BY <1>11 DEF WgInv
  <2> QED
    BY <2>1, FS_CardinalityType
<1>14. TypeOK'
  BY <1>2, <1>13 DEF IInv, TypeOK
<1> QED
  BY <1>4, <1>5, <1>6, <1>7, <1>8, <1>9, <1>10, <1>11, <1>12, <1>14 DEF IInv

(* A torrent that has a handle is flagged as running; it downloads if it can. *)
LEMMA FlagStep ==
  ASSUME IInv, NEW h \in known, rec[h].t # None,
         rec' = [rec EXCEPT ![h].Started = TRUE],
         downloading' = downloading \cup (info \cap {rec[h].t}),
         UNCHANGED <<ctxDone, client, open, config, known, procVars, held, info>>
  PROVE  IInv'
<1>1. /\ rec \in [Hash -> Record] /\ h \in Hash
      /\ UNCHANGED <<watcher, wg, sampler, sampled, closer>>
  BY DEF IInv, TypeOK, procVars
<1>2. /\ rec' \in [Hash -> Record]
      /\ \A g \in Hash : g # h => rec'[g] = rec[g]
      /\ rec'[h].t = rec[h].t /\ rec'[h].Started = TRUE
      /\ rec'[h].watching = rec[h].watching /\ rec'[h].cancelWatch = rec[h].cancelWatch
  <2> DEFINE q == [rec[h] EXCEPT !.Started = TRUE]
  <2>1. /\ q \in Record
        /\ q.t = rec[h].t /\ q.Started = TRUE
        /\ q.watching = rec[h].watching /\ q.cancelWatch = rec[h].cancelWatch
    BY <1>1 DEF Record
  <2>2. rec' = [rec EXCEPT ![h] = q]
    OBVIOUS
  <2> HIDE DEF q
  <2> QED
    BY <1>1, <2>1, <2>2
<1>3. ClientInv'
  BY <1>1, <1>2 DEF IInv, ClientInv, CacheMatchesClient
<1>4. RecordInv'
  BY <1>1, <1>2 DEF IInv, RecordInv
<1>5. DistinctInv'
  BY <1>1, <1>2 DEF IInv, DistinctInv
<1>6. CoveredInv'
  BY <1>1, <1>2 DEF IInv, CoveredInv, Covered
<1>7. WatcherInv' /\ WatcherOwned'
  BY <1>1, <1>2 DEF IInv, WatcherInv, WatcherOwned, Live, Done
<1>8. CloserInv' /\ ClientReleased' /\ WgInv' /\ QuietAfterClose'
  BY <1>1 DEF IInv, CloserInv, ClientReleased, WgInv, QuietAfterClose, LiveWatchers, Live
<1>9. TypeOK'
  BY <1>1, <1>2 DEF IInv, TypeOK
<1> QED
  BY <1>3, <1>4, <1>5, <1>6, <1>7, <1>8, <1>9 DEF IInv

(* A torrent loses its handle, its watcher is released and the client forgets it. *)
LEMMA DropStep ==
  ASSUME IInv, NEW h \in known,
         watcher' = Cancel(watcher, rec[h].cancelWatch),
         rec' \in [Hash -> Record],
         \A g \in Hash : g # h => rec'[g] = rec[g],
         rec'[h].t = None, rec'[h].Started = FALSE,
         rec'[h].watching = None, rec'[h].cancelWatch = None,
         known' \in SUBSET Hash, known \ {h} \subseteq known', known' \subseteq known,
         h \notin known' => rec'[h] = Blank,
         IF rec[h].t # None THEN held' = [held EXCEPT ![h] = None] ELSE held' = held,
         UNCHANGED <<ctxDone, client, open, config, wg, sampler, sampled, closer, info, downloading>>
  PROVE  IInv'
<1>1. /\ rec \in [Hash -> Record] /\ h \in Hash
      /\ watcher \in [Watcher -> WatcherState] /\ held \in [Hash -> Handle \cup {None}]
  BY DEF IInv, TypeOK
<1>2. \A g \in Hash : rec[g].cancelWatch \in Watcher \cup {None}
  BY <1>1, RecordFields
<1>3. /\ watcher' \in [Watcher -> WatcherState]
      /\ \A v \in Watcher :
           /\ watcher'[v].pc = watcher[v].pc
           /\ watcher'[v].ih = watcher[v].ih
           /\ watcher'[v].tt = watcher[v].tt
           /\ watcher[v].cancelled => watcher'[v].cancelled
           /\ v # rec[h].cancelWatch \/ watcher[v].pc = "free" => watcher'[v] = watcher[v]
           /\ v = rec[h].cancelWatch /\ watcher[v].pc # "free" => watcher'[v].cancelled
  BY <1>1, <1>2, CancelFacts
<1>4. /\ client = "live" /\ held' \in [Hash -> Handle \cup {None}]
      /\ held'[h] = None /\ \A g \in Hash : g # h => held'[g] = held[g]
  BY <1>1 DEF IInv, TypeOK, ClientInv, CacheMatchesClient
<1>5. ClientInv'
  BY <1>1, <1>4 DEF IInv, ClientInv, CacheMatchesClient
<1>6. RecordInv'
  BY <1>1 DEF IInv, RecordInv
<1>7. DistinctInv'
  BY <1>1 DEF IInv, DistinctInv
<1>8. WatcherInv'
  BY <1>3 DEF IInv, WatcherInv, Live
<1>9. CoveredInv'
  <2> SUFFICES ASSUME ~ctxDone', NEW g \in Hash, rec'[g].t # None
               PROVE  Covered(g)'
    BY DEF CoveredInv
  <2>1. g # h /\ ~ctxDone /\ rec[g].t # None /\ Covered(g)
    BY DEF IInv, CoveredInv
  <2> QED
    BY <1>1, <1>2, <1>3, <2>1 DEF Covered, IInv, DistinctInv
<1>10. WatcherOwned'
  BY <1>1, <1>3 DEF IInv, WatcherOwned, Live, Done
<1>11. CloserInv' /\ ClientReleased'
  BY DEF IInv, CloserInv, ClientReleased
<1>12. WgInv'
  <2>1. LiveWatchers' = LiveWatchers
    BY <1>3 DEF LiveWatchers, Live
  <2> QED
    BY <2>1 DEF IInv, WgInv
<1>13. QuietAfterClose'
  BY <1>3 DEF IInv, QuietAfterClose, Live
<1>14. TypeOK'
  BY <1>1, <1>3, <1>4 DEF IInv, TypeOK
<1> QED
  BY <1>5, <1>6, <1>7, <1>8, <1>9, <1>10, <1>11, <1>12, <1>13, <1>14 DEF IInv

-----------------------------------------------------------------------------
LEMMA InitInv == Init => IInv
<1> SUFFICES ASSUME Init PROVE IInv
  OBVIOUS
<1> USE DEF Init
<1>1. TypeOK
  <2>1. config \in Config
    BY DEF Config
  <2>2. closer \in [Closer -> CloserState]
    BY DEF CloserState
  <2>3. rec \in [Hash -> Record] /\ watcher \in [Watcher -> WatcherState]
    BY BlankRecord, FreeWatcher
  <2>4. held \in [Hash -> Handle \cup {None}] /\ wg \in Nat /\ sampled \in 0..1
    OBVIOUS
  <2> QED
    BY <2>1, <2>2, <2>3, <2>4, Zenon DEF TypeOK
<1>2. ClientInv /\ RecordInv /\ DistinctInv /\ CoveredInv
  BY BlankRecord DEF ClientInv, CacheMatchesClient, RecordInv, DistinctInv, CoveredInv
<1>3. WatcherInv /\ WatcherOwned
  BY FreeWatcher DEF WatcherInv, WatcherOwned, Live
<1>4. CloserInv /\ ClientReleased /\ QuietAfterClose
  BY DEF CloserInv, ClientReleased, QuietAfterClose
<1>5. WgInv
  <2>1. LiveWatchers = {}
    BY FreeWatcher DEF LiveWatchers, Live
  <2> QED
    BY <2>1, FS_EmptySet DEF WgInv
<1> QED
  BY <1>1, <1>2, <1>3, <1>4, <1>5 DEF IInv

LEMMA AddSpecInv ==
  ASSUME IInv, NEW h \in Hash, NEW s \in Spec_, addSpec(h, s)
  PROVE  IInv'
<1>1. rec \in [Hash -> Record] /\ downloading \in SUBSET Handle
  BY DEF IInv, TypeOK
<1>2. PICK tt \in Handle :
        /\ AddTorrentSpec(h, s, tt)
        /\ downloading' = DownloadsAfterAdd(h, tt)
        /\ known' = known \cup {h}
        /\ watchInfoLocked(h, [update(rec[h], tt, tt \in info') EXCEPT !.spec = s],
                           tt, watcher, wg)
  BY DEF addSpec
<1> DEFINE r == [update(rec[h], tt, tt \in info') EXCEPT !.spec = s]
<1>3. /\ r \in Record
      /\ r.t = tt /\ r.Started = rec[h].Started
      /\ r.watching = rec[h].watching /\ r.cancelWatch = rec[h].cancelWatch
  <2>1. rec[h] \in Record
    BY <1>1
  <2>2. (tt \in info') \in BOOLEAN
    OBVIOUS
  <2>3. PICK u \in Record : /\ u = update(rec[h], tt, tt \in info')
                            /\ u.t = tt /\ u.Started = rec[h].Started
                            /\ u.watching = rec[h].watching /\ u.cancelWatch = rec[h].cancelWatch
    BY <2>1, <2>2, UpdatedRecord
  <2>4. r = [u EXCEPT !.spec = s]
    BY <2>3
  <2> HIDE DEF r
  <2> QED
    BY <2>3, <2>4 DEF Record
<1>4. watchInfoLocked(h, r, tt, watcher, wg)
  BY <1>2
<1> HIDE DEF r
<1>5. /\ downloading' \in SUBSET Handle
      /\ downloading \ {tt} \subseteq downloading'
      /\ held[h] = tt => downloading \subseteq downloading'
  BY <1>1, <1>2 DEF DownloadsAfterAdd
<1>6. client = "live" /\ UNCHANGED <<ctxDone, client, open, config, sampler, sampled, closer>>
  BY DEF addSpec
<1> QED
  BY <1>2, <1>3, <1>4, <1>5, <1>6, HandleStep

LEMMA StartTorrentInv ==
  ASSUME IInv, NEW h \in Hash, StartTorrent(h)
  PROVE  IInv'
<1>1. rec \in [Hash -> Record] /\ downloading \in SUBSET Handle /\ h \in known
  BY DEF IInv, TypeOK, StartTorrent
<1>2. UNCHANGED <<ctxDone, client, open, config, known, sampler, sampled, closer>>
  BY DEF StartTorrent
<1>3. CASE rec[h].t = None
  <2>1. client = "live"
    BY <1>3 DEF StartTorrent, startLocked
  <2>2. PICK tt \in Handle :
          /\ AddTorrentSpec(h, rec[h].spec, tt)
          /\ downloading' = DownloadsAfterAdd(h, tt) \cup (info' \cap {tt})
          /\ watchInfoLocked(h, [rec[h] EXCEPT !.t = tt, !.Started = TRUE], tt, watcher, wg)
    BY <1>3 DEF StartTorrent, startLocked
  <2> DEFINE r == [rec[h] EXCEPT !.t = tt, !.Started = TRUE]
  <2>3. /\ r \in Record
        /\ r.t = tt /\ r.Started = TRUE
        /\ r.watching = rec[h].watching /\ r.cancelWatch = rec[h].cancelWatch
    <3>1. rec[h] \in Record
      BY <1>1
    <3> QED
      BY <3>1 DEF Record
  <2>4. watchInfoLocked(h, r, tt, watcher, wg)
    BY <2>2
  <2> HIDE DEF r
  <2>5. /\ downloading' \in SUBSET Handle
        /\ downloading \ {tt} \subseteq downloading'
        /\ held[h] = tt => downloading \subseteq downloading'
    BY <1>1, <2>2 DEF DownloadsAfterAdd
  <2>6. known' = known \cup {h}
    BY <1>1, <1>2
  <2> QED
    BY <1>2, <1>3, <2>1, <2>2, <2>3, <2>4, <2>5, <2>6, HandleStep
<1>4. CASE rec[h].t # None
  <2>1. /\ rec' = [rec EXCEPT ![h].Started = TRUE]
        /\ downloading' = downloading \cup (info \cap {rec[h].t})
        /\ UNCHANGED <<procVars, held, info>>
    BY <1>2, <1>4 DEF StartTorrent, startLocked, procVars
  <2> QED
    BY <1>1, <1>2, <1>4, <2>1, FlagStep
<1> QED
  BY <1>3, <1>4

LEMMA StopTorrentInv ==
  ASSUME IInv, NEW h \in Hash, StopTorrent(h)
  PROVE  IInv'
<1>1. rec \in [Hash -> Record] /\ h \in known /\ known \in SUBSET Hash
  BY DEF IInv, TypeOK, StopTorrent
<1> DEFINE q == [Unwatched(rec[h]) EXCEPT !.t = None, !.Started = FALSE]
<1>2. /\ q \in Record
      /\ q.t = None /\ q.Started = FALSE /\ q.watching = None /\ q.cancelWatch = None
  <2>1. rec[h] \in Record
    BY <1>1
  <2> QED
    BY <2>1 DEF Record, Unwatched
<1>3. rec' = [rec EXCEPT ![h] = q]
  BY DEF StopTorrent
<1> HIDE DEF q
<1>4. /\ rec' \in [Hash -> Record] /\ rec'[h] = q
      /\ \A g \in Hash : g # h => rec'[g] = rec[g]
  BY <1>1, <1>2, <1>3
<1>5. /\ watcher' = Cancel(watcher, rec[h].cancelWatch)
      /\ IF rec[h].t # None THEN held' = [held EXCEPT ![h] = None] ELSE held' = held
      /\ known' = known
      /\ UNCHANGED <<ctxDone, client, open, config, wg, sampler, sampled, closer, info, downloading>>
  BY DEF StopTorrent, stopWatch, Drop
<1>6. h \notin known' => rec'[h] = Blank
  BY <1>1, <1>5
<1> QED
  BY <1>1, <1>2, <1>4, <1>5, <1>6, DropStep

LEMMA DeleteTorrentInv ==
  ASSUME IInv, NEW h \in Hash, DeleteTorrent(h)
  PROVE  IInv'
<1>1. rec \in [Hash -> Record] /\ h \in known /\ known \in SUBSET Hash
  BY DEF IInv, TypeOK, DeleteTorrent
<1>2. /\ rec' = [rec EXCEPT ![h] = Blank]
      /\ watcher' = Cancel(watcher, rec[h].cancelWatch)
      /\ IF rec[h].t # None THEN held' = [held EXCEPT ![h] = None] ELSE held' = held
      /\ known' = known \ {h}
      /\ UNCHANGED <<ctxDone, client, open, config, wg, sampler, sampled, closer, info, downloading>>
  BY DEF DeleteTorrent, stopWatch, Drop
<1>3. /\ rec' \in [Hash -> Record] /\ rec'[h] = Blank
      /\ \A g \in Hash : g # h => rec'[g] = rec[g]
  BY <1>1, <1>2, BlankRecord
<1> QED
  BY <1>1, <1>2, <1>3, BlankRecord, DropStep

LEMMA WatcherReleasedInv ==
  ASSUME IInv, NEW w \in Watcher, WatcherReleased(w)
  PROVE  IInv'
<1>1. /\ Live(w) /\ Done(w)
      /\ watcher' = [watcher EXCEPT ![w] = Free] /\ wg' = wg - 1
      /\ UNCHANGED <<ctxDone, client, open, config, known, rec, sampler, sampled, closer,
                     held, info, downloading>>
  BY DEF WatcherReleased, Live, engineVars, clientVars
<1>2. rec \in [Hash -> Record] /\ downloading \in SUBSET Handle
  BY DEF IInv, TypeOK
<1> QED
  BY <1>1, <1>2, ExitStep

LEMMA InfoArrivedInv ==
  ASSUME IInv, NEW w \in Watcher, infoArrived(w)
  PROVE  IInv'
<1> DEFINE ih == watcher[w].ih
           tt == watcher[w].tt
           current == ih \in known /\ rec[ih].t = tt
<1>1. /\ Live(w) /\ ih \in Hash /\ tt \in Handle /\ tt \in info /\ tt # None
  BY EngineAssumption DEF IInv, WatcherInv, infoArrived, isCurrent, Live
<1>2. rec \in [Hash -> Record] /\ downloading \in SUBSET Handle
  BY DEF IInv, TypeOK
<1>3. UNCHANGED <<ctxDone, client, open, config, known, sampler, sampled, closer>>
  BY DEF infoArrived, isCurrent
<1>4. \A g \in Hash : ~Done(w) /\ rec[g].t = tt => g = ih /\ current
  BY <1>1 DEF IInv, WatcherOwned, DistinctInv
<1>5. CASE current /\ rec[ih].Started
  <2>1. /\ downloading' = downloading \cup {tt}
        /\ watcher' = [watcher EXCEPT ![w] = Free] /\ wg' = wg - 1
        /\ UNCHANGED <<rec, held, info>>
    BY <1>5 DEF infoArrived, isCurrent
  <2> HIDE DEF current
  <2> QED
    BY <1>1, <1>2, <1>3, <1>4, <2>1, ExitStep
<1>6. CASE current /\ ~rec[ih].Started /\ config.AutoStart
  <2>1. /\ rec' = [rec EXCEPT ![ih].Started = TRUE]
        /\ downloading' = downloading \cup {tt}
        /\ watcher' = [watcher EXCEPT ![w] = Free] /\ wg' = wg - 1
        /\ UNCHANGED <<held, info>>
    BY <1>1, <1>6 DEF infoArrived, isCurrent, startLocked
  <2> DEFINE q == [rec[ih] EXCEPT !.Started = TRUE]
  <2>2. /\ q \in Record
        /\ q.t = rec[ih].t /\ q.Started = TRUE
        /\ q.watching = rec[ih].watching /\ q.cancelWatch = rec[ih].cancelWatch
    <3>1. rec[ih] \in Record
      BY <1>1, <1>2
    <3> QED
      BY <3>1 DEF Record
  <2>3. rec' = [rec EXCEPT ![ih] = q]
    BY <2>1
  <2> HIDE DEF q
  <2>4. /\ rec' \in [Hash -> Record]
        /\ rec'[ih] = q
        /\ \A g \in Hash : g # ih => rec'[g] = rec[g]
    BY <1>1, <1>2, <2>2, <2>3
  <2> QED
    BY <1>1, <1>2, <1>3, <1>4, <1>6, <2>1, <2>2, <2>4, ExitStep
<1>7. CASE ~current \/ (~rec[ih].Started /\ ~config.AutoStart)
  <2>1. /\ watcher' = [watcher EXCEPT ![w] = Free] /\ wg' = wg - 1
        /\ UNCHANGED <<rec, held, info, downloading>>
    BY <1>7 DEF infoArrived, isCurrent, clientVars
  <2> QED
    BY <1>1, <1>2, <1>3, <1>4, <1>7, <2>1, ExitStep
<1> QED
  BY <1>5, <1>6, <1>7 DEF infoArrived, isCurrent

LEMMA WatcherWokenInv ==
  ASSUME IInv, NEW w \in Watcher, WatcherWoken(w)
  PROVE  IInv'
<1> USE DEF IInv, WatcherWoken, engineVars, clientVars
<1>1. watcher \in [Watcher -> WatcherState] /\ rec \in [Hash -> Record]
  BY DEF TypeOK
<1>2. /\ watcher' \in [Watcher -> WatcherState]
      /\ \A v \in Watcher : v # w => watcher'[v] = watcher[v]
      /\ watcher[w].pc = "select" /\ watcher'[w].pc = "arrived"
      /\ watcher'[w].ih = watcher[w].ih /\ watcher'[w].tt = watcher[w].tt
      /\ watcher'[w].cancelled = watcher[w].cancelled
  BY <1>1 DEF WatcherState
<1>3. \A g \in Hash : rec[g].cancelWatch \in Watcher \cup {None}
  BY <1>1, RecordFields
<1>4. ClientInv' /\ RecordInv' /\ DistinctInv'
  BY DEF ClientInv, CacheMatchesClient, RecordInv, DistinctInv
<1>5. WatcherInv' /\ WatcherOwned'
  BY <1>2 DEF WatcherInv, WatcherOwned, Live, Done
<1>6. CoveredInv'
  BY <1>2, <1>3 DEF CoveredInv, Covered
<1>7. CloserInv' /\ ClientReleased'
  BY DEF CloserInv, ClientReleased
<1>8. WgInv'
  <2>1. LiveWatchers' = LiveWatchers
    BY <1>2 DEF LiveWatchers, Live
  <2> QED
    BY <2>1 DEF WgInv
<1>9. QuietAfterClose' /\ TypeOK'
  BY <1>2 DEF QuietAfterClose, TypeOK, Live
<1> QED
  BY <1>4, <1>5, <1>6, <1>7, <1>8, <1>9

LEMMA MetadataResolvedInv ==
  ASSUME IInv, NEW h \in Hash, MetadataResolved(h)
  PROVE  IInv'
<1> USE DEF IInv, MetadataResolved, engineVars, procVars
<1>1. ClientInv' /\ RecordInv' /\ DistinctInv' /\ WatcherInv' /\ WatcherOwned'
  BY DEF ClientInv, CacheMatchesClient, RecordInv, DistinctInv, WatcherInv, WatcherOwned, Live, Done
<1>2. CoveredInv'
  BY DEF CoveredInv, Covered
<1>3. CloserInv' /\ ClientReleased' /\ WgInv' /\ QuietAfterClose' /\ TypeOK'
  BY DEF CloserInv, ClientReleased, WgInv, QuietAfterClose, TypeOK, LiveWatchers, Live
<1> QED
  BY <1>1, <1>2, <1>3

(* The sampler sees every torrent under the handle its record already has. *)
LEMMA RefreshInv ==
  ASSUME IInv, Refresh
  PROVE  IInv'
<1> DEFINE seen == IF client = "live" THEN {h \in Hash : held[h] # None} ELSE {}
<1>1. /\ rec \in [Hash -> Record] /\ held \in [Hash -> Handle \cup {None}]
      /\ known \in SUBSET Hash
  BY DEF IInv, TypeOK
<1>2. /\ known' = known
      /\ \A h \in seen : h \in known /\ held[h] = rec[h].t
  BY <1>1 DEF Refresh, IInv, ClientInv, CacheMatchesClient
<1>3. /\ rec' \in [Hash -> Record]
      /\ \A h \in Hash : /\ rec'[h].t = rec[h].t /\ rec'[h].Started = rec[h].Started
                         /\ rec'[h].watching = rec[h].watching
                         /\ rec'[h].cancelWatch = rec[h].cancelWatch
                         /\ h \notin known => rec'[h] = rec[h]
  <2>1. \A h \in seen :
          /\ update(rec[h], held[h], held[h] \in info) \in Record
          /\ update(rec[h], held[h], held[h] \in info).t = held[h]
          /\ update(rec[h], held[h], held[h] \in info).Started = rec[h].Started
          /\ update(rec[h], held[h], held[h] \in info).watching = rec[h].watching
          /\ update(rec[h], held[h], held[h] \in info).cancelWatch = rec[h].cancelWatch
    <3> SUFFICES ASSUME NEW h \in seen
                 PROVE  /\ update(rec[h], held[h], held[h] \in info) \in Record
                        /\ update(rec[h], held[h], held[h] \in info).t = held[h]
                        /\ update(rec[h], held[h], held[h] \in info).Started = rec[h].Started
                        /\ update(rec[h], held[h], held[h] \in info).watching = rec[h].watching
                        /\ update(rec[h], held[h], held[h] \in info).cancelWatch = rec[h].cancelWatch
      OBVIOUS
    <3>1. rec[h] \in Record /\ held[h] \in Handle
      BY <1>1
    <3>2. (held[h] \in info) \in BOOLEAN
      OBVIOUS
    <3> QED
      BY <3>1, <3>2, UpdatedRecord
  <2>2. rec' = [h \in Hash |-> IF h \in seen
                 THEN update(rec[h], held[h], held[h] \in info) ELSE rec[h]]
    BY DEF Refresh
  <2> QED
    BY <1>1, <1>2, <2>1, <2>2
<1>4. UNCHANGED <<ctxDone, client, open, config, watcher, wg, sampled, closer, held, info, downloading>>
      /\ sampler = "refresh" /\ sampler' = "signal"
  BY DEF Refresh, clientVars
<1> HIDE DEF seen
<1>5. ClientInv' /\ RecordInv' /\ DistinctInv' /\ WatcherInv'
  BY <1>2, <1>3, <1>4 DEF IInv, ClientInv, CacheMatchesClient, RecordInv, DistinctInv, WatcherInv, Live
<1>6. CoveredInv'
  BY <1>3, <1>4 DEF IInv, CoveredInv, Covered
<1>7. WatcherOwned'
  BY <1>2, <1>3, <1>4 DEF IInv, WatcherInv, WatcherOwned, Live, Done
<1>8. CloserInv' /\ ClientReleased' /\ WgInv' /\ QuietAfterClose'
  BY <1>4 DEF IInv, CloserInv, ClientReleased, WgInv, QuietAfterClose, LiveWatchers, Live
<1>9. TypeOK'
  BY <1>2, <1>3, <1>4 DEF IInv, TypeOK
<1> QED
  BY <1>5, <1>6, <1>7, <1>8, <1>9 DEF IInv

LEMMA ConfigureInv ==
  ASSUME IInv, NEW c \in [AutoStart : BOOLEAN, rest : Rest], Configure(c)
  PROVE  IInv'
<1> USE DEF IInv, Configure, procVars, clientVars
<1>1. c \in Config
  BY DEF Config
<1>2. TypeOK'
  BY <1>1 DEF TypeOK
<1>3. ClientInv'
  BY DEF ClientInv, CacheMatchesClient, TypeOK, RecordInv
<1>4. RecordInv' /\ DistinctInv' /\ WatcherInv' /\ WatcherOwned' /\ CoveredInv'
  BY DEF RecordInv, DistinctInv, WatcherInv, WatcherOwned, Live, Done, CoveredInv, Covered
<1>5. CloserInv' /\ ClientReleased'
  BY DEF CloserInv, ClientReleased
<1>6. WgInv' /\ QuietAfterClose'
  BY DEF WgInv, QuietAfterClose, LiveWatchers, Live
<1> QED
  BY <1>2, <1>3, <1>4, <1>5, <1>6

LEMMA SamplerInv ==
  ASSUME IInv, SamplerTick \/ SamplerExit \/ SamplerSignal \/ TakeSampled
  PROVE  IInv'
<1>1. /\ UNCHANGED <<ctxDone, client, open, config, known, rec, watcher, closer, held, info,
                     downloading>>
      /\ sampler' \in {"select", "refresh", "signal", "exited"} /\ sampled' \in 0..1
      /\ \/ wg' = wg /\ (sampler' = "exited" <=> sampler = "exited")
         \/ wg' = wg - 1 /\ sampler # "exited" /\ sampler' = "exited"
  BY DEF SamplerTick, SamplerExit, SamplerSignal, TakeSampled, engineVars, clientVars, IInv, TypeOK
<1>2. ClientInv' /\ RecordInv' /\ DistinctInv' /\ WatcherInv' /\ WatcherOwned' /\ CoveredInv'
  BY <1>1 DEF IInv, ClientInv, CacheMatchesClient, RecordInv, DistinctInv, WatcherInv, WatcherOwned,
              Live, Done, CoveredInv, Covered
<1>3. CloserInv' /\ ClientReleased' /\ QuietAfterClose'
  BY <1>1 DEF IInv, CloserInv, ClientReleased, QuietAfterClose, Live
<1>4. WgInv' /\ wg' \in Nat
  <2>1. LiveWatchers' = LiveWatchers
    BY <1>1 DEF LiveWatchers, Live
  <2>2. IsFiniteSet(LiveWatchers) /\ Cardinality(LiveWatchers) \in Nat
    BY FS_CardinalityType DEF IInv, WgInv
  <2> QED
    BY <1>1, <2>1, <2>2 DEF IInv, WgInv
<1>5. TypeOK'
  BY <1>1, <1>4 DEF IInv, TypeOK
<1> QED
  BY <1>2, <1>3, <1>4, <1>5 DEF IInv

LEMMA CloseCancelInv ==
  ASSUME IInv, NEW c \in Closer, CloseCancel(c)
  PROVE  IInv'
<1> USE DEF IInv, CloseCancel, clientVars
<1>1. /\ closer \in [Closer -> CloserState] /\ closer[c].pc = "idle"
      /\ closer' \in [Closer -> CloserState]
      /\ \A d \in Closer : d # c => closer'[d] = closer[d]
      /\ closer'[c].pc = "lock" /\ closer'[c].client = closer[c].client
  BY DEF TypeOK, CloserState
<1>2. TypeOK' /\ ClientInv' /\ RecordInv' /\ DistinctInv' /\ CoveredInv'
  BY <1>1 DEF TypeOK, ClientInv, CacheMatchesClient, RecordInv, DistinctInv, CoveredInv, Covered
<1>3. WatcherInv' /\ WatcherOwned'
  BY DEF WatcherInv, WatcherOwned, Live, Done
<1>4. CloserInv' /\ ClientReleased' /\ QuietAfterClose'
  BY <1>1 DEF CloserInv, ClientReleased, QuietAfterClose, Live
<1>5. WgInv'
  BY DEF WgInv, LiveWatchers, Live
<1> QED
  BY <1>2, <1>3, <1>4, <1>5

LEMMA CloseTakeInv ==
  ASSUME IInv, NEW c \in Closer, CloseTake(c)
  PROVE  IInv'
<1> USE DEF IInv, CloseTake, clientVars
<1>1. /\ closer \in [Closer -> CloserState] /\ closer[c].pc = "lock" /\ ctxDone
      /\ closer' \in [Closer -> CloserState]
      /\ \A d \in Closer : d # c => closer'[d] = closer[d]
      /\ closer'[c].pc = "wait" /\ closer'[c].client = client
  BY DEF TypeOK, CloserState, CloserInv
<1>2. /\ rec' \in [Hash -> Record] /\ \A h \in Hash : rec'[h] = Blank
  BY BlankRecord
<1>3. TypeOK'
  BY <1>1, <1>2 DEF TypeOK
<1>4. ClientInv' /\ RecordInv' /\ DistinctInv' /\ CoveredInv'
  BY <1>1, <1>2, BlankRecord DEF ClientInv, CacheMatchesClient, RecordInv, DistinctInv, CoveredInv
<1>5. WatcherInv' /\ WatcherOwned'
  BY <1>1 DEF WatcherInv, WatcherOwned, Live, Done
<1>6. CloserInv' /\ ClientReleased' /\ QuietAfterClose'
  BY <1>1 DEF CloserInv, ClientReleased, QuietAfterClose, Live
<1>7. WgInv'
  BY DEF WgInv, LiveWatchers, Live
<1> QED
  BY <1>3, <1>4, <1>5, <1>6, <1>7

LEMMA CloseWaitedInv ==
  ASSUME IInv, NEW c \in Closer, CloseWaited(c)
  PROVE  IInv'
<1> USE DEF IInv, CloseWaited, engineVars, clientVars
<1>1. /\ closer \in [Closer -> CloserState] /\ closer[c].pc = "wait" /\ wg = 0
      /\ closer' \in [Closer -> CloserState]
      /\ \A d \in Closer : d # c => closer'[d] = closer[d]
      /\ closer'[c].pc = IF closer[c].client = "live" THEN "release" ELSE "done"
      /\ closer'[c].client = closer[c].client
  BY DEF TypeOK, CloserState
<1>2. TypeOK' /\ ClientInv' /\ RecordInv' /\ DistinctInv' /\ CoveredInv'
  BY <1>1 DEF TypeOK, ClientInv, CacheMatchesClient, RecordInv, DistinctInv, CoveredInv, Covered
<1>3. WatcherInv' /\ WatcherOwned' /\ WgInv'
  BY DEF WatcherInv, WatcherOwned, Live, Done, WgInv, LiveWatchers
<1>4. CloserInv' /\ ClientReleased'
  BY <1>1 DEF CloserInv, ClientReleased
<1>5. QuietAfterClose'
  <2>1. Cardinality(LiveWatchers) = 0 /\ IsFiniteSet(LiveWatchers) /\ sampler = "exited"
    BY <1>1, FS_CardinalityType DEF WgInv
  <2>2. LiveWatchers = {}
    BY <2>1, FS_EmptySet
  <2> QED
    BY <2>1, <2>2 DEF QuietAfterClose, LiveWatchers, Live
<1> QED
  BY <1>2, <1>3, <1>4, <1>5

LEMMA CloseReleaseInv ==
  ASSUME IInv, NEW c \in Closer, CloseRelease(c)
  PROVE  IInv'
<1> USE DEF IInv, CloseRelease
<1>1. /\ closer \in [Closer -> CloserState] /\ closer[c].pc = "release"
      /\ ctxDone /\ client = "nil"
      /\ closer' \in [Closer -> CloserState]
      /\ \A d \in Closer : d # c => closer'[d] = closer[d]
      /\ closer'[c].pc = "done" /\ closer'[c].client = "nil"
  BY DEF TypeOK, CloserState, CloserInv
<1>2. TypeOK' /\ ClientInv' /\ RecordInv' /\ DistinctInv' /\ CoveredInv'
  BY <1>1 DEF TypeOK, ClientInv, CacheMatchesClient, RecordInv, DistinctInv, CoveredInv
<1>3. WatcherInv' /\ WatcherOwned' /\ WgInv'
  BY DEF WatcherInv, WatcherOwned, Live, Done, WgInv, LiveWatchers
<1>4. CloserInv' /\ ClientReleased' /\ QuietAfterClose'
  BY <1>1 DEF CloserInv, ClientReleased, QuietAfterClose, Live
<1> QED
  BY <1>2, <1>3, <1>4

LEMMA StutterInv == IInv /\ UNCHANGED vars => IInv'
<1> SUFFICES ASSUME IInv, UNCHANGED vars PROVE IInv'
  OBVIOUS
<1> USE DEF IInv, vars, engineVars, procVars, clientVars
<1>1. TypeOK' /\ ClientInv' /\ RecordInv' /\ DistinctInv' /\ CoveredInv'
  BY DEF TypeOK, ClientInv, CacheMatchesClient, RecordInv, DistinctInv, CoveredInv, Covered
<1>2. WatcherInv' /\ WatcherOwned' /\ WgInv'
  BY DEF WatcherInv, WatcherOwned, Live, Done, WgInv, LiveWatchers
<1>3. CloserInv' /\ ClientReleased' /\ QuietAfterClose'
  BY DEF CloserInv, ClientReleased, QuietAfterClose, Live
<1> QED
  BY <1>1, <1>2, <1>3

LEMMA StepInv == IInv /\ [Next]_vars => IInv'
BY AddSpecInv, StartTorrentInv, StopTorrentInv, DeleteTorrentInv, ConfigureInv,
   WatcherReleasedInv, WatcherWokenInv, InfoArrivedInv, MetadataResolvedInv, RefreshInv, SamplerInv,
   CloseCancelInv, CloseTakeInv, CloseWaitedInv, CloseReleaseInv, StutterInv DEF Next

(* The inductive invariant holds in every reachable state. *)
THEOREM EngineInvariant == Spec => []IInv
<1>1. Init => IInv
  BY InitInv
<1>2. IInv /\ [Next]_vars => IInv'
  BY StepInv
<1> QED
  BY <1>1, <1>2, PTL DEF Spec

-----------------------------------------------------------------------------
(* Every variable of the engine has its type; in particular wg never goes negative *)
(* (wg.Add and wg.Done are balanced).                                              *)
THEOREM EngineTypes == Spec => []TypeOK
<1>1. IInv => TypeOK
  BY DEF IInv
<1> QED
  BY <1>1, EngineInvariant, PTL

(* Cache and client agree, so sampling never resurrects a torrent (refresh). *)
THEOREM CacheAgrees == Spec => []CacheMatchesClient
<1>1. IInv => CacheMatchesClient
  BY DEF IInv, ClientInv
<1> QED
  BY <1>1, EngineInvariant, PTL

(* A torrent flagged as running downloads, or its own watcher is still there to start *)
(* the download (startLocked, watchInfoLocked, infoArrived).                          *)
THEOREM NoPhantom == Spec => []StartedNotPhantom
<1>1. IInv => StartedNotPhantom
  <2> SUFFICES ASSUME IInv, ~ctxDone, NEW h \in known, rec[h].Started, ~Downloading(h)
               PROVE  \E w \in Watcher : /\ watcher[w].pc \in {"select", "arrived"}
                                        /\ watcher[w].ih = h /\ watcher[w].tt = rec[h].t
                                        /\ ~watcher[w].cancelled
    BY DEF StartedNotPhantom
  <2>1. /\ h \in Hash /\ rec \in [Hash -> Record] /\ watcher \in [Watcher -> WatcherState]
    BY DEF IInv, TypeOK
  <2>2. rec[h].t # None /\ Covered(h)
    BY <2>1 DEF IInv, RecordInv, CoveredInv
  <2>3. rec[h].cancelWatch \in Watcher \cup {None}
    BY <2>1, RecordFields
  <2>4. \A w \in Watcher : watcher[w].pc \in {"free", "select", "arrived"}
    BY <2>1 DEF WatcherState
  <2> QED
    BY <2>2, <2>3, <2>4 DEF Covered, Downloading
<1> QED
  BY <1>1, EngineInvariant, PTL

(* One watcher per torrent and none left behind (watchInfoLocked, stopWatch). *)
THEOREM NoOrphanWatcher == Spec => []WatcherOwned
<1>1. IInv => WatcherOwned
  BY DEF IInv
<1> QED
  BY <1>1, EngineInvariant, PTL

(* What Close promises: a closed engine stays closed and empty, its goroutines are gone *)
(* when Close returns, and no client is left behind.                                    *)
THEOREM CloseIsFinal == Spec => [](ClosedStaysClosed /\ QuietAfterClose /\ ClientReleased)
<1>1. IInv => ClosedStaysClosed /\ QuietAfterClose /\ ClientReleased
  BY DEF IInv, CloserInv, ClientInv, ClosedStaysClosed
<1> QED
  BY <1>1, EngineInvariant, PTL

(* No goroutine of the engine is left when Close releases the client or has returned,  *)
(* so nothing touches a released client (Close, sampleLoop, watchInfoLocked).           *)
THEOREM NothingRunsAfterClose == Spec => []QuietAfterClose
<1>1. IInv => QuietAfterClose
  BY DEF IInv
<1> QED
  BY <1>1, EngineInvariant, PTL

(* A stopped torrent gets a handle again only through the user (infoArrived, refresh). *)
THEOREM StopIsRespected == Spec => StoppedStaysStopped
<1> DEFINE A == \A h \in known : rec[h].t = None /\ rec'[h].t # None =>
                  StartTorrent(h) \/ \E s \in Spec_ : addSpec(h, s)
<1>1. IInv /\ [Next]_vars => [A]_vars
  <2> SUFFICES ASSUME IInv, Next, NEW h \in known, rec[h].t = None, rec'[h].t # None
               PROVE  StartTorrent(h) \/ \E s \in Spec_ : addSpec(h, s)
    OBVIOUS
  <2> USE DEF engineVars, procVars, clientVars
  <2>1. rec \in [Hash -> Record] /\ h \in Hash /\ held[h] = None
    BY DEF IInv, TypeOK, ClientInv, CacheMatchesClient
  <2>2. ASSUME NEW g \in Hash, NEW s \in Spec_, addSpec(g, s) PROVE g = h
    <3>1. PICK tt \in Handle : watchInfoLocked(g, [update(rec[g], tt, tt \in info') EXCEPT !.spec = s],
                                               tt, watcher, wg)
      BY <2>2 DEF addSpec
    <3> QED
      BY <2>1, <3>1 DEF watchInfoLocked
  <2>3. ASSUME NEW g \in Hash, StartTorrent(g) PROVE g = h
    BY <2>1, <2>3 DEF StartTorrent, startLocked, watchInfoLocked
  <2>4. ASSUME NEW g \in Hash, StopTorrent(g) PROVE FALSE
    <3>1. g # h => rec'[h] = rec[h]
      BY <2>1, <2>4 DEF StopTorrent
    <3>2. rec[g] \in Record /\ rec'[g] = [Unwatched(rec[g]) EXCEPT !.t = None, !.Started = FALSE]
      BY <2>1, <2>4 DEF StopTorrent
    <3>3. rec'[g].t = None
      BY <3>2 DEF Record, Unwatched
    <3> QED
      BY <3>1, <3>3
  <2>5. ASSUME NEW g \in Hash, DeleteTorrent(g) PROVE FALSE
    BY <2>1, <2>5, BlankRecord DEF DeleteTorrent
  <2>6. ASSUME NEW w \in Watcher, infoArrived(w) PROVE FALSE
    <3>1. watcher[w].ih \in Hash /\ watcher[w].tt # None
      BY <2>6, EngineAssumption DEF IInv, WatcherInv, infoArrived, isCurrent, Live
    <3>2. rec' = rec \/ (rec[watcher[w].ih].t # None
                          /\ rec' = [rec EXCEPT ![watcher[w].ih].Started = TRUE])
      BY <2>6, <3>1 DEF infoArrived, isCurrent, startLocked
    <3> QED
      BY <2>1, <3>1, <3>2
  <2>7. Refresh => FALSE
    BY <2>1 DEF Refresh
  <2>8. ASSUME NEW c \in Closer, CloseTake(c) PROVE FALSE
    BY <2>1, <2>8, BlankRecord DEF CloseTake
  <2>9. rec' = rec => FALSE
    BY <2>1
  <2>10. \/ \E c \in [AutoStart : BOOLEAN, rest : Rest] : Configure(c)
         \/ \E w \in Watcher : WatcherReleased(w) \/ WatcherWoken(w)
         \/ \E g \in Hash : MetadataResolved(g)
         \/ SamplerTick \/ SamplerExit \/ SamplerSignal \/ TakeSampled
         \/ \E c \in Closer : CloseCancel(c) \/ CloseWaited(c) \/ CloseRelease(c)
         => FALSE
    BY <2>9 DEF Configure, WatcherReleased, WatcherWoken, MetadataResolved, SamplerTick, SamplerExit,
                SamplerSignal, TakeSampled, CloseCancel, CloseWaited, CloseRelease
  <2> QED
    BY <2>2, <2>3, <2>4, <2>5, <2>6, <2>7, <2>8, <2>10 DEF Next
<1> QED
  BY <1>1, EngineInvariant, PTL DEF Spec, StoppedStaysStopped

(* wg.Add is never called while a Close waits: what the comments on Close and *)
(* watchInfoLocked say keeps the WaitGroup from being misused.                *)
WaitGroupUse ==
  [][(\E c \in Closer : closer[c].pc = "wait") => wg' <= wg]_vars

THEOREM WaitGroupNotMisused == Spec => WaitGroupUse
<1>1. IInv /\ [Next]_vars => [(\E c \in Closer : closer[c].pc = "wait") => wg' <= wg]_vars
  <2> SUFFICES ASSUME IInv, Next, NEW c \in Closer, closer[c].pc = "wait" PROVE wg' <= wg
    OBVIOUS
  <2> USE DEF engineVars, procVars, clientVars
  <2>1. client = "nil" /\ known = {} /\ wg \in Nat
    BY DEF IInv, CloserInv, ClientInv, TypeOK
  <2>2. ASSUME NEW h \in Hash, NEW s \in Spec_, addSpec(h, s) PROVE FALSE
    BY <2>1, <2>2 DEF addSpec
  <2>3. ASSUME NEW h \in Hash, StartTorrent(h) PROVE FALSE
    BY <2>1, <2>3 DEF StartTorrent
  <2>4. ASSUME NEW w \in Watcher, infoArrived(w) PROVE wg' = wg - 1
    BY <2>1, <2>4 DEF infoArrived, isCurrent
  <2>5. wg' = wg \/ wg' = wg - 1 => wg' <= wg
    BY <2>1
  <2>6. \/ \E d \in [AutoStart : BOOLEAN, rest : Rest] : Configure(d)
        \/ \E h \in Hash : StopTorrent(h) \/ DeleteTorrent(h) \/ MetadataResolved(h)
        \/ \E w \in Watcher : WatcherReleased(w) \/ WatcherWoken(w)
        \/ SamplerTick \/ SamplerExit \/ Refresh \/ SamplerSignal \/ TakeSampled
        \/ \E d \in Closer : CloseCancel(d) \/ CloseTake(d) \/ CloseWaited(d) \/ CloseRelease(d)
        => wg' = wg \/ wg' = wg - 1
    BY DEF Configure, StopTorrent, DeleteTorrent, MetadataResolved, WatcherReleased, WatcherWoken,
           SamplerTick, SamplerExit, Refresh, SamplerSignal, TakeSampled,
           CloseCancel, CloseTake, CloseWaited, CloseRelease
  <2> QED
    BY <2>2, <2>3, <2>4, <2>5, <2>6 DEF Next
<1> QED
  BY <1>1, EngineInvariant, PTL DEF Spec, WaitGroupUse

-----------------------------------------------------------------------------
(* The engine implements TorrentLifecycle.  Beyond IInv this takes that nothing     *)
(* downloads before its metadata is known: DownloadAll waits for GotInfo.           *)
DownloadsResolved == downloading \subseteq info

MapInv == IInv /\ DownloadsResolved

(* One torrent moves, the others stay where they are. *)
LEMMA OneMoves ==
  ASSUME NEW h \in Hash, NEW from, NEW to, ~shut, UNCHANGED <<ctxDone, client>>,
         \A g \in Hash : g # h => phaseOf(g)' = phaseOf(g),
         phaseOf(h) \in from, phaseOf(h)' \in to
  PROVE  Lifecycle!Move(h, from, to)
<1>1. shut' = shut
  BY DEF shut
<1>2. phases' = [phases EXCEPT ![h] = phaseOf(h)']
  BY DEF phases
<1>3. phases[h] \in from
  BY DEF phases
<1> QED
  BY <1>1, <1>2, <1>3 DEF Lifecycle!Move

LEMMA NoneMoves ==
  ASSUME shut' = shut, \A g \in Hash : phaseOf(g)' = phaseOf(g)
  PROVE  UNCHANGED Lifecycle!vars
  BY DEF phases, Lifecycle!vars

(* A torrent whose record is not touched keeps its phase while another gets handle tt. *)
LEMMA OthersKeep ==
  ASSUME MapInv, client = "live", NEW h \in Hash, NEW s, NEW tt \in Handle,
         AddTorrentSpec(h, s, tt),
         known' = known \cup {h},
         downloading \ {tt} \subseteq downloading', downloading' \subseteq downloading \cup {tt},
         \A g \in Hash : g # h => rec'[g] = rec[g]
  PROVE  /\ \A g \in Hash : g # h => phaseOf(g)' = phaseOf(g)
         /\ rec[h].t # None /\ h \in known => rec[h].t = tt /\ held[h] = tt
<1>1. \A g \in Hash : held[g] = IF g \in known THEN rec[g].t ELSE None
  BY DEF MapInv, IInv, ClientInv, CacheMatchesClient
<1>2. held[h] # tt => held[h] = None /\ Fresh(tt)
  BY AddFacts DEF MapInv, IInv
<1>3. tt # None
  BY EngineAssumption
<1>4. \A g \in Hash : g # h => rec[g].t # tt
  BY <1>1, <1>2, <1>3 DEF Fresh, MapInv, IInv, DistinctInv
<1>5. info \ {tt} \subseteq info' /\ info' \subseteq info \cup {tt}
  BY DEF AddTorrentSpec
<1>6. ASSUME NEW g \in Hash, g # h PROVE phaseOf(g)' = phaseOf(g)
  BY <1>4, <1>5, <1>6 DEF phaseOf
<1>7. rec[h].t # None /\ h \in known => rec[h].t = tt /\ held[h] = tt
  BY <1>1, <1>2
<1> QED
  BY <1>6, <1>7

LEMMA AddMaps ==
  ASSUME MapInv, NEW h \in Hash, NEW s \in Spec_, addSpec(h, s)
  PROVE  /\ DownloadsResolved'
         /\ Lifecycle!Next \/ UNCHANGED Lifecycle!vars
<1>1. PICK tt \in Handle :
        /\ AddTorrentSpec(h, s, tt)
        /\ downloading' = DownloadsAfterAdd(h, tt)
        /\ known' = known \cup {h}
        /\ watchInfoLocked(h, [update(rec[h], tt, tt \in info') EXCEPT !.spec = s],
                           tt, watcher, wg)
  BY DEF addSpec
<1> DEFINE r == [update(rec[h], tt, tt \in info') EXCEPT !.spec = s]
<1>2. /\ rec \in [Hash -> Record] /\ watcher \in [Watcher -> WatcherState] /\ wg \in Int
      /\ client = "live" /\ UNCHANGED <<ctxDone, client>> /\ ~shut /\ shut' = shut
  BY DEF addSpec, MapInv, IInv, TypeOK, shut
<1>3. r \in Record /\ r.t = tt /\ r.Started = rec[h].Started
  <2>1. /\ rec[h] \in Record /\ (tt \in info') \in BOOLEAN
    BY <1>2
  <2>2. update(rec[h], tt, tt \in info') \in Record
    BY <2>1, UpdatedRecord
  <2>3. /\ update(rec[h], tt, tt \in info').t = tt
        /\ update(rec[h], tt, tt \in info').Started = rec[h].Started
    BY <2>1, UpdatedRecord
  <2> QED
    BY <2>2, <2>3 DEF Record
<1> HIDE DEF r
<1>4. Stored(h, r, tt, watcher, wg)
  BY <1>1, <1>2, <1>3, ParkFacts DEF r
<1>5. /\ \A g \in Hash : g # h => rec'[g] = rec[g]
      /\ rec'[h].t = tt /\ rec'[h].Started = rec[h].Started
  BY <1>3, <1>4 DEF Stored
<1>6. /\ downloading \ {tt} \subseteq downloading' /\ downloading' \subseteq downloading \cup {tt}
      /\ tt \in downloading' => held[h] = tt /\ tt \in downloading
  BY <1>1 DEF DownloadsAfterAdd
<1>7. /\ \A g \in Hash : g # h => phaseOf(g)' = phaseOf(g)
      /\ rec[h].t # None /\ h \in known => rec[h].t = tt /\ held[h] = tt
  BY <1>1, <1>2, <1>5, <1>6, OthersKeep
<1>8. /\ info \ {tt} \subseteq info' /\ (held[h] = tt => info \subseteq info')
      /\ tt # None
  BY <1>1, EngineAssumption DEF AddTorrentSpec
<1>9. DownloadsResolved'
  BY <1>6, <1>8 DEF MapInv, DownloadsResolved
<1>10. CASE phaseOf(h) \in {"absent", "stopped"}
  <2>1. ~rec[h].Started
    BY <1>10, BlankRecord DEF phaseOf, MapInv, IInv, RecordInv
  <2>2. phaseOf(h)' \in {"added"}
    BY <1>1, <1>5, <1>8, <2>1 DEF phaseOf
  <2>3. Lifecycle!Add(h)
    BY <1>2, <1>7, <1>10, <2>2, OneMoves DEF Lifecycle!Add
  <2> QED
    BY <1>9, <2>3 DEF Lifecycle!Next
<1>11. CASE phaseOf(h) \notin {"absent", "stopped"}
  <2>1. h \in known /\ rec[h].t = tt /\ held[h] = tt
    BY <1>7, <1>11 DEF phaseOf, MapInv, IInv, RecordInv
  <2>2. downloading' = downloading /\ info \subseteq info'
    BY <1>1, <1>8, <2>1 DEF DownloadsAfterAdd
  <2>3. CASE phaseOf(h) = "waiting" /\ phaseOf(h)' # "waiting"
    <3>1. phaseOf(h)' \in {"ready"}
      BY <1>1, <1>5, <2>1, <2>2, <2>3 DEF phaseOf, MapInv, DownloadsResolved
    <3>2. Lifecycle!Resolve(h)
      BY <1>2, <1>7, <2>3, <3>1, OneMoves DEF Lifecycle!Resolve
    <3> QED
      BY <1>9, <3>2 DEF Lifecycle!Next
  <2>4. CASE ~(phaseOf(h) = "waiting" /\ phaseOf(h)' # "waiting")
    <3>1. phaseOf(h)' = phaseOf(h)
      BY <1>1, <1>5, <2>1, <2>2, <2>4 DEF phaseOf
    <3> QED
      BY <1>2, <1>7, <1>9, <3>1, NoneMoves
  <2> QED
    BY <2>3, <2>4
<1> QED
  BY <1>10, <1>11

(* A torrent that has its handle already is flagged as running. *)
LEMMA FlagMaps ==
  ASSUME MapInv, NEW h \in Hash, h \in known, rec[h].t # None,
         NEW x, downloading' = downloading \cup (x \cap {rec[h].t}),
         x \cap {rec[h].t} \subseteq info, rec[h].t \in info => rec[h].t \in x,
         rec' = [rec EXCEPT ![h].Started = TRUE],
         UNCHANGED <<ctxDone, client, known, info>>
  PROVE  /\ DownloadsResolved'
         /\ \A g \in Hash : g # h => phaseOf(g)' = phaseOf(g)
         /\ phaseOf(h)' = IF rec[h].t \in info THEN "running" ELSE "waiting"
         /\ ~shut /\ shut' = shut
<1>1. /\ rec \in [Hash -> Record] /\ \A g \in Hash : g # h => rec[g].t # rec[h].t
      /\ client # "nil"
  BY DEF MapInv, IInv, TypeOK, DistinctInv, ClientInv
<1>2. /\ rec'[h].t = rec[h].t /\ rec'[h].Started = TRUE
      /\ \A g \in Hash : g # h => rec'[g] = rec[g]
  <2>1. rec[h] \in Record
    BY <1>1
  <2>2. [rec[h] EXCEPT !.Started = TRUE].t = rec[h].t
        /\ [rec[h] EXCEPT !.Started = TRUE].Started = TRUE
    BY <2>1 DEF Record
  <2> QED
    BY <1>1, <2>2
<1>3. DownloadsResolved'
  BY DEF MapInv, DownloadsResolved
<1>4. ASSUME NEW g \in Hash, g # h PROVE phaseOf(g)' = phaseOf(g)
  BY <1>1, <1>2, <1>4 DEF phaseOf
<1>5. phaseOf(h)' = IF rec[h].t \in info THEN "running" ELSE "waiting"
  BY <1>2 DEF phaseOf, MapInv, DownloadsResolved
<1> QED
  BY <1>1, <1>3, <1>4, <1>5 DEF shut

LEMMA StartMaps ==
  ASSUME MapInv, NEW h \in Hash, StartTorrent(h)
  PROVE  /\ DownloadsResolved'
         /\ Lifecycle!Next \/ UNCHANGED Lifecycle!vars
<1>1. /\ rec \in [Hash -> Record] /\ watcher \in [Watcher -> WatcherState] /\ wg \in Int
      /\ h \in known /\ ~rec[h].Started /\ rec[h] \in Record
      /\ UNCHANGED <<ctxDone, client, known>> /\ shut' = shut
  BY DEF StartTorrent, MapInv, IInv, TypeOK, shut
<1>2. phaseOf(h) \in {"added", "stopped"}
  BY <1>1 DEF phaseOf
<1>3. SUFFICES /\ DownloadsResolved' /\ ~shut
               /\ \A g \in Hash : g # h => phaseOf(g)' = phaseOf(g)
               /\ phaseOf(h)' \in {"waiting", "running"}
  <2>1. Lifecycle!Start(h)
    BY <1>1, <1>2, <1>3, OneMoves DEF Lifecycle!Start
  <2> QED
    BY <1>3, <2>1 DEF Lifecycle!Next
<1>4. CASE rec[h].t # None
  <2>1. /\ downloading' = downloading \cup (info \cap {rec[h].t})
        /\ rec' = [rec EXCEPT ![h].Started = TRUE]
        /\ info' = info
    BY <1>4 DEF StartTorrent, startLocked
  <2> QED
    BY <1>1, <1>4, <2>1, FlagMaps
<1>5. CASE rec[h].t = None
  <2>1. client = "live"
    BY <1>5 DEF StartTorrent, startLocked
  <2>2. PICK tt \in Handle :
          /\ AddTorrentSpec(h, rec[h].spec, tt)
          /\ downloading' = DownloadsAfterAdd(h, tt) \cup (info' \cap {tt})
          /\ watchInfoLocked(h, [rec[h] EXCEPT !.t = tt, !.Started = TRUE], tt, watcher, wg)
    BY <1>5 DEF StartTorrent, startLocked
  <2> DEFINE r == [rec[h] EXCEPT !.t = tt, !.Started = TRUE]
  <2>3. r \in Record /\ r.t = tt /\ r.Started = TRUE
    BY <1>1 DEF Record
  <2> HIDE DEF r
  <2>4. Stored(h, r, tt, watcher, wg)
    BY <1>1, <2>2, <2>3, ParkFacts DEF r
  <2>5. /\ \A g \in Hash : g # h => rec'[g] = rec[g]
        /\ rec'[h].t = tt /\ rec'[h].Started = TRUE
    BY <2>3, <2>4 DEF Stored
  <2>6. /\ downloading \ {tt} \subseteq downloading' /\ downloading' \subseteq downloading \cup {tt}
        /\ held[h] # tt => (tt \in downloading' <=> tt \in info')
        /\ held[h] = tt => downloading' = downloading \cup (info' \cap {tt})
    BY <2>2 DEF DownloadsAfterAdd
  <2>7. /\ info \ {tt} \subseteq info' /\ (held[h] = tt => info \subseteq info')
        /\ tt # None
    BY <2>2, EngineAssumption DEF AddTorrentSpec
  <2>8. DownloadsResolved'
    BY <2>6, <2>7 DEF MapInv, DownloadsResolved
  <2>9. \A g \in Hash : g # h => phaseOf(g)' = phaseOf(g)
    BY <1>1, <2>1, <2>2, <2>5, <2>6, OthersKeep
  <2>10. tt \in info' => tt \in downloading'
    BY <2>2
  <2>11. phaseOf(h)' \in {"waiting", "running"}
    BY <1>1, <2>5, <2>10 DEF phaseOf
  <2> QED
    BY <2>1, <2>8, <2>9, <2>11 DEF shut
<1> QED
  BY <1>4, <1>5

LEMMA InfoMaps ==
  ASSUME MapInv, NEW w \in Watcher, infoArrived(w)
  PROVE  /\ DownloadsResolved'
         /\ Lifecycle!Next \/ UNCHANGED Lifecycle!vars
<1>0. PICK ih, tt : ih = watcher[w].ih /\ tt = watcher[w].tt
  OBVIOUS
<1> DEFINE current == isCurrent(ih, tt)
<1>1. /\ rec \in [Hash -> Record] /\ known \in SUBSET Hash
      /\ tt \in info /\ tt \in Handle /\ tt # None
      /\ UNCHANGED <<ctxDone, client, known, info>> /\ shut' = shut
  <2>1. watcher[w].pc = "arrived"
    BY DEF infoArrived
  <2>2. tt \in info /\ tt \in Handle
    BY <1>0, <2>1 DEF MapInv, IInv, WatcherInv, Live
  <2>3. UNCHANGED <<ctxDone, client, known>>
    BY DEF infoArrived
  <2>4. info' = info
    <3>1. current => ih \in known /\ rec[ih].t = tt
      BY DEF isCurrent
    <3> QED
      BY <1>0, <2>2, <3>1, EngineAssumption DEF infoArrived, startLocked, clientVars
  <2> QED
    BY <2>2, <2>3, <2>4, EngineAssumption DEF MapInv, IInv, TypeOK, shut
<1>2. CASE current /\ rec[ih].Started
  <2>1. /\ ih \in Hash /\ ih \in known /\ rec[ih].t = tt /\ client # "nil"
        /\ downloading' = downloading \cup {tt} /\ rec' = rec
        /\ \A g \in Hash : g # ih => rec[g].t # tt
    BY <1>0, <1>1, <1>2 DEF infoArrived, isCurrent, MapInv, IInv, ClientInv, DistinctInv
  <2>2. DownloadsResolved'
    BY <1>1, <2>1 DEF MapInv, DownloadsResolved
  <2>3. ~shut
    BY <2>1 DEF shut
  <2>4. \A g \in Hash : g # ih => phaseOf(g)' = phaseOf(g)
    BY <1>1, <2>1 DEF phaseOf
  <2>5. phaseOf(ih) \in {"ready", "running"} /\ phaseOf(ih)' = "running"
    BY <1>1, <1>2, <2>1 DEF phaseOf
  <2>6. CASE phaseOf(ih) = "ready"
    <3>1. Lifecycle!Resume(ih)
      BY <1>1, <2>1, <2>3, <2>4, <2>5, <2>6, OneMoves DEF Lifecycle!Resume
    <3> QED
      BY <2>1, <2>2, <3>1 DEF Lifecycle!Next
  <2>7. CASE phaseOf(ih) = "running"
    BY <1>1, <2>2, <2>4, <2>5, <2>7, NoneMoves
  <2> QED
    BY <2>5, <2>6, <2>7
<1>3. CASE current /\ ~rec[ih].Started /\ config.AutoStart
  <2>1. ih \in Hash /\ ih \in known /\ rec[ih].t = tt
    BY <1>1, <1>3 DEF isCurrent
  <2>2. /\ downloading' = downloading \cup (info \cap {tt})
        /\ rec' = [rec EXCEPT ![ih].Started = TRUE]
    BY <1>0, <1>1, <1>3, <2>1 DEF infoArrived, startLocked
  <2>3. /\ DownloadsResolved' /\ ~shut
        /\ \A g \in Hash : g # ih => phaseOf(g)' = phaseOf(g)
        /\ phaseOf(ih)' = "running"
    BY <1>1, <2>1, <2>2, FlagMaps
  <2>4. phaseOf(ih) = "added"
    BY <1>1, <1>3, <2>1 DEF phaseOf
  <2>5. Lifecycle!AutoStart(ih)
    BY <1>1, <2>1, <2>3, <2>4, OneMoves DEF Lifecycle!AutoStart
  <2> QED
    BY <2>1, <2>3, <2>5 DEF Lifecycle!Next
<1>4. CASE ~current \/ (~rec[ih].Started /\ ~config.AutoStart)
  <2>1. rec' = rec /\ downloading' = downloading
    BY <1>0, <1>4 DEF infoArrived, clientVars
  <2>2. \A g \in Hash : phaseOf(g)' = phaseOf(g)
    BY <1>1, <2>1 DEF phaseOf
  <2> QED
    BY <1>1, <2>1, <2>2, NoneMoves DEF MapInv, DownloadsResolved
<1> QED
  BY <1>2, <1>3, <1>4

LEMMA StopMaps ==
  ASSUME MapInv, NEW h \in Hash, StopTorrent(h) \/ DeleteTorrent(h)
  PROVE  /\ DownloadsResolved'
         /\ Lifecycle!Next \/ UNCHANGED Lifecycle!vars
<1>1. /\ rec \in [Hash -> Record] /\ h \in known /\ client # "nil" /\ ~shut
      /\ UNCHANGED <<ctxDone, client, info, downloading>>
  BY DEF StopTorrent, DeleteTorrent, MapInv, IInv, TypeOK, ClientInv, shut
<1>2. DownloadsResolved'
  BY <1>1 DEF MapInv, DownloadsResolved
<1>3. CASE StopTorrent(h)
  <2> DEFINE q == [Unwatched(rec[h]) EXCEPT !.t = None, !.Started = FALSE]
  <2>1. q.t = None /\ q.Started = FALSE
    <3>1. rec[h] \in Record
      BY <1>1
    <3> QED
      BY <3>1 DEF Record, Unwatched
  <2>2. rec' = [rec EXCEPT ![h] = q] /\ known' = known
    BY <1>3 DEF StopTorrent
  <2> HIDE DEF q
  <2>3. rec'[h] = q /\ \A g \in Hash : g # h => rec'[g] = rec[g]
    BY <1>1, <2>2
  <2>4. \A g \in Hash : g # h => phaseOf(g)' = phaseOf(g)
    BY <1>1, <2>2, <2>3 DEF phaseOf
  <2>5. phaseOf(h) \in {"waiting", "ready", "running"} /\ phaseOf(h)' \in {"stopped"}
    BY <1>1, <1>3, <2>1, <2>2, <2>3 DEF phaseOf, StopTorrent
  <2>6. Lifecycle!Stop(h)
    BY <1>1, <2>4, <2>5, OneMoves DEF Lifecycle!Stop
  <2> QED
    BY <1>2, <2>6 DEF Lifecycle!Next
<1>4. CASE DeleteTorrent(h)
  <2>1. /\ known' = known \ {h}
        /\ \A g \in Hash : g # h => rec'[g] = rec[g]
    BY <1>1, <1>4 DEF DeleteTorrent
  <2>2. \A g \in Hash : g # h => phaseOf(g)' = phaseOf(g)
    BY <1>1, <2>1 DEF phaseOf
  <2>3. phaseOf(h) \in Lifecycle!Phase \ {"absent"} /\ phaseOf(h)' \in {"absent"}
    BY <1>1, <2>1 DEF phaseOf, Lifecycle!Phase
  <2>4. Lifecycle!Delete(h)
    BY <1>1, <2>2, <2>3, OneMoves DEF Lifecycle!Delete
  <2> QED
    BY <1>2, <2>4 DEF Lifecycle!Next
<1> QED
  BY <1>3, <1>4

LEMMA ResolvedMaps ==
  ASSUME MapInv, NEW h \in Hash, MetadataResolved(h)
  PROVE  /\ DownloadsResolved'
         /\ Lifecycle!Next \/ UNCHANGED Lifecycle!vars
<1>1. /\ held[h] # None /\ held[h] \notin info
      /\ info' = info \cup {held[h]}
      /\ UNCHANGED <<ctxDone, client, known, rec, downloading>> /\ shut' = shut
  BY DEF MetadataResolved, engineVars, shut
<1>2. DownloadsResolved'
  BY <1>1 DEF MapInv, DownloadsResolved
<1>3. CASE client = "nil"
  <2>1. known = {}
    BY <1>3 DEF MapInv, IInv, ClientInv
  <2>2. \A g \in Hash : phaseOf(g)' = phaseOf(g)
    BY <1>1, <2>1 DEF phaseOf
  <2> QED
    BY <1>1, <1>2, <2>2, NoneMoves
<1>4. CASE client # "nil"
  <2>1. h \in known /\ rec[h].t = held[h] /\ ~shut
    BY <1>1, <1>4 DEF MapInv, IInv, TypeOK, ClientInv, CacheMatchesClient, shut
  <2>2. \A g \in Hash : g # h => rec[g].t # held[h]
    BY <1>1, <2>1 DEF MapInv, IInv, DistinctInv
  <2>3. \A g \in Hash : g # h => phaseOf(g)' = phaseOf(g)
    BY <1>1, <2>2 DEF phaseOf
  <2>4. held[h] \notin downloading
    BY <1>1 DEF MapInv, DownloadsResolved
  <2>5. CASE rec[h].Started
    <3>1. phaseOf(h) \in {"waiting"} /\ phaseOf(h)' \in {"ready"}
      BY <1>1, <2>1, <2>4, <2>5 DEF phaseOf
    <3>2. Lifecycle!Resolve(h)
      BY <1>1, <2>1, <2>3, <3>1, OneMoves DEF Lifecycle!Resolve
    <3> QED
      BY <1>2, <3>2 DEF Lifecycle!Next
  <2>6. CASE ~rec[h].Started
    <3>1. phaseOf(h)' = phaseOf(h)
      BY <1>1, <2>6 DEF phaseOf
    <3> QED
      BY <1>1, <1>2, <2>3, <3>1, NoneMoves
  <2> QED
    BY <2>5, <2>6
<1> QED
  BY <1>3, <1>4

LEMMA RefreshMaps ==
  ASSUME MapInv, Refresh
  PROVE  DownloadsResolved' /\ UNCHANGED Lifecycle!vars
<1>1. /\ UNCHANGED <<ctxDone, client, info, downloading>> /\ shut' = shut
      /\ rec \in [Hash -> Record] /\ known \in SUBSET Hash
  BY DEF Refresh, clientVars, shut, MapInv, IInv, TypeOK
<1> DEFINE seen == IF client = "live" THEN {h \in Hash : held[h] # None} ELSE {}
<1>2. /\ known' = known \cup seen
      /\ \A h \in Hash : rec'[h] = IF h \in seen
                                   THEN update(rec[h], held[h], held[h] \in info) ELSE rec[h]
  BY DEF Refresh
<1>3. \A h \in seen : h \in known /\ rec[h].t = held[h] /\ held[h] \in Handle
  BY DEF MapInv, IInv, TypeOK, ClientInv, CacheMatchesClient
<1>4. seen \subseteq known /\ seen \subseteq Hash
  BY <1>3
<1> HIDE DEF seen
<1>5. known' = known
  BY <1>2, <1>4
<1>6. ASSUME NEW h \in Hash PROVE rec'[h].t = rec[h].t /\ rec'[h].Started = rec[h].Started
  <2>1. CASE h \in seen
    <3>1. rec[h] \in Record /\ held[h] \in Handle /\ (held[h] \in info) \in BOOLEAN
      BY <1>1, <1>3, <2>1
    <3>2. /\ update(rec[h], held[h], held[h] \in info).t = held[h]
          /\ update(rec[h], held[h], held[h] \in info).Started = rec[h].Started
      BY <3>1, UpdatedRecord
    <3> QED
      BY <1>2, <1>3, <2>1, <3>2
  <2>2. CASE h \notin seen
    BY <1>2, <2>2
  <2> QED
    BY <2>1, <2>2
<1>7. \A h \in Hash : phaseOf(h)' = phaseOf(h)
  BY <1>1, <1>5, <1>6 DEF phaseOf
<1> QED
  BY <1>1, <1>7, NoneMoves DEF MapInv, DownloadsResolved

(* The engine closes in the eyes of its callers when its list is emptied. *)
LEMMA CloseMaps ==
  ASSUME MapInv, NEW c \in Closer, CloseCancel(c) \/ CloseTake(c)
  PROVE  /\ DownloadsResolved'
         /\ Lifecycle!Next \/ UNCHANGED Lifecycle!vars
<1>1. /\ ctxDone' = TRUE /\ UNCHANGED <<info, downloading>>
      /\ client' = client \/ client' = "nil"
      /\ client' # "nil" => UNCHANGED <<known, rec>>
      /\ client' = "nil" => known' = {}
  BY DEF CloseCancel, CloseTake, clientVars, MapInv, IInv, ClientInv, CloserInv
<1>2. DownloadsResolved'
  BY <1>1 DEF MapInv, DownloadsResolved
<1>3. shut \in BOOLEAN /\ (shut => known = {})
  BY DEF shut, MapInv, IInv, ClientInv
<1>4. CASE client' # "nil"
  <2>1. shut' = shut
    BY <1>1, <1>4 DEF shut
  <2>2. \A h \in Hash : phaseOf(h)' = phaseOf(h)
    BY <1>1, <1>4 DEF phaseOf
  <2> QED
    BY <1>2, <2>1, <2>2, NoneMoves
<1>5. CASE client' = "nil"
  <2>1. shut' = TRUE /\ \A h \in Hash : phaseOf(h)' = "absent"
    BY <1>1, <1>5 DEF shut, phaseOf
  <2>2. CASE shut
    <3>1. \A h \in Hash : phaseOf(h) = "absent"
      BY <1>3, <2>2 DEF phaseOf
    <3>2. shut' = shut
      BY <1>3, <2>1, <2>2, Zenon
    <3> QED
      BY <1>2, <2>1, <3>1, <3>2, NoneMoves
  <2>3. CASE ~shut
    <3>1. phases' = [h \in Hash |-> "absent"]
      BY <2>1 DEF phases
    <3>2. Lifecycle!Close
      BY <2>1, <2>3, <3>1 DEF Lifecycle!Close
    <3> QED
      BY <1>2, <3>2 DEF Lifecycle!Next
  <2> QED
    BY <2>2, <2>3
<1> QED
  BY <1>4, <1>5

LEMMA StepMaps ==
  ASSUME MapInv, [Next]_vars
  PROVE  MapInv' /\ [Lifecycle!Next]_(Lifecycle!vars)
<1>1. IInv'
  BY StepInv DEF MapInv
<1>2. SUFFICES /\ DownloadsResolved'
               /\ Lifecycle!Next \/ UNCHANGED Lifecycle!vars
  BY <1>1, <1>2 DEF MapInv
<1>3. CASE UNCHANGED <<ctxDone, client, known, rec, info, downloading>>
  <2>1. shut' = shut /\ \A h \in Hash : phaseOf(h)' = phaseOf(h)
    BY <1>3 DEF shut, phaseOf
  <2> QED
    BY <1>3, <2>1, NoneMoves DEF MapInv, DownloadsResolved
<1>4. ASSUME NEW c \in [AutoStart : BOOLEAN, rest : Rest], Configure(c)
      PROVE  /\ DownloadsResolved'
             /\ Lifecycle!Next \/ UNCHANGED Lifecycle!vars
  <2>1. UNCHANGED <<ctxDone, known, rec, info, downloading>> /\ ~ctxDone
    BY <1>4 DEF Configure, clientVars
  <2>2. shut' = shut /\ \A h \in Hash : phaseOf(h)' = phaseOf(h)
    BY <2>1 DEF shut, phaseOf
  <2> QED
    BY <2>1, <2>2, NoneMoves DEF MapInv, DownloadsResolved
<1>5. ASSUME NEW w \in Watcher, WatcherReleased(w) \/ WatcherWoken(w)
      PROVE  UNCHANGED <<ctxDone, client, known, rec, info, downloading>>
  BY <1>5 DEF WatcherReleased, WatcherWoken, engineVars, clientVars
<1>6. ASSUME SamplerTick \/ SamplerExit \/ SamplerSignal \/ TakeSampled
      PROVE  UNCHANGED <<ctxDone, client, known, rec, info, downloading>>
  BY <1>6 DEF SamplerTick, SamplerExit, SamplerSignal, TakeSampled, engineVars, clientVars
<1>7. ASSUME NEW c \in Closer, CloseWaited(c) \/ CloseRelease(c)
      PROVE  UNCHANGED <<ctxDone, client, known, rec, info, downloading>>
  BY <1>7 DEF CloseWaited, CloseRelease, engineVars, clientVars
<1>8. CASE UNCHANGED vars
  BY <1>3, <1>8 DEF vars, engineVars, clientVars
<1> QED
  BY <1>3, <1>4, <1>5, <1>6, <1>7, <1>8, AddMaps, StartMaps, StopMaps, InfoMaps, ResolvedMaps,
     RefreshMaps, CloseMaps DEF Next

(* The engine implements the life of a torrent it promises to its callers: whatever     *)
(* its goroutines, its client and its callers do, every step of it is one of             *)
(* TorrentLifecycle's, or none (addSpec, StartTorrent, StopTorrent, DeleteTorrent,       *)
(* infoArrived, refresh, Close).                                                         *)
THEOREM LifecycleIsImplemented == Spec => Lifecycle!Spec
<1>1. Init => MapInv /\ Lifecycle!Init
  <2> SUFFICES ASSUME Init PROVE MapInv /\ Lifecycle!Init
    OBVIOUS
  <2>1. IInv
    BY InitInv
  <2>2. DownloadsResolved
    BY DEF Init, DownloadsResolved
  <2>3. shut = FALSE /\ \A h \in Hash : phaseOf(h) = "absent"
    BY DEF Init, shut, phaseOf
  <2> QED
    BY <2>1, <2>2, <2>3 DEF MapInv, Lifecycle!Init, phases
<1>2. MapInv /\ [Next]_vars => MapInv' /\ [Lifecycle!Next]_(Lifecycle!vars)
  BY StepMaps
<1> QED
  BY <1>1, <1>2, PTL DEF Spec, Lifecycle!Spec
=============================================================================
