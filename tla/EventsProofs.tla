---------------------------- MODULE EventsProofs -----------------------------
(***************************************************************************)
(* Theorems about Events, for every set of browsers, every size of their   *)
(* queues and every number of samples.                                     *)
(***************************************************************************)
EXTENDS Events, SequenceTheorems, TLAPS

(* UI.mu: a loop that changes the cache or broadcasts holds it. *)
MuInv == \A l \in Loop : loop[l] \in {"render", "broadcast"} => mu = l

(* What a loop is about to publish; what it broadcasts is what it has cached. *)
DrawingInv ==
  \A l \in Loop :
    /\ loop[l] \in {"lock", "render", "broadcast"} => drawing[l] \in Frame
    /\ loop[l] = "broadcast" => framedBody = drawing[l]

(* Before anything was rendered, nothing is queued or shown. *)
EmptyInv == framedBody = NoFrame => \A b \in Browser : ch[b] = <<>> /\ shown[b] = NoFrame

Served(b) == ~done[b] /\ ~closed

(* A subscriber whose snapshot is still to be written: what is queued meanwhile ends *)
(* on the cached region, which is what the snapshot will show otherwise.             *)
SnapshotInv ==
  ~Publishing =>
    \A b \in Browser : handler[b] = "snapshot" /\ Served(b) /\ ch[b] # <<>> =>
      ch[b][Len(ch[b])] = framedBody

IInv ==
  /\ TypeOK /\ MuInv /\ DrawingInv /\ EmptyInv /\ SnapshotInv
  /\ NothingMissed /\ WatchersAreConnected /\ ClosedReleasesAll

-----------------------------------------------------------------------------
LEMMA InitInv == Init => IInv
<1> SUFFICES ASSUME Init PROVE IInv
  OBVIOUS
<1>1. TypeOK
  <2>1. latest \in Frame
    BY EventsAssumption DEF Init, Frame
  <2>2. ch \in [Browser -> Seq(Frame)] /\ \A b \in Browser : Len(ch[b]) <= SubBuffer
    BY EventsAssumption DEF Init
  <2> QED BY <2>1, <2>2 DEF Init, TypeOK
<1>2. MuInv /\ DrawingInv /\ EmptyInv /\ SnapshotInv
  BY DEF Init, MuInv, DrawingInv, EmptyInv, SnapshotInv, Loop
<1>3. NothingMissed /\ WatchersAreConnected /\ ClosedReleasesAll
  BY DEF Init, NothingMissed, WatchersAreConnected, ClosedReleasesAll
<1> QED BY <1>1, <1>2, <1>3 DEF IInv

(* UI.mu admits one loop. *)
LEMMA Exclusion ==
  ASSUME IInv, NEW l \in Loop, loop[l] = "render"
  PROVE  ~Publishing
  BY DEF IInv, MuInv, Publishing

(* The loops' steps that touch neither the cache nor the queues. *)
LEMMA QuietStep ==
  ASSUME IInv, NEW l \in Loop, Sample \/ Wake \/ renderStats(l) \/ Lock(l) \/ RenderFails(l)
  PROVE  IInv'
<1> USE DEF IInv
<1>a. UNCHANGED <<framedBody, hubVars, handlerVars>>
  BY DEF Sample, Wake, renderStats, Lock, RenderFails
<1>b. \A k \in Loop : loop'[k] = "broadcast" <=> loop[k] = "broadcast"
  BY DEF Sample, Wake, renderStats, Lock, RenderFails, TypeOK, Loop
<1>1. TypeOK'
  <2>1. CASE Sample BY <2>1, EventsAssumption DEF Sample, TypeOK, hubVars, handlerVars, Frame, Loop
  <2>2. CASE Wake BY <2>2 DEF Wake, TypeOK, hubVars, handlerVars, Loop
  <2>3. CASE renderStats(l) BY <2>3 DEF renderStats, TypeOK, hubVars, handlerVars, Loop
  <2>4. CASE Lock(l) BY <2>4 DEF Lock, TypeOK, hubVars, handlerVars, Loop
  <2>5. CASE RenderFails(l) BY <2>5 DEF RenderFails, TypeOK, hubVars, handlerVars, Loop
  <2> QED BY <2>1, <2>2, <2>3, <2>4, <2>5
<1>2. MuInv'
  BY DEF Sample, Wake, renderStats, Lock, RenderFails, MuInv, TypeOK, Loop, Nobody
<1>3. DrawingInv'
  BY <1>a, <1>b DEF Sample, Wake, renderStats, Lock, RenderFails, DrawingInv, TypeOK, Loop
<1>4. EmptyInv' /\ WatchersAreConnected' /\ ClosedReleasesAll'
  BY <1>a DEF hubVars, handlerVars, EmptyInv, WatchersAreConnected, ClosedReleasesAll
<1>5. SnapshotInv' /\ NothingMissed'
  BY <1>a, <1>b DEF hubVars, handlerVars, SnapshotInv, NothingMissed, Served, Awaited, Publishing
<1> QED BY <1>1, <1>2, <1>3, <1>4, <1>5

(* A region that did change is announced by the broadcast that follows. *)
LEMMA StoreStep == ASSUME IInv, NEW l \in Loop, store(l) PROVE IInv'
<1> USE DEF IInv
<1>a. drawing[l] \in Frame
  BY DEF store, DrawingInv
<1>b. ~Publishing
  BY Exclusion DEF store
<1>1. TypeOK'
  BY <1>a DEF store, TypeOK, hubVars, handlerVars, Loop
<1>2. MuInv'
  BY DEF store, MuInv, TypeOK, Loop, Nobody
<1>3. DrawingInv'
  BY <1>b DEF store, DrawingInv, Publishing, TypeOK, Loop
<1>4. EmptyInv'
  BY <1>a DEF store, EmptyInv, Frame, NoFrame
<1>5. WatchersAreConnected' /\ ClosedReleasesAll'
  BY DEF store, hubVars, handlerVars, WatchersAreConnected, ClosedReleasesAll
<1>6. SnapshotInv' /\ NothingMissed'
  <2>1. CASE framedBody = drawing[l]
    BY <1>b, <2>1 DEF store, hubVars, handlerVars, SnapshotInv, NothingMissed, Served, Awaited
  <2>2. CASE framedBody # drawing[l]
    <3>1. Publishing'
      BY <2>2 DEF store, Publishing, TypeOK
    <3> QED BY <3>1 DEF SnapshotInv, NothingMissed
  <2> QED BY <2>1, <2>2
<1> QED BY <1>1, <1>2, <1>3, <1>4, <1>5, <1>6

(* Every subscriber with room has the new region last in its queue, the others are *)
(* stalled.                                                                        *)
LEMMA BroadcastStep == ASSUME IInv, NEW l \in Loop, broadcast(l) PROVE IInv'
<1> USE DEF IInv
<1>a. drawing[l] \in Frame /\ framedBody = drawing[l] /\ UNCHANGED framedBody
  BY DEF broadcast, DrawingInv
<1>b. ASSUME NEW b \in Browser, b \in subs, Len(ch[b]) < SubBuffer
      PROVE  /\ ch'[b] = Append(ch[b], drawing[l])
             /\ ch'[b] \in Seq(Frame)
             /\ Len(ch'[b]) = Len(ch[b]) + 1
             /\ ch'[b] # <<>>
             /\ ch'[b][Len(ch'[b])] = framedBody
  <2>1. ch'[b] = Append(ch[b], drawing[l])
    BY <1>b DEF broadcast
  <2>2. ch[b] \in Seq(Frame)
    BY DEF TypeOK
  <2> QED BY <1>a, <2>1, <2>2
<1>c. ASSUME NEW b \in Browser, ~(b \in subs /\ Len(ch[b]) < SubBuffer)
      PROVE  ch'[b] = ch[b]
  BY <1>c DEF broadcast
<1>d. \A b \in Browser : done'[b] = (done[b] \/ (b \in subs /\ ~(Len(ch[b]) < SubBuffer)))
  BY DEF broadcast
<1>1. TypeOK'
  <2>1. ch' \in [Browser -> Seq(Frame)]
    <3>1. \A b \in Browser : ch'[b] \in Seq(Frame)
      BY <1>b, <1>c DEF TypeOK
    <3> QED BY <3>1 DEF broadcast
  <2>2. \A b \in Browser : Len(ch'[b]) <= SubBuffer
    <3> TAKE b \in Browser
    <3>1. Len(ch[b]) \in Nat /\ Len(ch[b]) <= SubBuffer
      BY DEF TypeOK
    <3> QED BY <1>b, <1>c, <3>1, EventsAssumption
  <2>3. done' \in [Browser -> BOOLEAN]
    BY DEF broadcast, TypeOK
  <2> QED BY <2>1, <2>2, <2>3 DEF broadcast, TypeOK, hubVars, Loop
<1>2. MuInv'
  BY DEF broadcast, MuInv, TypeOK, Loop, Nobody
<1>3. DrawingInv'
  BY DEF broadcast, DrawingInv, TypeOK, Loop
<1>4. EmptyInv'
  BY <1>a DEF EmptyInv, Frame, NoFrame
<1>5. WatchersAreConnected' /\ ClosedReleasesAll'
  BY <1>d DEF broadcast, hubVars, WatchersAreConnected, ClosedReleasesAll
<1>6. SnapshotInv' /\ NothingMissed'
  <2>1. ASSUME NEW b \in Browser, handler[b] # "off", ~done'[b], ~closed
        PROVE  ch'[b] # <<>> /\ ch'[b][Len(ch'[b])] = framedBody
    <3>1. b \in subs
      BY <2>1 DEF WatchersAreConnected
    <3>2. Len(ch[b]) < SubBuffer
      BY <1>d, <2>1, <3>1
    <3> QED BY <1>b, <3>1, <3>2
  <2>2. UNCHANGED <<handler, closed, framedBody>>
    BY DEF broadcast, hubVars
  <2> QED BY <2>1, <2>2 DEF SnapshotInv, NothingMissed, Served, Awaited
<1> QED BY <1>1, <1>2, <1>3, <1>4, <1>5, <1>6

-----------------------------------------------------------------------------
(* A handler's steps leave the loops and the cache alone. *)
LEMMA LoopsKept ==
  ASSUME IInv, UNCHANGED <<loopVars, framedBody>>
  PROVE  MuInv' /\ DrawingInv' /\ (Publishing' <=> Publishing)
  BY DEF IInv, loopVars, MuInv, DrawingInv, Publishing

LEMMA SubscribeStep == ASSUME IInv, NEW b \in Browser, subscribe(b) PROVE IInv'
<1> USE DEF IInv
<1>a. UNCHANGED <<loopVars, framedBody>>
  BY DEF subscribe
<1>1. TypeOK'
  <2>1. ch' \in [Browser -> Seq(Frame)] /\ \A k \in Browser : Len(ch'[k]) <= SubBuffer
    BY EventsAssumption DEF subscribe, TypeOK
  <2> QED BY <2>1 DEF subscribe, TypeOK, loopVars
<1>2. EmptyInv'
  BY DEF subscribe, EmptyInv, TypeOK
<1>3. SnapshotInv' /\ NothingMissed'
  BY <1>a, LoopsKept DEF subscribe, SnapshotInv, NothingMissed, Served, Awaited, TypeOK
<1>4. WatchersAreConnected' /\ ClosedReleasesAll'
  BY DEF subscribe, WatchersAreConnected, ClosedReleasesAll, TypeOK
<1> QED BY <1>a, <1>1, <1>2, <1>3, <1>4, LoopsKept

LEMMA SnapshotStep == ASSUME IInv, NEW b \in Browser, snapshot(b) PROVE IInv'
<1> USE DEF IInv
<1>a. UNCHANGED <<loopVars, framedBody>>
  BY DEF snapshot
<1>1. TypeOK'
  BY DEF snapshot, TypeOK, loopVars, hubVars, NoFrame
<1>2. EmptyInv'
  BY DEF snapshot, EmptyInv, TypeOK
<1>3. SnapshotInv'
  BY <1>a, LoopsKept DEF snapshot, hubVars, SnapshotInv, Served, TypeOK
<1>4. NothingMissed'
  <2>1. ASSUME ~Publishing, Served(b) PROVE Awaited(b)' = framedBody
    <3>1. CASE ch[b] = <<>>
      BY <3>1 DEF snapshot, Awaited, EmptyInv, TypeOK
    <3>2. CASE ch[b] # <<>>
      BY <2>1, <3>2 DEF snapshot, Awaited, SnapshotInv, TypeOK
    <3> QED BY <3>1, <3>2
  <2> QED BY <1>a, <2>1, LoopsKept DEF snapshot, hubVars, NothingMissed, Served, Awaited, TypeOK
<1>5. WatchersAreConnected' /\ ClosedReleasesAll'
  BY DEF snapshot, hubVars, WatchersAreConnected, ClosedReleasesAll, TypeOK
<1> QED BY <1>a, <1>1, <1>2, <1>3, <1>4, <1>5, LoopsKept

(* Taking a frame from the queue does not change where the browser will end. *)
LEMMA DeliverStep == ASSUME IInv, NEW b \in Browser, Deliver(b) PROVE IInv'
<1> USE DEF IInv
<1>a. UNCHANGED <<loopVars, framedBody>>
  BY DEF Deliver
<1>b. ch[b] \in Seq(Frame) /\ ch[b] # <<>> /\ Len(ch[b]) \in Nat \ {0} /\ Len(ch[b]) <= SubBuffer
  BY EmptySeq DEF Deliver, TypeOK
<1>c. ch'[b] = Tail(ch[b]) /\ shown'[b] = Head(ch[b])
  BY DEF Deliver, TypeOK
<1>d. \A k \in Browser : k # b => ch'[k] = ch[k] /\ shown'[k] = shown[k]
  BY DEF Deliver, TypeOK
<1>e. Tail(ch[b]) \in Seq(Frame) /\ Head(ch[b]) \in Frame /\ Len(Tail(ch[b])) = Len(ch[b]) - 1
  BY <1>b
<1>1. TypeOK'
  <2>1. ch' \in [Browser -> Seq(Frame)] /\ shown' \in [Browser -> Frame \cup {NoFrame}]
    BY <1>e DEF Deliver, TypeOK
  <2>2. Len(ch'[b]) <= SubBuffer
    BY <1>b, <1>c, <1>e, EventsAssumption
  <2>3. \A k \in Browser : Len(ch'[k]) <= SubBuffer
    BY <1>d, <2>2 DEF TypeOK
  <2> QED BY <2>1, <2>3 DEF Deliver, TypeOK, loopVars, hubVars
<1>2. EmptyInv'
  BY <1>b DEF Deliver, EmptyInv
<1>3. SnapshotInv'
  BY <1>a, <1>d, LoopsKept DEF Deliver, hubVars, SnapshotInv, Served
<1>4. NothingMissed'
  <2>1. Awaited(b)' = Awaited(b)
    <3> DEFINE q == ch[b]
               t == ch'[b]
    <3>a. q \in Seq(Frame) /\ q # <<>> /\ Len(q) \in Nat \ {0} /\ t = Tail(q)
      BY <1>b, <1>c
    <3>b. /\ Awaited(b) = q[Len(q)]
          /\ Awaited(b)' = IF t = <<>> THEN Head(q) ELSE t[Len(t)]
      BY <3>a, <1>c DEF Awaited
    <3> HIDE DEF q, t
    <3>c. Head(q) = q[1] /\ t \in Seq(Frame) /\ Len(t) = Len(q) - 1
          /\ \A i \in 1..Len(t) : t[i] = q[i + 1]
      BY <3>a
    <3>1. CASE t = <<>>
      <4>1. Len(t) = 0
        BY <3>1, EmptySeq
      <4>2. Len(q) = 1
        BY <3>a, <3>c, <4>1
      <4> QED BY <3>b, <3>c, <3>1, <4>2
    <3>2. CASE t # <<>>
      BY <3>a, <3>b, <3>c, <3>2, EmptySeq
    <3> QED BY <3>1, <3>2
  <2>2. \A k \in Browser : Awaited(k)' = Awaited(k)
    BY <1>d, <2>1 DEF Awaited
  <2> QED BY <1>a, <2>2, LoopsKept DEF Deliver, hubVars, NothingMissed
<1>5. WatchersAreConnected' /\ ClosedReleasesAll'
  BY DEF Deliver, hubVars, WatchersAreConnected, ClosedReleasesAll
<1> QED BY <1>a, <1>1, <1>2, <1>3, <1>4, <1>5, LoopsKept

(* The ways out of a handler, and closing the hub. *)
LEMMA LeaveStep ==
  ASSUME IInv, NEW b \in Browser,
         Disconnect(b) \/ Released(b) \/ unsubscribe(b) \/ StallOne(b) \/ close
  PROVE  IInv'
<1> USE DEF IInv
<1>a. UNCHANGED <<loopVars, framedBody, ch, shown>>
  BY DEF Disconnect, Released, unsubscribe, StallOne, close, handlerVars
<1>1. TypeOK'
  BY <1>a DEF Disconnect, Released, unsubscribe, StallOne, close, TypeOK, loopVars, hubVars, handlerVars
<1>2. EmptyInv'
  BY <1>a DEF EmptyInv
<1>3. SnapshotInv' /\ NothingMissed'
  BY <1>a, LoopsKept DEF Disconnect, Released, unsubscribe, StallOne, close, hubVars, handlerVars,
     SnapshotInv, NothingMissed, Served, Awaited, TypeOK
<1>4. WatchersAreConnected' /\ ClosedReleasesAll'
  BY DEF Disconnect, Released, unsubscribe, StallOne, close, hubVars, handlerVars,
     WatchersAreConnected, ClosedReleasesAll, TypeOK
<1> QED BY <1>a, <1>1, <1>2, <1>3, <1>4, LoopsKept

-----------------------------------------------------------------------------
LEMMA StepInv == IInv /\ [Next]_vars => IInv'
<1> SUFFICES ASSUME IInv, [Next]_vars PROVE IInv'
  OBVIOUS
<1>1. CASE UNCHANGED vars
  BY <1>1 DEF vars, loopVars, hubVars, handlerVars, IInv, TypeOK, MuInv, DrawingInv, EmptyInv,
     SnapshotInv, NothingMissed, Served, Awaited, Publishing, WatchersAreConnected, ClosedReleasesAll
<1>2. CASE Sample \/ Wake
  BY <1>2, QuietStep DEF Loop
<1>3. CASE \E l \in Loop : renderStats(l) \/ Lock(l) \/ RenderFails(l) \/ store(l) \/ broadcast(l)
  BY <1>3, QuietStep, StoreStep, BroadcastStep
<1>4. CASE \E b \in Browser : \/ subscribe(b) \/ snapshot(b) \/ Deliver(b) \/ Disconnect(b)
                              \/ Released(b) \/ unsubscribe(b) \/ StallOne(b)
  BY <1>4, SubscribeStep, SnapshotStep, DeliverStep, LeaveStep
<1>5. CASE close
  <2>1. CASE Browser = {}
    BY <1>5, <2>1 DEF close, loopVars, handlerVars, IInv, TypeOK, MuInv, DrawingInv, EmptyInv,
       SnapshotInv, NothingMissed, WatchersAreConnected, ClosedReleasesAll
  <2>2. CASE Browser # {}
    BY <1>5, <2>2, LeaveStep
  <2> QED BY <2>1, <2>2
<1> QED BY <1>1, <1>2, <1>3, <1>4, <1>5 DEF Next

THEOREM EventsInvariant == Spec => []IInv
  BY InitInv, StepInv, PTL DEF Spec

(* Every variable has its type: no queue is ever longer than SubBuffer (broadcast).     *)
THEOREM EventsTypes == Spec => []TypeOK
<1>1. IInv => TypeOK
  BY DEF IInv
<1> QED BY <1>1, EventsInvariant, PTL

(* No browser that is being served misses a change, in whatever order it subscribes,   *)
(* takes its snapshot, reads its queue and the loops render and broadcast (ServeEvents, *)
(* store, broadcast).                                                                   *)
THEOREM NothingIsMissed == Spec => []NothingMissed
<1>1. IInv => NothingMissed
  BY DEF IInv
<1> QED BY <1>1, EventsInvariant, PTL

(* The watcher count is the number of connections being served (hub).                  *)
THEOREM WatchersAreExact == Spec => []WatchersAreConnected
<1>1. IInv => WatchersAreConnected
  BY DEF IInv
<1> QED BY <1>1, EventsInvariant, PTL

(* A closed hub releases every connection, the ones that come after it included        *)
(* (hub.close, hub.subscribe).                                                         *)
THEOREM CloseReleasesAll == Spec => []ClosedReleasesAll
<1>1. IInv => ClosedReleasesAll
  BY DEF IInv
<1> QED BY <1>1, EventsInvariant, PTL
=============================================================================
