----------------------------- MODULE LoopProofs -----------------------------
(***************************************************************************)
(* Theorems about the two loops the page is kept current by: the engine's  *)
(* sampleLoop (Sampling) and the server's renderLoop (RenderLoop), for     *)
(* every sampling interval and floor, every set of callers and browsers,   *)
(* every torrent size and set of byte counts.  They share the clock.       *)
(***************************************************************************)
EXTENDS RenderLoop, Sampling, TLAPS

-----------------------------------------------------------------------------
(* A wait ends one floor after the last render. *)
WaitInv == poll = "wait" => lastRender # None /\ until = lastRender + Floor

(* A kick that is not drawn yet has someone to be drawn for, and is pending or being served. *)
SinceInv ==
  since # None =>
    /\ watching # {}
    /\ poll = "done" \/ kickCh \/ poll \in {"gate", "draw", "wait"}

Numbers == now \in Nat \ {0} /\ lastRender \in Int /\ until \in Int /\ since \in Int

IInv == Numbers /\ WaitInv /\ SinceInv /\ NoLostWakeup /\ Prompt

-----------------------------------------------------------------------------
LEMMA InitInv == Init => IInv
  BY DEF Init, IInv, Numbers, WaitInv, SinceInv, NoLostWakeup, Prompt, None

(* The senders only add wake-ups. *)
LEMMA SenderStep ==
  ASSUME IInv, NEW s, Change(s) \/ Connect(s) \/ Disconnect(s) \/ kick(s)
  PROVE  IInv'
<1>1. CASE Change(s)
  BY <1>1 DEF Change, IInv, Numbers, WaitInv, SinceInv, NoLostWakeup, Prompt, None
<1>2. CASE Connect(s)
  BY <1>2 DEF Connect, IInv, Numbers, WaitInv, SinceInv, NoLostWakeup, Prompt, None
<1>3. CASE Disconnect(s)
  BY <1>3 DEF Disconnect, IInv, Numbers, WaitInv, SinceInv, NoLostWakeup, Prompt, None
<1>4. CASE kick(s)
  BY <1>4 DEF kick, IInv, Numbers, WaitInv, SinceInv, NoLostWakeup, Prompt, None
<1> QED BY <1>1, <1>2, <1>3, <1>4

(* A kick that must wait is drawn when the floor since the last render is over. *)
LEMMA TakeKickStep == IInv /\ TakeKick => IInv'
<1> SUFFICES ASSUME IInv, TakeKick PROVE IInv'
  OBVIOUS
<1>1. Floor \in Int
  BY RenderLoopAssumption
<1>2. CASE kickDelay(now, lastRender) > 0
  <2>1. lastRender # None /\ kickDelay(now, lastRender) = Floor - (now - lastRender)
    BY <1>1, <1>2 DEF kickDelay, IInv, Numbers
  <2>2. poll' = "wait" /\ until' = now + (Floor - (now - lastRender))
    BY <1>2, <2>1 DEF TakeKick
  <2>3. until' = lastRender + Floor
    BY <1>1, <2>2 DEF IInv, Numbers
  <2> QED BY <1>1, <2>1, <2>2, <2>3
          DEF TakeKick, IInv, Numbers, WaitInv, SinceInv, NoLostWakeup, Prompt
<1>3. CASE ~(kickDelay(now, lastRender) > 0)
  <2>1. poll' = "gate" /\ until' = None
    BY <1>3 DEF TakeKick
  <2> QED BY <2>1 DEF TakeKick, IInv, Numbers, WaitInv, SinceInv, NoLostWakeup, Prompt, None
<1> QED BY <1>2, <1>3

(* The other steps of the loop. *)
LEMMA LoopStep ==
  IInv /\ (Gate \/ render \/ Rendered \/ TakeSample \/ WaitOver \/ Stop) => IInv'
<1> SUFFICES ASSUME IInv, Gate \/ render \/ Rendered \/ TakeSample \/ WaitOver \/ Stop
             PROVE  IInv'
  OBVIOUS
<1> USE DEF IInv, Numbers, WaitInv, SinceInv, NoLostWakeup, Prompt, None
<1>1. CASE Gate
  BY <1>1 DEF Gate
<1>2. CASE render
  BY <1>2 DEF render
<1>3. CASE Rendered
  BY <1>3, RenderLoopAssumption DEF Rendered
<1>4. CASE TakeSample
  BY <1>4 DEF TakeSample
<1>5. CASE WaitOver
  BY <1>5 DEF WaitOver
<1>6. CASE Stop
  BY <1>6 DEF Stop
<1> QED BY <1>1, <1>2, <1>3, <1>4, <1>5, <1>6

(* Time passes only when nothing that was kicked for can be drawn yet. *)
LEMMA AdvanceStep == IInv /\ Advance => IInv'
<1> SUFFICES ASSUME IInv, Advance PROVE IInv'
  OBVIOUS
<1>1. Numbers' /\ WaitInv' /\ SinceInv'
  BY DEF Advance, IInv, Numbers, WaitInv, SinceInv
<1>2. NoLostWakeup'
  BY DEF Advance, IInv, NoLostWakeup
<1>3. Prompt'
  BY RenderLoopAssumption DEF Advance, Quiet, IInv, Numbers, WaitInv, SinceInv, Prompt
<1> QED BY <1>1, <1>2, <1>3 DEF IInv

LEMMA StepInv == IInv /\ [Next]_vars => IInv'
<1> SUFFICES ASSUME IInv, [Next]_vars PROVE IInv'
  OBVIOUS
<1>1. CASE UNCHANGED vars
  BY <1>1 DEF vars, IInv, Numbers, WaitInv, SinceInv, NoLostWakeup, Prompt
<1>2. CASE Next
  BY <1>2, SenderStep, TakeKickStep, LoopStep, AdvanceStep DEF Next
<1> QED BY <1>1, <1>2

-----------------------------------------------------------------------------
THEOREM LoopInvariant == Spec => []IInv
  BY InitInv, StepInv, PTL DEF Spec

(* However kicks, connections, samples and renders interleave, a browser on a stale   *)
(* page has a signal, a sender or the loop on its way to it (kick, poll).             *)
THEOREM NoWakeupIsLost == Spec => []NoLostWakeup
<1>1. IInv => NoLostWakeup
  BY DEF IInv
<1> QED BY <1>1, LoopInvariant, PTL

(* For every floor, what a kick was sent for is drawn at once or one floor after the  *)
(* last render at the latest (kickDelay).                                             *)
THEOREM KicksArePrompt == Spec => []Prompt
<1>1. IInv => Prompt
  BY DEF IInv
<1> QED BY <1>1, LoopInvariant, PTL

(* No wait is longer than the floor.                                                   *)
LEMMA WaitIsShort ==
  ASSUME NEW at \in Nat, NEW last \in 0..at
  PROVE  kickDelay(at, last) \in 0..Floor
  BY RenderLoopAssumption DEF kickDelay, None

LEMMA TypeStep == TypeOK /\ [Next]_vars => TypeOK'
<1> SUFFICES ASSUME TypeOK, [Next]_vars PROVE TypeOK'
  OBVIOUS
<1>0. /\ Floor \in Nat /\ MaxTime \in Nat /\ now \in Nat /\ now >= 1 /\ until \in Nat
      /\ lastRender \in Nat /\ since \in Nat
  BY RenderLoopAssumption DEF TypeOK
<1> USE <1>0 DEF TypeOK, None
<1>1. ASSUME NEW b \in Browser, Connect(b) \/ Disconnect(b) PROVE TypeOK'
  <2>1. b \in Sender
    BY DEF Sender
  <2>2. CASE Connect(b)
    BY <2>1, <2>2 DEF Connect
  <2>3. CASE Disconnect(b)
    BY <2>3 DEF Disconnect
  <2> QED
    BY <1>1, <2>2, <2>3
<1>2. CASE Gate
  BY <1>2 DEF Gate
<1>3. CASE render
  <2>1. now' \in 1..MaxTime /\ until' \in 0..(MaxTime + Floor)
        /\ lastRender' \in 0..now' /\ since' \in 0..now' /\ draws' \in Nat
    BY <1>3 DEF render
  <2> QED
    BY <1>3, <2>1 DEF render
<1>4. CASE Rendered
  BY <1>4 DEF Rendered
<1>5. CASE TakeSample
  BY <1>5 DEF TakeSample
<1>6. CASE TakeKick
  <2>1. kickDelay(now, lastRender) \in 0..Floor
    BY WaitIsShort
  <2>2. until' \in 0..(MaxTime + Floor)
    BY <1>6, <2>1 DEF TakeKick
  <2>3. poll' \in {"wait", "gate"}
    BY <1>6 DEF TakeKick
  <2> QED
    BY <1>6, <2>2, <2>3 DEF TakeKick
<1>7. CASE WaitOver
  BY <1>7 DEF WaitOver
<1>8. CASE Stop
  BY <1>8 DEF Stop
<1>9. CASE Advance
  <2>1. now' \in 1..MaxTime /\ until' \in 0..(MaxTime + Floor)
        /\ lastRender' \in 0..now' /\ since' \in 0..now' /\ draws' \in Nat
    BY <1>9 DEF Advance
  <2>2. sampled' \in BOOLEAN /\ stale' \in BOOLEAN
    BY <1>9, Zenon DEF Advance
  <2> QED
    BY <1>9, <2>1, <2>2 DEF Advance
<1>10. CASE UNCHANGED vars
  BY <1>10 DEF vars
<1>11. ASSUME NEW a \in Caller, Change(a) PROVE TypeOK'
  <2>1. a \in Sender
    BY <1>11 DEF Sender
  <2> QED
    BY <1>11, <2>1 DEF Change
<1>12. ASSUME NEW s \in Sender, kick(s) PROVE TypeOK'
  BY <1>12 DEF kick
<1> QED
  BY <1>1, <1>2, <1>3, <1>4, <1>5, <1>6, <1>7, <1>8, <1>9, <1>10, <1>11, <1>12 DEF Next

(* Every variable has its type; in particular no wait lasts past one floor from now    *)
(* (kickDelay).                                                                        *)
THEOREM RenderLoopTypes == Spec => []TypeOK
<1>1. Init => TypeOK
  <2> SUFFICES ASSUME Init PROVE TypeOK
    OBVIOUS
  <2>1. now \in 1..MaxTime /\ until \in 0..(MaxTime + Floor) /\ lastRender \in 0..now
        /\ since \in 0..now /\ draws \in Nat
    BY RenderLoopAssumption DEF Init, None
  <2> QED
    BY <2>1, Zenon DEF Init, TypeOK
<1> QED
  BY <1>1, TypeStep, PTL DEF Spec

-----------------------------------------------------------------------------
(* Bursts.  Drawings for kicks are a floor apart; a drawing for the sample need not   *)
(* keep its distance, but there is one of them at most.                               *)

(* Time since the last sample signal, and how much of it had passed at the last render. *)
Age         == now % Interval
AgeAtRender == Age - (now - lastRender)

Spaced == lastRender = None \/ now >= lastRender + Floor

(* The drawings made since the last sample signal, the one for it not counted. *)
ForKicks == draws > 0 => draws <= AgeAtRender \div Floor + 1

BurstInv ==
  /\ draws > 0 => lastRender # None /\ AgeAtRender >= 0
  /\ IF sampled THEN ForKicks ELSE draws > 0 => draws <= AgeAtRender \div Floor + 1 + 1
  /\ poll \in {"gate", "draw", "send"} => Spaced \/ (~sampled /\ ForKicks)

-----------------------------------------------------------------------------
(* A quotient lies between the multiples of the divisor that its dividend does. *)
LEMMA DivideBounds ==
  ASSUME NEW n \in Nat, NEW d \in Nat \ {0}
  PROVE  /\ n \div d \in Nat
         /\ d * (n \div d) <= n
         /\ n < d * (n \div d) + d
  OBVIOUS

(* The only quotient between those multiples. *)
LEMMA Between ==
  ASSUME NEW d \in Nat \ {0}, NEW p \in Nat, NEW q \in Nat, d * p < d * q + d
  PROVE  p <= q
<1> SUFFICES ASSUME p >= q + 1 PROVE FALSE
  OBVIOUS
<1>1. PICK k \in Nat : p = q + 1 + k
  <2>1. p - (q + 1) \in Nat /\ p = q + 1 + (p - (q + 1))
    OBVIOUS
  <2> QED BY <2>1
<1>2. d * p = d * q + d + d * k /\ d * k \in Nat
  BY <1>1
<1> QED BY <1>2

(* More time holds no fewer floors. *)
LEMMA FloorsGrow ==
  ASSUME NEW m \in Nat, NEW n \in Nat, m <= n
  PROVE  m \div Floor <= n \div Floor
<1> DEFINE p == m \div Floor
           q == n \div Floor
<1>1. Floor \in Nat \ {0}
  BY RenderLoopAssumption
<1>2. p \in Nat /\ q \in Nat /\ Floor * p <= m /\ n < Floor * q + Floor
  BY <1>1, DivideBounds
<1> HIDE DEF p, q
<1>3. Floor * p \in Int /\ Floor * q \in Int /\ Floor * p < Floor * q + Floor
  BY <1>1, <1>2
<1>4. p <= q
  BY <1>1, <1>2, <1>3, Between
<1> QED BY <1>4 DEF p, q

(* A floor more holds one more. *)
LEMMA OneFloorMore ==
  ASSUME NEW m \in Nat, NEW n \in Nat, m + Floor <= n
  PROVE  m \div Floor + 1 <= n \div Floor
<1> DEFINE p == m \div Floor
           q == n \div Floor
<1>1. Floor \in Nat \ {0}
  BY RenderLoopAssumption
<1>2. p \in Nat /\ q \in Nat /\ Floor * p <= m /\ n < Floor * q + Floor
  BY <1>1, DivideBounds
<1> HIDE DEF p, q
<1>3. Floor * (p + 1) = Floor * p + Floor /\ Floor * p \in Int /\ Floor * q \in Int
  BY <1>1, <1>2
<1>4. Floor * (p + 1) < Floor * q + Floor
  BY <1>1, <1>2, <1>3
<1>5. p + 1 <= q
  BY <1>1, <1>2, <1>4, Between
<1> QED BY <1>5 DEF p, q

(* The next instant is the next of the interval, or its first. *)
LEMMA AgeSteps ==
  ASSUME NEW n \in Nat
  PROVE  /\ n % Interval \in 0..(Interval - 1)
         /\ (n + 1) % Interval # 0 => (n + 1) % Interval = (n % Interval) + 1
<1> DEFINE r == n % Interval
           q == n \div Interval
           s == (n + 1) % Interval
           p == (n + 1) \div Interval
<1>0. Interval \in Nat \ {0}
  BY RenderLoopAssumption
<1>1. /\ r \in 0..(Interval - 1) /\ q \in Nat /\ n = Interval * q + r
      /\ s \in 0..(Interval - 1) /\ p \in Nat /\ n + 1 = Interval * p + s
  BY <1>0
<1> HIDE DEF r, q, s, p
<1>2. ASSUME s # 0 PROVE s = r + 1
  <2>1. Interval * p \in Int /\ Interval * q \in Int
    BY <1>0, <1>1
  <2>2. Interval * p < Interval * q + Interval /\ Interval * q < Interval * p + Interval
    BY <1>0, <1>1, <1>2, <2>1
  <2>3. p <= q /\ q <= p
    BY <1>0, <1>1, <2>2, Between
  <2>4. p = q
    BY <1>1, <2>3
  <2> QED BY <1>1, <2>1, <2>4
<1> QED BY <1>1, <1>2 DEF r, s

(* What a drawing adds. *)
LEMMA RenderedBurst ==
  ASSUME TypeOK, BurstInv, Rendered
  PROVE  BurstInv'
<1>1. /\ Floor \in Nat \ {0} /\ now \in Nat /\ lastRender \in Nat /\ lastRender <= now /\ now # 0
      /\ draws \in Nat
  BY RenderLoopAssumption DEF TypeOK
<1>2. Age \in Nat
  BY <1>1, AgeSteps, RenderLoopAssumption DEF Age
<1>3. /\ now' = now /\ lastRender' = now /\ draws' = draws + 1 /\ sampled' = sampled
      /\ poll' = "select" /\ poll = "send"
  BY DEF Rendered
<1>4. AgeAtRender' = Age
  BY <1>1, <1>2, <1>3 DEF AgeAtRender, Age
<1>5. Age \div Floor \in Nat
  BY <1>1, <1>2, DivideBounds
<1>6. CASE draws = 0
  BY <1>1, <1>2, <1>3, <1>4, <1>5, <1>6 DEF BurstInv, ForKicks, None
<1>7. CASE draws > 0
  <2>1. AgeAtRender \in Nat /\ AgeAtRender <= Age /\ lastRender # None
    BY <1>1, <1>2, <1>7 DEF BurstInv, AgeAtRender
  <2>2. AgeAtRender \div Floor \in Nat /\ AgeAtRender \div Floor <= Age \div Floor
    BY <1>1, <1>2, <2>1, DivideBounds, FloorsGrow
  <2>3. CASE Spaced
    <3>1. AgeAtRender + Floor <= Age
      BY <1>1, <1>2, <2>1, <2>3 DEF Spaced, AgeAtRender
    <3>2. AgeAtRender \div Floor + 1 <= Age \div Floor
      BY <1>2, <2>1, <3>1, OneFloorMore
    <3> QED BY <1>1, <1>2, <1>3, <1>4, <1>5, <1>7, <2>2, <3>2 DEF BurstInv, ForKicks, None
  <2>4. CASE ~Spaced
    <3>1. ~sampled /\ draws <= AgeAtRender \div Floor + 1
      BY <1>3, <1>7, <2>4 DEF BurstInv, ForKicks
    <3> QED BY <1>1, <1>2, <1>3, <1>4, <1>5, <2>2, <3>1 DEF BurstInv, ForKicks, None
  <2> QED BY <2>3, <2>4
<1> QED BY <1>1, <1>6, <1>7

(* Only a new sample starts the count again; until then time adds to both ages. *)
LEMMA AdvanceBurst ==
  ASSUME TypeOK, BurstInv, Advance
  PROVE  BurstInv'
<1>1. now \in Nat /\ now' = now + 1 /\ lastRender' = lastRender /\ lastRender \in Nat
  BY DEF TypeOK, Advance
<1>2. poll' \notin {"gate", "draw", "send"}
  BY DEF Advance, Quiet
<1>3. CASE now' % Interval = 0
  <2>1. draws' = 0 /\ sampled' = TRUE
    BY <1>3 DEF Advance
  <2> QED BY <1>2, <2>1 DEF BurstInv, ForKicks
<1>4. CASE now' % Interval # 0
  <2>1. draws' = draws /\ sampled' = sampled
    BY <1>4 DEF Advance
  <2>2. Age' = Age + 1 /\ Age \in Nat
    <3>1. now % Interval \in Nat
      BY <1>1, AgeSteps, RenderLoopAssumption
    <3>2. (now + 1) % Interval = (now % Interval) + 1
      BY <1>1, <1>4, AgeSteps
    <3>3. Age' = (now + 1) % Interval
      BY <1>1 DEF Age
    <3> QED BY <3>1, <3>2, <3>3 DEF Age
  <2>3. AgeAtRender' = AgeAtRender
    BY <1>1, <2>2 DEF AgeAtRender
  <2> QED BY <1>1, <1>2, <2>1, <2>3 DEF BurstInv, ForKicks
<1> QED BY <1>3, <1>4

LEMMA BurstStep ==
  ASSUME TypeOK, IInv, BurstInv, [Next]_vars
  PROVE  BurstInv'
<1> DEFINE Same == UNCHANGED <<now, lastRender, draws>>
<1>1. ASSUME Same PROVE UNCHANGED <<Age, AgeAtRender, Spaced>>
  BY <1>1 DEF Age, AgeAtRender, Spaced
<1>2. CASE Rendered
  BY <1>2, RenderedBurst
<1>3. CASE Advance
  BY <1>3, AdvanceBurst
<1>4. CASE TakeSample
  <2>1. Same
    BY <1>4 DEF TakeSample
  <2>2. AgeAtRender' = AgeAtRender /\ Spaced' = Spaced /\ draws' = draws /\ lastRender' = lastRender
    BY <1>1, <2>1
  <2>3. sampled /\ ~sampled' /\ ForKicks /\ (draws > 0 => lastRender # None /\ AgeAtRender >= 0)
    BY <1>4 DEF TakeSample, BurstInv
  <2>4. draws > 0 => draws <= AgeAtRender \div Floor + 1 + 1
    <3> SUFFICES ASSUME draws > 0 PROVE draws <= AgeAtRender \div Floor + 1 + 1
      OBVIOUS
    <3>1. AgeAtRender \in Nat /\ draws \in Nat
      <4>1. Age \in Nat /\ now \in Nat /\ lastRender \in Nat
        BY AgeSteps, RenderLoopAssumption DEF Age, TypeOK
      <4> QED BY <2>3, <4>1 DEF AgeAtRender, TypeOK
    <3>2. AgeAtRender \div Floor \in Nat
      BY <3>1, DivideBounds, RenderLoopAssumption
    <3> QED BY <2>3, <3>1, <3>2 DEF ForKicks
  <2> QED BY <2>2, <2>3, <2>4 DEF BurstInv, ForKicks
<1>5. CASE TakeKick
  <2>1. Same /\ sampled' = sampled /\ poll' \in {"wait", "gate"}
    BY <1>5 DEF TakeKick
  <2>2. poll' = "gate" => Spaced
    <3>1. poll' = "gate" => ~(kickDelay(now, lastRender) > 0)
      BY <1>5 DEF TakeKick
    <3>2. now \in Nat /\ lastRender \in Nat /\ Floor \in Nat \ {0}
      BY RenderLoopAssumption DEF TypeOK
    <3> QED BY <3>1, <3>2 DEF kickDelay, Spaced
  <2> QED BY <1>1, <2>1, <2>2 DEF BurstInv, ForKicks
<1>6. CASE WaitOver
  <2>1. Same /\ sampled' = sampled /\ poll' = "gate"
    BY <1>6 DEF WaitOver
  <2>2. Spaced
    BY <1>6 DEF WaitOver, IInv, WaitInv, Spaced
  <2> QED BY <1>1, <2>1, <2>2 DEF BurstInv, ForKicks
<1>7. ASSUME Same, sampled' = sampled,
             poll' \in {"gate", "draw", "send"} => poll \in {"gate", "draw", "send"}
      PROVE  BurstInv'
  BY <1>1, <1>7 DEF BurstInv, ForKicks
<1>8. CASE \E s \in Sender : Change(s) \/ Connect(s) \/ Disconnect(s) \/ kick(s)
  BY <1>7, <1>8 DEF Change, Connect, Disconnect, kick
<1>9. CASE Gate \/ render \/ Stop \/ UNCHANGED vars
  BY <1>7, <1>9 DEF Gate, render, Stop, vars
<1> QED BY <1>2, <1>3, <1>4, <1>5, <1>6, <1>8, <1>9 DEF Next, Sender

(* However many kicks come and whenever, for every floor and every interval: between  *)
(* two sample signals no more is drawn than the floors that begin there, and once for *)
(* the sample (kickDelay).                                                            *)
THEOREM BurstsStayBounded == Spec => []BurstsAreBounded
<1>1. Init => BurstInv
  BY DEF Init, BurstInv, ForKicks, Spaced
<1>2. TypeOK /\ IInv /\ BurstInv /\ [Next]_vars => BurstInv'
  BY BurstStep
<1>3. TypeOK /\ BurstInv => BurstsAreBounded
  <2> SUFFICES ASSUME TypeOK, BurstInv PROVE BurstsAreBounded
    OBVIOUS
  <2>1. /\ Floor \in Nat \ {0} /\ Interval - 1 \in Nat /\ now \in Nat /\ lastRender \in Nat
        /\ lastRender <= now /\ draws \in Nat
    BY RenderLoopAssumption DEF TypeOK
  <2>2. (Interval - 1) \div Floor \in Nat
    BY <2>1, DivideBounds
  <2>3. CASE draws > 0
    <3>1. Age \in Nat /\ Age <= Interval - 1
      BY <2>1, AgeSteps DEF Age
    <3>2. AgeAtRender \in Nat /\ AgeAtRender <= Interval - 1
      BY <2>1, <2>3, <3>1 DEF BurstInv, AgeAtRender
    <3>3. AgeAtRender \div Floor \in Nat /\ AgeAtRender \div Floor <= (Interval - 1) \div Floor
      BY <2>1, <3>2, DivideBounds, FloorsGrow
    <3> QED BY <2>1, <2>2, <2>3, <3>3 DEF BurstInv, ForKicks, BurstsAreBounded
  <2> QED BY <2>1, <2>2, <2>3 DEF BurstsAreBounded
<1> QED BY <1>1, <1>2, <1>3, LoopInvariant, RenderLoopTypes, PTL DEF Spec

-----------------------------------------------------------------------------
(* Readings. *)

(* Every part of a reading has its range, and the kept rate spans some time. *)
ReadingInv == SamplingTypeOK /\ RateIsFinite

LEMMA ByteCount == Bytes \subseteq Nat /\ 0 \in Bytes /\ Size \in Nat
  BY SamplingAssumption

(* percent truncates: a share is at most the whole, and the whole only for the whole. *)
LEMMA PercentTruncates ==
  \A n \in 0..Size :
    percent(n, Size) \in Nat /\ percent(n, Size) <= 10000 /\ (percent(n, Size) = 10000 => n = Size)
<1> USE ByteCount
<1> TAKE n \in 0..Size
<1>1. CASE Size = 0
  BY <1>1 DEF percent
<1>2. CASE Size # 0
  <2> DEFINE q == (n * 10000) \div Size
  <2>1. n * 10000 \in Nat /\ Size \in Nat \ {0}
    BY <1>2
  <2>2. q \in Nat /\ Size * q <= n * 10000
    BY <2>1, DivideBounds
  <2>3. percent(n, Size) = q
    BY <1>2 DEF percent
  <2> HIDE DEF q
  <2>4. q <= 10000 /\ (q = 10000 => n = Size)
    BY <2>1, <2>2
  <2> QED BY <2>2, <2>3, <2>4
<1> QED BY <1>1, <1>2

(* A reading of a byte count, at a moment the clock has reached, leaves a mark the  *)
(* clock has reached, a share in hundredths and a rate over some time.              *)
LEMMA SampleKeeps ==
  ASSUME ReadingInv, NEW b \in Bytes, NEW at \in 0..now, sample(b, at)
  PROVE  /\ updatedAt' \in 0..now /\ Downloaded' \in Bytes
         /\ Percent' \in Nat /\ Percent' <= 10000
         /\ rate' \in [db : Int, dt : Int] /\ RateIsFinite'
<1> USE ByteCount DEF ReadingInv
<1>1. Percent' \in Nat /\ Percent' <= 10000
  BY SamplingAssumption, PercentTruncates DEF sample
<1>2. CASE updatedAt = None
  BY <1>1, <1>2 DEF sample, SamplingTypeOK, RateIsFinite
<1>3. CASE updatedAt # None /\ ~advances(at)
  BY <1>1, <1>3 DEF sample, SamplingTypeOK, RateIsFinite
<1>4. CASE updatedAt # None /\ advances(at)
  <2>1. at - updatedAt > 0 /\ at - updatedAt \in Int
    BY <1>4 DEF advances, SamplingTypeOK
  <2>2. b \in Nat /\ Downloaded \in Nat
    BY DEF SamplingTypeOK
  <2>3. rate' \in [db : Int, dt : Int] /\ RateIsFinite'
    BY <1>4, <2>1, <2>2 DEF sample, RateIsFinite, NoRate
  <2> QED BY <1>1, <1>4, <2>3 DEF sample
<1> QED BY <1>2, <1>3, <1>4

LEMMA InitReading == SamplingInit => ReadingInv
<1> SUFFICES ASSUME SamplingInit PROVE ReadingInv
  OBVIOUS
<1>1. now \in 1..MaxTime /\ tick \in 0..now /\ due \in 0..now /\ updatedAt \in 0..now
  BY SamplingAssumption DEF SamplingInit, None
<1>2. bytes \in Bytes /\ Downloaded \in Bytes /\ Percent \in Nat /\ Percent <= 10000
  BY ByteCount DEF SamplingInit
<1>3. rate \in [db : Int, dt : Int] /\ RateIsFinite
  BY DEF SamplingInit, RateIsFinite, NoRate
<1>4. torrent \in Stage
  BY DEF SamplingInit, Stage
<1> QED BY <1>1, <1>2, <1>3, <1>4 DEF ReadingInv, SamplingTypeOK

(* Whoever takes a reading, or finds no metadata to take it with. *)
LEMMA UpdateKeeps ==
  ASSUME ReadingInv, NEW b \in Bytes, NEW at \in 0..now, update(b, at)
  PROVE  /\ updatedAt' \in 0..now /\ Downloaded' \in Bytes
         /\ Percent' \in Nat /\ Percent' <= 10000
         /\ rate' \in [db : Int, dt : Int] /\ RateIsFinite'
<1>1. CASE torrent' = "loaded"
  <2>1. sample(b, at)
    BY <1>1 DEF update
  <2> QED BY <2>1, SampleKeeps
<1>2. CASE torrent' # "loaded"
  BY <1>2 DEF update, reading, ReadingInv, SamplingTypeOK, RateIsFinite
<1> QED BY <1>1, <1>2

LEMMA AddKeeps ==
  ASSUME SamplingTypeOK, AddTorrentSpec
  PROVE  torrent' \in Stage /\ bytes' \in Bytes
  BY DEF AddTorrentSpec, SamplingTypeOK, Stage

LEMMA StepReading == ReadingInv /\ [SamplingNext]_samplingVars => ReadingInv'
<1> SUFFICES ASSUME ReadingInv, [SamplingNext]_samplingVars PROVE ReadingInv'
  OBVIOUS
<1> USE ByteCount, SamplingAssumption DEF ReadingInv
<1>1. CASE SamplingAdvance
  BY <1>1 DEF SamplingAdvance, reading, SamplingTypeOK, RateIsFinite
<1>2. CASE TakeTick
  BY <1>2 DEF TakeTick, reading, SamplingTypeOK, RateIsFinite, None
<1>3. CASE refresh
  <2>1. due \in 0..now /\ bytes \in Bytes /\ update(bytes, due)
    BY <1>3 DEF refresh, SamplingTypeOK
  <2>2. /\ updatedAt' \in 0..now /\ Downloaded' \in Bytes
        /\ Percent' \in Nat /\ Percent' <= 10000
        /\ rate' \in [db : Int, dt : Int] /\ RateIsFinite'
    BY <2>1, UpdateKeeps
  <2> QED BY <1>3, <2>2 DEF refresh, SamplingTypeOK, None
<1>4. CASE GotInfo
  BY <1>4 DEF GotInfo, Stage, reading, SamplingTypeOK, RateIsFinite
<1>5. CASE Receive
  BY <1>5 DEF Receive, reading, SamplingTypeOK, RateIsFinite
<1>6. CASE addSpec
  <2>1. now \in 0..now /\ update(bytes', now) /\ AddTorrentSpec
    BY <1>6 DEF addSpec, SamplingTypeOK
  <2>2. torrent' \in Stage /\ bytes' \in Bytes
    BY <2>1, AddKeeps
  <2>3. /\ updatedAt' \in 0..now /\ Downloaded' \in Bytes
        /\ Percent' \in Nat /\ Percent' <= 10000
        /\ rate' \in [db : Int, dt : Int] /\ RateIsFinite'
    BY <2>1, <2>2, UpdateKeeps
  <2> QED BY <1>6, <2>2, <2>3 DEF addSpec, SamplingTypeOK
<1>7. CASE StopTorrent
  BY <1>7 DEF StopTorrent, Stage, reading, SamplingTypeOK, RateIsFinite
<1>8. CASE StartTorrent
  <2>1. torrent' \in Stage /\ bytes' \in Bytes
    BY <1>8, AddKeeps DEF StartTorrent
  <2> QED BY <1>8, <2>1 DEF StartTorrent, reading, SamplingTypeOK, RateIsFinite
<1>9. CASE DeleteTorrent
  <2>1. rate' \in [db : Int, dt : Int] /\ RateIsFinite'
    BY <1>9 DEF DeleteTorrent, NoRate, RateIsFinite
  <2> QED BY <1>9, <2>1 DEF DeleteTorrent, SamplingTypeOK, Stage, None
<1>10. CASE UNCHANGED samplingVars
  BY <1>10 DEF samplingVars, reading, SamplingTypeOK, RateIsFinite
<1> QED BY <1>1, <1>2, <1>3, <1>4, <1>5, <1>6, <1>7, <1>8, <1>9, <1>10 DEF SamplingNext

LEMMA ReadingInvariant == SamplingSpec => []ReadingInv
<1> QED BY InitReading, StepReading, PTL DEF SamplingSpec

(* Every field of the torrent's readings keeps its range, the share included *)
(* (torrentState.sample, percent).                                           *)
THEOREM SamplingTypes == SamplingSpec => []SamplingTypeOK
<1>1. ReadingInv => SamplingTypeOK
  BY DEF ReadingInv
<1> QED BY <1>1, ReadingInvariant, PTL

(* No tick, however late the sampler gets mu and whether or not it takes the first *)
(* reading of a torrent whose metadata has just arrived, divides by an empty or    *)
(* negative span (sample's guard on elapsed time).                                 *)
THEOREM RateAlwaysFinite == SamplingSpec => []RateIsFinite
<1>1. ReadingInv => RateIsFinite
  BY DEF ReadingInv
<1> QED BY <1>1, ReadingInvariant, PTL

(* The mark, the byte count and the rate change as one, and the mark only forward, until *)
(* the torrent is deleted (sample, whoever calls it and in whatever order, the first      *)
(* reading included, which a late tick takes as often as addSpec does).                   *)
THEOREM ReadingsAreWhole == SamplingSpec => OneSample
<1> DEFINE Whole ==
      torrent' # "none" =>
        /\ updatedAt' >= updatedAt
        /\ updatedAt' = updatedAt => Downloaded' = Downloaded /\ rate' = rate
<1>1. ReadingInv /\ [SamplingNext]_samplingVars => [Whole]_samplingVars
  <2> SUFFICES ASSUME ReadingInv, SamplingNext PROVE Whole
    BY DEF samplingVars
  <2>1. now \in Nat /\ now >= 1 /\ updatedAt \in 0..now /\ due \in 0..now
    BY SamplingAssumption DEF ReadingInv, SamplingTypeOK
  <2>2. ASSUME NEW b, NEW at \in 1..now, update(b, at) PROVE Whole
    <3>1. CASE torrent' = "loaded"
      BY <2>1, <2>2, <3>1 DEF update, sample, advances, None
    <3>2. CASE torrent' # "loaded"
      BY <2>1, <2>2, <3>2 DEF update, reading
    <3> QED BY <3>1, <3>2
  <2>3. CASE refresh
    <3>1. due \in 1..now
      BY <2>1, <2>3 DEF refresh, None
    <3> QED BY <2>2, <2>3, <3>1 DEF refresh
  <2>4. CASE addSpec
    <3>1. now \in 1..now
      BY <2>1
    <3> QED BY <2>2, <2>4, <3>1 DEF addSpec
  <2>5. CASE UNCHANGED reading \/ torrent' = "none"
    BY <2>1, <2>5 DEF reading
  <2> QED
    BY <2>3, <2>4, <2>5
    DEF SamplingNext, SamplingAdvance, TakeTick, GotInfo, Receive, StopTorrent, StartTorrent,
        DeleteTorrent
<1> QED BY <1>1, ReadingInvariant, PTL DEF SamplingSpec, OneSample

(* A share never rounds up to 100.00%, for a torrent of any size (percent). *)
THEOREM CompleteOnlyWhenWhole == SamplingSpec => CompleteIsComplete
<1> DEFINE Full == Percent' = 10000 /\ Percent # 10000 => bytes' = Size
<1>1. ReadingInv /\ [SamplingNext]_samplingVars => [Full]_samplingVars
  <2> SUFFICES ASSUME ReadingInv, SamplingNext PROVE Full
    BY DEF samplingVars
  <2>1. ASSUME NEW b \in Bytes, NEW at, update(b, at), Percent' = 10000, Percent # 10000
        PROVE  b = Size
    <3>1. sample(b, at)
      BY <2>1 DEF update, reading
    <3>2. b \in 0..Size /\ percent(b, Size) = 10000
      BY <2>1, <3>1, SamplingAssumption DEF sample
    <3> QED BY <3>2, SamplingAssumption, PercentTruncates
  <2>2. CASE refresh
    <3>1. bytes \in Bytes /\ bytes' = bytes
      BY <2>2 DEF refresh, ReadingInv, SamplingTypeOK
    <3> QED BY <2>1, <2>2, <3>1 DEF refresh
  <2>3. CASE addSpec
    <3>1. bytes' \in Bytes
      BY <2>3, AddKeeps DEF addSpec, ReadingInv
    <3> QED BY <2>1, <2>3, <3>1 DEF addSpec
  <2>4. CASE Percent' = Percent \/ Percent' = 0
    BY <2>4
  <2> QED
    BY <2>2, <2>3, <2>4
    DEF SamplingNext, SamplingAdvance, TakeTick, GotInfo, Receive, StopTorrent, StartTorrent,
        DeleteTorrent, reading
<1> QED BY <1>1, ReadingInvariant, PTL DEF SamplingSpec, CompleteIsComplete
=============================================================================
