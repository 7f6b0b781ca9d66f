--------------------------- MODULE SessionsProofs ---------------------------
(***************************************************************************)
(* Proofs about Sessions, for any clock, any lifetimes, any number of      *)
(* processes and any number of messages under way.                         *)
(***************************************************************************)
EXTENDS Sessions, TLAPS

(* Every cookie the browser holds or has under way. *)
Cookies ==
  {cookie} \cup {q.cookie : q \in requests} \cup UNION {a.set : a \in answers}

(* A cookie's key is of this process or an earlier one. *)
KeysArePast == \A c \in Cookies : c.key <= process

(* A cookie of this process was issued by a request it served. *)
IssuedByService == \A c \in Cookies : c.key = process => c.expiry <= lastServed + sessionTTL

IInv == TypeOK /\ KeysArePast /\ IssuedByService

(* Whole seconds are rounded down: a token never outlives the TTL. *)
LEMMA UnixRoundsDown ==
  ASSUME NEW t \in Nat
  PROVE  Unix(t) \in Nat /\ Unix(t) <= t
<1>1. Second \in Nat \ {0}
  BY SessionsAssumption
<1>2. t % Second \in 0..(Second - 1)
  BY <1>1
<1>3. t % Second <= t
  BY <1>1
<1> QED
  BY <1>2, <1>3 DEF Unix

(* A new token is of this process and lasts a TTL from now at most. *)
LEMMA IssueTypes ==
  ASSUME TypeOK
  PROVE  issue \in Cookie /\ issue.key = process /\ issue.expiry <= now + sessionTTL
<1>1. now + sessionTTL \in Nat
  BY SessionsAssumption DEF TypeOK
<1> QED
  BY <1>1, UnixRoundsDown DEF issue, Cookie, TypeOK

(* ServeHTTP answers with a status and at most one cookie; only a served request is   *)
(* issued one, and who proved nothing is served for a token that verifies.            *)
LEMMA ServeHTTPAnswers ==
  ASSUME IInv, NEW q \in requests, NEW a \in ServeHTTP(q)
  PROVE  /\ a[1] \in {200, 401, 500}
         /\ a[2] \in SUBSET {issue, NoCookie}
         /\ issue \in a[2] => a[1] = 200
         /\ a[1] = 200 /\ ~q.proven => verify(q.cookie)
<1>1. CASE verify(q.cookie)
  <2>1. PICK s \in SUBSET {issue} : a = <<200, s>>
    BY <1>1 DEF ServeHTTP, Issued
  <2> QED BY <1>1, <2>1
<1>2. CASE ~verify(q.cookie) /\ q.proven
  <2>1. PICK s \in Issued : a = <<IF s = {} THEN 500 ELSE 200, s>>
    BY <1>2 DEF ServeHTTP
  <2>2. CASE s = {issue}
    <3>1. a = <<200, {issue}>>
      BY <2>1, <2>2
    <3> QED BY <1>2, <3>1
  <2>3. CASE s = {}
    <3>1. a = <<500, {}>>
      BY <2>1, <2>3
    <3> QED BY <1>2, <3>1
  <2> QED BY <2>1, <2>2, <2>3 DEF Issued
<1>3. CASE ~verify(q.cookie) /\ ~q.proven
  <2>1. a = <<401, {NoCookie}>>
    BY <1>3 DEF ServeHTTP
  <2>2. issue # NoCookie
    BY DEF issue, NoCookie, IInv, TypeOK
  <2>3. a[1] = 401 /\ a[2] = {NoCookie}
    BY <2>1
  <2> QED BY <1>3, <2>2, <2>3
<1> QED BY <1>1, <1>2, <1>3

-----------------------------------------------------------------------------
LEMMA InitEstablishes == Init => IInv
<1> SUFFICES ASSUME Init PROVE IInv
  OBVIOUS
<1> USE SessionsAssumption DEF Init, LongAgo
<1>1. TypeOK
  <2>1. lastServed \in Int /\ lastServed <= now
    OBVIOUS
  <2>2. cookie \in Cookie /\ now \in Nat /\ process \in 1..MaxProcess /\ sentAt \in 0..now
    BY DEF Cookie
  <2> QED BY <2>1, <2>2 DEF TypeOK
<1>2. Cookies = {NoCookie}
  BY DEF Cookies
<1> QED BY <1>1, <1>2 DEF IInv, KeysArePast, IssuedByService, NoCookie

(* Cookies that move about stay as they are, and lastServed only grows in a process. *)
LEMMA CookiesKept ==
  ASSUME IInv, process' = process, lastServed' \in Int, lastServed' >= lastServed,
         Cookies' \subseteq Cookies
  PROVE  KeysArePast' /\ IssuedByService'
<1>1. \A c \in Cookies : c \in Cookie
  BY DEF Cookies, IInv, TypeOK, Request, Answer
<1>2. \A c \in Cookies : c.expiry \in Nat
  BY <1>1 DEF Cookie, NoCookie
<1> QED
  BY <1>2, SessionsAssumption DEF IInv, KeysArePast, IssuedByService, TypeOK

LEMMA HandleKeeps ==
  ASSUME IInv, NEW q \in requests, Handle(q)
  PROVE  IInv'
<1> USE SessionsAssumption
<1>1. PICK a \in ServeHTTP(q) :
        /\ answers' = answers \cup
             {[status |-> a[1], set |-> a[2], proven |-> q.proven, at |-> now,
               active |-> q.active /\ active]}
        /\ lastServed' = IF a[1] = 200 THEN now ELSE lastServed
        /\ active' = (active /\ (due(q.cookie) => a[2] # {}))
  BY DEF Handle
<1>2. /\ a[1] \in {200, 401, 500} /\ a[2] \in SUBSET {issue, NoCookie}
      /\ (issue \in a[2] => a[1] = 200)
  BY <1>1, ServeHTTPAnswers
<1>3. issue \in Cookie /\ issue.key = process /\ issue.expiry <= now + sessionTTL
  BY IssueTypes DEF IInv
<1>4. lastServed' \in Int /\ lastServed' >= lastServed /\ lastServed' <= now
  BY <1>1 DEF IInv, TypeOK
<1>5. UNCHANGED <<now, process, cookie, sentAt>> /\ requests' = requests \ {q}
  BY DEF Handle
<1>6. TypeOK'
  <2>1. answers' \subseteq Answer
    <3>1. a[2] \subseteq Cookie
      BY <1>2, <1>3 DEF Cookie
    <3>2. q.proven \in BOOLEAN /\ (q.active /\ active) \in BOOLEAN /\ now \in Nat
      BY DEF IInv, TypeOK, Request
    <3>3. [status |-> a[1], set |-> a[2], proven |-> q.proven, at |-> now,
           active |-> q.active /\ active] \in Answer
      BY <1>2, <3>1, <3>2 DEF Answer
    <3> QED BY <1>1, <3>3 DEF IInv, TypeOK
  <2>2. active' \in BOOLEAN
    BY <1>1
  <2> QED BY <1>4, <1>5, <2>1, <2>2 DEF IInv, TypeOK
<1>7. Cookies' \subseteq Cookies \cup a[2]
  <2>1. \A b \in answers' : b.set \subseteq Cookies \cup a[2]
    BY <1>1 DEF Cookies
  <2> QED BY <1>5, <2>1 DEF Cookies
<1>8. \A c \in Cookies : c \in Cookie
  BY DEF Cookies, IInv, TypeOK, Request, Answer
<1>9. ASSUME NEW c \in Cookies'
      PROVE  c.key <= process' /\ (c.key = process' => c.expiry <= lastServed' + sessionTTL)
  <2>1. CASE c \in Cookies
    <3>1. c.expiry \in Nat
      BY <1>8, <2>1 DEF Cookie, NoCookie
    <3> QED
      BY <1>4, <1>5, <2>1, <3>1 DEF IInv, KeysArePast, IssuedByService, TypeOK
  <2>2. CASE c = issue /\ issue \in a[2]
    BY <1>1, <1>2, <1>3, <1>5, <2>2 DEF IInv, TypeOK
  <2>3. CASE c = NoCookie
    BY <1>5, <2>3 DEF NoCookie, IInv, TypeOK
  <2> QED BY <1>2, <1>7, <2>1, <2>2, <2>3
<1> QED BY <1>6, <1>9 DEF IInv, KeysArePast, IssuedByService

LEMMA SendKeeps ==
  ASSUME IInv, NEW proven \in BOOLEAN, Send(proven)
  PROVE  IInv'
<1>1. TypeOK'
  BY DEF Send, IInv, TypeOK, Request
<1>2. Cookies' \subseteq Cookies
  BY DEF Send, Cookies
<1>3. process' = process /\ lastServed' = lastServed /\ lastServed \in Int
  BY DEF Send, IInv, TypeOK
<1> QED BY <1>1, <1>2, <1>3, CookiesKept DEF IInv

LEMMA ReceiveKeeps ==
  ASSUME IInv, NEW a \in answers, Receive(a)
  PROVE  IInv'
<1>1. cookie' \in {cookie} \cup a.set
  BY DEF Receive
<1>2. a.set \subseteq Cookie
  BY DEF IInv, TypeOK, Answer
<1>3. TypeOK'
  <2>1. active' \in BOOLEAN
    <3>1. active \in BOOLEAN
      BY DEF IInv, TypeOK
    <3> QED BY <3>1 DEF Receive
  <2>2. cookie' \in Cookie
    BY <1>1, <1>2 DEF IInv, TypeOK
  <2> QED BY <2>1, <2>2 DEF Receive, IInv, TypeOK
<1>4. Cookies' \subseteq Cookies
  BY <1>1 DEF Receive, Cookies
<1>5. process' = process /\ lastServed' = lastServed /\ lastServed \in Int
  BY DEF Receive, IInv, TypeOK
<1> QED BY <1>3, <1>4, <1>5, CookiesKept DEF IInv

LEMMA RestartKeeps ==
  ASSUME IInv, Restart
  PROVE  IInv'
<1> USE SessionsAssumption DEF LongAgo
<1>1. TypeOK'
  <2>1. lastServed' \in Int /\ lastServed' <= now'
    BY DEF Restart, IInv, TypeOK
  <2>2. process' \in 1..MaxProcess
    BY DEF Restart, IInv, TypeOK
  <2> QED BY <2>1, <2>2 DEF Restart, IInv, TypeOK
<1>2. Cookies' = Cookies
  BY DEF Restart, Cookies
<1>3. \A c \in Cookies : c.key \in Nat /\ c.key <= process
  BY DEF IInv, KeysArePast, Cookies, TypeOK, Request, Answer, Cookie, NoCookie
<1>4. \A c \in Cookies : c.key <= process' /\ c.key # process'
  BY <1>3 DEF Restart, IInv, TypeOK
<1> QED BY <1>1, <1>2, <1>4 DEF IInv, KeysArePast, IssuedByService

LEMMA StepKeeps ==
  ASSUME IInv, [Next]_vars
  PROVE  IInv'
<1> USE DEF IInv
<1>1. CASE \E proven \in BOOLEAN : Send(proven)
  BY <1>1, SendKeeps
<1>2. CASE \E q \in requests : Handle(q)
  BY <1>2, HandleKeeps
<1>3. CASE \E a \in answers : Receive(a)
  BY <1>3, ReceiveKeeps
<1>4. CASE \E m \in requests \cup answers : Lose(m)
  <2>1. Cookies' \subseteq Cookies /\ TypeOK' /\ process' = process /\ lastServed' = lastServed
    BY <1>4 DEF Lose, Cookies, TypeOK
  <2> QED BY <2>1, CookiesKept DEF TypeOK
<1>5. CASE Expire
  <2>1. cookie' = NoCookie /\ UNCHANGED <<now, process, requests, answers, lastServed, sentAt, active>>
    BY <1>5 DEF Expire
  <2>2. TypeOK'
    BY <2>1 DEF TypeOK, Cookie
  <2>3. Cookies' \subseteq Cookies \cup {NoCookie}
    BY <2>1 DEF Cookies
  <2>4. NoCookie.key = 0 /\ process' = process /\ process \in Nat /\ process # 0
    BY <2>1, SessionsAssumption DEF NoCookie, TypeOK
  <2> QED BY <2>1, <2>2, <2>3, <2>4 DEF KeysArePast, IssuedByService
<1>6. CASE Restart
  BY <1>6, RestartKeeps
<1>7. CASE Tick
  <2>1. Cookies' = Cookies /\ TypeOK' /\ process' = process /\ lastServed' = lastServed
    BY <1>7 DEF Tick, Cookies, TypeOK
  <2> QED BY <2>1, CookiesKept DEF TypeOK
<1>8. CASE UNCHANGED vars
  BY <1>8 DEF vars, TypeOK, KeysArePast, IssuedByService, Cookies
<1> QED BY <1>1, <1>2, <1>3, <1>4, <1>5, <1>6, <1>7, <1>8 DEF Next

-----------------------------------------------------------------------------
(* The invariant: keys are past, and a cookie of this process lasts no longer than a  *)
(* TTL after the last request it served.                                              *)
THEOREM SessionsInvariant == Spec => []IInv
<1>1. Init => IInv
  BY InitEstablishes
<1>2. IInv /\ [Next]_vars => IInv'
  BY StepKeeps
<1> QED BY <1>1, <1>2, PTL DEF Spec

(* Type correctness. *)
THEOREM SessionsTypes == Spec => []TypeOK
<1>1. IInv => TypeOK
  BY DEF IInv
<1> QED BY <1>1, SessionsInvariant, PTL

(* Who proves nothing is served only within a TTL of a request this process served    *)
(* before.                                                                            *)
LEMMA StepServesTheRecent ==
  ASSUME IInv, [Next]_vars,
         NEW a \in answers' \ answers, a.status = 200, ~a.proven
  PROVE  now - lastServed < sessionTTL
<1>1. PICK q \in requests : Handle(q)
  <2>1. ~ UNCHANGED answers
    OBVIOUS
  <2>2. CASE \E b \in answers : Receive(b)
    BY <2>2 DEF Receive
  <2>3. CASE \E m \in requests \cup answers : Lose(m)
    BY <2>3 DEF Lose
  <2>4. CASE (\E proven \in BOOLEAN : Send(proven)) \/ Expire \/ Restart \/ Tick
    BY <2>1, <2>4 DEF Send, Expire, Restart, Tick
  <2> QED BY <2>1, <2>2, <2>3, <2>4 DEF Next, vars
<1>2. PICK b \in ServeHTTP(q) : a.status = b[1] /\ a.proven = q.proven
  BY <1>1 DEF Handle
<1>3. verify(q.cookie)
  BY <1>2, ServeHTTPAnswers
<1>4. q.cookie \in Cookies
  BY DEF Cookies
<1>5. q.cookie.expiry <= lastServed + sessionTTL
  BY <1>3, <1>4 DEF IInv, IssuedByService, verify
<1>6. q.cookie.expiry \in Nat
  BY DEF IInv, TypeOK, Request, Cookie, NoCookie
<1> QED BY <1>3, <1>5, <1>6, SessionsAssumption DEF verify, IInv, TypeOK

(* An idle session expires, and no session outlives its process. *)
THEOREM IdleSessionsExpire == Spec => IdleExpires
<1>1. IInv /\ [Next]_vars =>
        [\A a \in answers' \ answers :
           a.status = 200 /\ ~a.proven => now - lastServed < sessionTTL]_vars
  BY StepServesTheRecent
<1> QED BY <1>1, SessionsInvariant, PTL DEF Spec, IdleExpires

-----------------------------------------------------------------------------
(* The active browser.  It may hold a cookie that is due, as long as a renewal is on   *)
(* its way; and it may hold one it got from an answer that was overtaken, which then   *)
(* was issued no more than Delay ago.                                                  *)

(* A cookie is fresh as of t when, Delay before t, it was not due. *)
Fresh(c, t) == c.expiry >= t - Delay + (sessionTTL - refreshAfter)

(* While a browser is active nothing under way is late, and nothing is from before it  *)
(* was.                                                                                *)
OnTime ==
  /\ now <= sentAt + Gap
  /\ \A m \in requests \cup answers : m.active /\ m.at <= now /\ now <= m.at + Delay

(* Every cookie the browser holds, sends or gets is of this process. *)
OfThisProcess ==
  /\ cookie.key = process
  /\ \A q \in requests : q.cookie.key = process
  /\ \A a \in answers : \A c \in a.set : c.key = process

(* What the browser holds is what it sent, or newer than the request that sent it. *)
HeldSince == \A q \in requests : cookie = q.cookie \/ Fresh(cookie, q.at)

(* A request that was sent will be served whenever it arrives. *)
SentInTime == \A q \in requests : now <= q.at + Delay => q.cookie.expiry > q.at + Delay

(* The cookie is fresh as of the last request; or the first request after the time it  *)
(* is fresh as of is under way, or the renewal it was answered with.                   *)
Renewed ==
  \/ Fresh(cookie, sentAt)
  \/ \E q \in requests : ~Fresh(cookie, q.at) /\ Fresh(cookie, q.at - Gap)
  \/ \E a \in answers : a.set # {} /\ Fresh(cookie, a.at - Delay - Gap)

(* An answer's cookie is as good as new when it was sent. *)
SetIsFresh ==
  \A a \in answers : \A c \in a.set : c # NoCookie => Fresh(c, a.at + Delay)

ActiveInv ==
  /\ SetIsFresh
  /\ ActiveNeverAsked
  /\ active => OnTime /\ OfThisProcess /\ HeldSince /\ SentInTime /\ Renewed

(* The numbers the proofs below compute with. *)
LEMMA Numbers ==
  ASSUME TypeOK
  PROVE  /\ now \in Nat /\ sentAt \in Nat /\ sentAt <= now
         /\ process \in Nat /\ process # 0
         /\ \A c \in Cookie : c.expiry \in Nat
         /\ cookie \in Cookie
         /\ \A q \in requests : q.at \in Nat /\ q.cookie \in Cookie
         /\ \A a \in answers : a.at \in Nat /\ a.set \subseteq Cookie
  BY SessionsAssumption DEF TypeOK, Cookie, NoCookie, Request, Answer

(* A new token is fresh as of a Delay from now: rounding takes less than refreshAfter. *)
LEMMA IssueFresh ==
  ASSUME TypeOK
  PROVE  Fresh(issue, now + Delay)
<1> USE SessionsAssumption
<1>1. now + sessionTTL \in Nat
  BY DEF TypeOK
<1>2. (now + sessionTTL) % Second \in 0..(Second - 1)
  BY <1>1
<1>3. issue.expiry = Unix(now + sessionTTL)
  BY DEF issue
<1>4. issue.expiry >= now + sessionTTL - refreshAfter
  BY <1>1, <1>2, <1>3 DEF TypeOK, Unix
<1> QED
  BY <1>4 DEF Fresh, TypeOK

(* Freshness as of a time is freshness as of every earlier one. *)
LEMMA FreshBefore ==
  ASSUME NEW c \in Cookie, NEW t \in Int, NEW u \in Int, u <= t, Fresh(c, t)
  PROVE  Fresh(c, u)
<1>1. c.expiry \in Nat
  BY DEF Cookie, NoCookie
<1> QED
  BY <1>1, SessionsAssumption DEF Fresh

(* What an active browser would send now lasts longer than the request is under way:   *)
(* a gap and a renewal, each request and answer of which takes a Delay, fit into the   *)
(* time from being due to expiring.                                                    *)
LEMMA ActiveCookieLasts ==
  ASSUME IInv, ActiveInv, active
  PROVE  cookie.expiry > now + Delay
<1> USE SessionsAssumption
<1>1. OnTime /\ Renewed /\ TypeOK
  BY DEF ActiveInv, IInv
<1>2. cookie.expiry \in Nat /\ now \in Nat /\ sentAt \in Nat
  BY <1>1, Numbers
<1>3. CASE Fresh(cookie, sentAt)
  BY <1>1, <1>2, <1>3 DEF Fresh, OnTime
<1>4. ASSUME NEW q \in requests, Fresh(cookie, q.at - Gap)
      PROVE  cookie.expiry > now + Delay
  <2>1. q.at \in Nat /\ now <= q.at + Delay
    BY <1>1, Numbers DEF OnTime
  <2> QED BY <1>2, <1>4, <2>1 DEF Fresh
<1>5. ASSUME NEW a \in answers, Fresh(cookie, a.at - Delay - Gap)
      PROVE  cookie.expiry > now + Delay
  <2>1. a.at \in Nat /\ now <= a.at + Delay
    BY <1>1, Numbers DEF OnTime
  <2> QED BY <1>2, <1>5, <2>1 DEF Fresh
<1> QED BY <1>1, <1>3, <1>4, <1>5 DEF Renewed

(* The request of an active browser verifies. *)
LEMMA ActiveVerifies ==
  ASSUME IInv, ActiveInv, active, NEW q \in requests
  PROVE  verify(q.cookie)
<1>1. OnTime /\ OfThisProcess /\ SentInTime
  BY DEF ActiveInv
<1>2. now \in Nat /\ q.at \in Nat /\ q.cookie.expiry \in Nat /\ now <= q.at + Delay
  BY <1>1, Numbers DEF OnTime, IInv
<1>3. q.cookie.expiry > q.at + Delay
  BY <1>1, <1>2 DEF SentInTime
<1> QED
  BY <1>1, <1>2, <1>3, SessionsAssumption DEF OfThisProcess, verify

LEMMA SendStaysActive ==
  ASSUME IInv, ActiveInv, NEW proven \in BOOLEAN, Send(proven)
  PROVE  ActiveInv'
<1> USE SessionsAssumption
<1> DEFINE new == [cookie |-> cookie, proven |-> proven, at |-> now, active |-> active]
<1>1. /\ requests' = requests \cup {new} /\ sentAt' = now
      /\ UNCHANGED <<now, process, cookie, answers, active>>
  BY DEF Send
<1>2. SetIsFresh' /\ ActiveNeverAsked'
  BY <1>1 DEF ActiveInv, SetIsFresh, ActiveNeverAsked, Fresh
<1>3. ASSUME active
      PROVE  OnTime' /\ OfThisProcess' /\ HeldSince' /\ SentInTime' /\ Renewed'
  <2>1. OnTime /\ OfThisProcess /\ HeldSince /\ SentInTime /\ Renewed
    BY <1>3 DEF ActiveInv
  <2>2. /\ now \in Nat /\ sentAt \in Nat /\ cookie \in Cookie
        /\ cookie.expiry > now + Delay
    BY <1>3, ActiveCookieLasts, Numbers DEF IInv
  <2>3. new.cookie = cookie /\ new.at = now /\ new.active
    BY <1>3
  <2> HIDE DEF new
  <2>4. OnTime'
    BY <1>1, <2>1, <2>2, <2>3 DEF OnTime
  <2>5. OfThisProcess'
    BY <1>1, <2>1, <2>3 DEF OfThisProcess
  <2>6. HeldSince'
    BY <1>1, <2>1, <2>3 DEF HeldSince, Fresh
  <2>7. SentInTime'
    BY <1>1, <2>1, <2>2, <2>3 DEF SentInTime
  <2>8. Renewed'
    <3>1. CASE Fresh(cookie, now)
      BY <1>1, <3>1 DEF Renewed, Fresh
    <3>2. CASE ~Fresh(cookie, now) /\ Fresh(cookie, sentAt)
      <4>1. Fresh(cookie, now - Gap)
        BY <2>1, <2>2, <3>2, FreshBefore DEF OnTime
      <4>2. new \in requests' /\ ~Fresh(cookie, new.at) /\ Fresh(cookie, new.at - Gap)
        BY <1>1, <2>3, <3>2, <4>1
      <4> QED BY <1>1, <4>2 DEF Renewed, Fresh
    <3>3. CASE ~Fresh(cookie, sentAt)
      BY <1>1, <2>1, <3>3 DEF Renewed, Fresh
    <3> QED BY <3>1, <3>2, <3>3
  <2> QED BY <2>4, <2>5, <2>6, <2>7, <2>8
<1> QED BY <1>1, <1>2, <1>3 DEF ActiveInv

LEMMA HandleStaysActive ==
  ASSUME IInv, ActiveInv, NEW q \in requests, Handle(q)
  PROVE  ActiveInv'
<1> USE SessionsAssumption
<1>1. PICK a \in ServeHTTP(q) :
        /\ answers' = answers \cup
             {[status |-> a[1], set |-> a[2], proven |-> q.proven, at |-> now,
               active |-> q.active /\ active]}
        /\ active' = (active /\ (due(q.cookie) => a[2] # {}))
  BY DEF Handle
<1>2. UNCHANGED <<now, process, cookie, sentAt>> /\ requests' = requests \ {q}
  BY DEF Handle
<1>3. a[2] \subseteq {issue, NoCookie} /\ Fresh(issue, now + Delay) /\ issue.key = process
  BY <1>1, ServeHTTPAnswers, IssueFresh, IssueTypes DEF IInv
<1> DEFINE new == [status |-> a[1], set |-> a[2], proven |-> q.proven, at |-> now,
                   active |-> q.active /\ active]
<1>4. /\ new.status = a[1] /\ new.set = a[2] /\ new.at = now
      /\ new.active <=> q.active /\ active
  OBVIOUS
<1>5. answers' = answers \cup {new}
  BY <1>1
<1> HIDE DEF new
<1>6. SetIsFresh'
  BY <1>2, <1>3, <1>4, <1>5 DEF ActiveInv, SetIsFresh, Fresh
<1>7. ASSUME active
      PROVE  a[1] = 200 /\ a[2] \subseteq {issue}
  BY <1>1, <1>7, ActiveVerifies DEF ServeHTTP, Issued
<1>8. ActiveNeverAsked'
  BY <1>4, <1>5, <1>7 DEF ActiveInv, ActiveNeverAsked
<1>9. ASSUME active'
      PROVE  OnTime' /\ OfThisProcess' /\ HeldSince' /\ SentInTime' /\ Renewed'
  <2>1. active /\ (due(q.cookie) => a[2] # {})
    BY <1>1, <1>9
  <2>2. OnTime /\ OfThisProcess /\ HeldSince /\ SentInTime /\ Renewed
    BY <2>1 DEF ActiveInv
  <2>3. now \in Nat /\ q.at \in Nat /\ cookie \in Cookie /\ cookie.expiry \in Nat
    BY Numbers DEF IInv
  <2>4. q.active /\ q.at <= now /\ now <= q.at + Delay
    BY <2>2 DEF OnTime
  <2>5. OnTime'
    BY <1>2, <1>4, <1>5, <2>1, <2>2, <2>3, <2>4 DEF OnTime
  <2>6. OfThisProcess'
    BY <1>2, <1>3, <1>4, <1>5, <1>7, <2>1, <2>2 DEF OfThisProcess
  <2>7. HeldSince' /\ SentInTime'
    BY <1>2, <2>2 DEF HeldSince, SentInTime, Fresh
  <2>8. Renewed'
    <3>1. CASE ~Fresh(cookie, q.at) /\ Fresh(cookie, q.at - Gap)
      <4>1. cookie = q.cookie
        BY <2>2, <3>1 DEF HeldSince
      <4>2. cookie.expiry - now < sessionTTL - refreshAfter
        BY <2>3, <2>4, <3>1 DEF Fresh
      <4>3. a[2] # {}
        BY <2>1, <4>1, <4>2 DEF due
      <4>4. Fresh(cookie, now - Delay - Gap)
        BY <2>3, <2>4, <3>1, FreshBefore
      <4>5. new \in answers' /\ new.set # {} /\ Fresh(cookie, new.at - Delay - Gap)
        BY <1>4, <1>5, <4>3, <4>4
      <4> QED BY <1>2, <4>5 DEF Renewed, Fresh
    <3>2. CASE ~(~Fresh(cookie, q.at) /\ Fresh(cookie, q.at - Gap))
      BY <1>2, <1>5, <2>2, <3>2 DEF Renewed, Fresh
    <3> QED BY <3>1, <3>2
  <2> QED BY <2>5, <2>6, <2>7, <2>8
<1> QED BY <1>6, <1>8, <1>9 DEF ActiveInv

LEMMA ReceiveStaysActive ==
  ASSUME IInv, ActiveInv, NEW a \in answers, Receive(a)
  PROVE  ActiveInv'
<1> USE SessionsAssumption
<1>1. /\ answers' = answers \ {a} /\ UNCHANGED <<now, process, requests, sentAt>>
      /\ a.set = {} => cookie' = cookie
      /\ a.set # {} => cookie' \in a.set
  BY DEF Receive
<1>2. SetIsFresh' /\ ActiveNeverAsked'
  BY <1>1 DEF ActiveInv, SetIsFresh, ActiveNeverAsked, Fresh
<1>3. /\ now \in Nat /\ a.at \in Nat /\ sentAt \in Nat /\ sentAt <= now
      /\ process # 0 /\ a.set \subseteq Cookie
      /\ \A q \in requests : q.at \in Nat
  BY Numbers DEF IInv
(* The cookie an answer sets, when it is one of this process and not late. *)
<1>4. ASSUME a.set # {}, cookie'.key = process, now <= a.at + Delay, NEW t \in Nat, t <= now
      PROVE  Fresh(cookie', t)
  <2>1. cookie' # NoCookie
    BY <1>3, <1>4 DEF NoCookie
  <2>2. Fresh(cookie', a.at + Delay)
    BY <1>1, <1>4, <2>1 DEF ActiveInv, SetIsFresh
  <2> QED
    BY <1>1, <1>3, <1>4, <2>2, FreshBefore
<1>5. ASSUME active
      PROVE  OnTime' /\ OfThisProcess' /\ HeldSince' /\ SentInTime' /\ Renewed'
  <2>1. OnTime /\ OfThisProcess /\ HeldSince /\ SentInTime /\ Renewed
    BY <1>5 DEF ActiveInv
  <2>2. OnTime' /\ SentInTime'
    BY <1>1, <2>1 DEF OnTime, SentInTime
  <2>3. CASE a.set = {}
    <3>1. OfThisProcess' /\ HeldSince'
      BY <1>1, <2>1, <2>3 DEF OfThisProcess, HeldSince, Fresh
    <3>2. Renewed'
      BY <1>1, <2>1, <2>3 DEF Renewed, Fresh
    <3> QED BY <2>2, <3>1, <3>2
  <2>4. CASE a.set # {}
    <3>1. cookie'.key = process /\ now <= a.at + Delay
      BY <1>1, <2>1, <2>4 DEF OfThisProcess, OnTime
    <3>2. OfThisProcess'
      BY <1>1, <2>1, <3>1 DEF OfThisProcess
    <3>3. \A t \in Nat : t <= now => Fresh(cookie', t)
      BY <1>4, <2>4, <3>1
    <3>4. \A q \in requests : Fresh(cookie', q.at)
      BY <1>3, <2>1, <3>3 DEF OnTime
    <3>5. HeldSince'
      BY <1>1, <3>4 DEF HeldSince, Fresh
    <3>6. Renewed'
      BY <1>1, <1>3, <3>3 DEF Renewed, Fresh
    <3> QED BY <2>2, <3>2, <3>5, <3>6
  <2> QED BY <2>3, <2>4
<1>6. ASSUME ~active, active'
      PROVE  OnTime' /\ OfThisProcess' /\ HeldSince' /\ SentInTime' /\ Renewed'
  <2>1. /\ a.set # {} /\ answers = {a} /\ requests = {}
        /\ cookie'.key = process /\ now <= a.at + Delay /\ now <= sentAt + Gap
    BY <1>6 DEF Receive
  <2>2. requests' = {} /\ answers' = {}
    BY <1>1, <2>1
  <2>3. Fresh(cookie', sentAt)
    BY <1>3, <1>4, <2>1
  <2> QED
    BY <1>1, <2>1, <2>2, <2>3
    DEF OnTime, OfThisProcess, HeldSince, SentInTime, Renewed, Fresh
<1> QED BY <1>2, <1>5, <1>6 DEF ActiveInv

LEMMA TickStaysActive ==
  ASSUME IInv, ActiveInv, Tick
  PROVE  ActiveInv'
<1> USE SessionsAssumption
<1>1. now' = now + 1 /\ UNCHANGED <<process, cookie, requests, answers, sentAt>>
  BY DEF Tick
<1>2. SetIsFresh' /\ ActiveNeverAsked'
  BY <1>1 DEF ActiveInv, SetIsFresh, ActiveNeverAsked, Fresh
<1>3. ASSUME active'
      PROVE  OnTime' /\ OfThisProcess' /\ HeldSince' /\ SentInTime' /\ Renewed'
  <2>1. /\ active /\ now' <= sentAt + Gap
        /\ \A m \in requests \cup answers : now' <= m.at + Delay
    BY <1>3 DEF Tick
  <2>2. OnTime /\ OfThisProcess /\ HeldSince /\ SentInTime /\ Renewed
    BY <2>1 DEF ActiveInv
  <2>3. now \in Nat /\ \A m \in requests \cup answers : m.at \in Nat
    BY Numbers DEF IInv
  <2>4. OnTime'
    BY <1>1, <2>1, <2>2, <2>3 DEF OnTime
  <2>5. OfThisProcess' /\ HeldSince' /\ Renewed'
    BY <1>1, <2>2 DEF OfThisProcess, HeldSince, Renewed, Fresh
  <2>6. SentInTime'
    <3>1. \A q \in requests : now <= q.at + Delay
      BY <2>2 DEF OnTime
    <3> QED BY <1>1, <2>2, <3>1 DEF SentInTime
  <2> QED BY <2>4, <2>5, <2>6
<1> QED BY <1>2, <1>3 DEF ActiveInv

LEMMA StepStaysActive ==
  ASSUME IInv, ActiveInv, [Next]_vars
  PROVE  ActiveInv'
<1>1. CASE \E proven \in BOOLEAN : Send(proven)
  BY <1>1, SendStaysActive
<1>2. CASE \E q \in requests : Handle(q)
  BY <1>2, HandleStaysActive
<1>3. CASE \E a \in answers : Receive(a)
  BY <1>3, ReceiveStaysActive
<1>4. CASE (\E m \in requests \cup answers : Lose(m)) \/ Restart
  <2>1. answers' \subseteq answers /\ ~active'
    BY <1>4 DEF Lose, Restart
  <2> QED BY <2>1 DEF ActiveInv, SetIsFresh, ActiveNeverAsked, Fresh
<1>5. CASE Expire
  <2>1. answers' = answers /\ active' = active /\ now >= cookie.expiry
    BY <1>5 DEF Expire
  <2>2. ~active
    BY <2>1, ActiveCookieLasts, Numbers, SessionsAssumption DEF IInv
  <2> QED BY <2>1, <2>2 DEF ActiveInv, SetIsFresh, ActiveNeverAsked, Fresh
<1>6. CASE Tick
  BY <1>6, TickStaysActive
<1>7. CASE UNCHANGED vars
  BY <1>7 DEF vars, ActiveInv, SetIsFresh, ActiveNeverAsked, OnTime, OfThisProcess,
              HeldSince, SentInTime, Renewed, Fresh
<1> QED BY <1>1, <1>2, <1>3, <1>4, <1>5, <1>6, <1>7 DEF Next

(* An active browser is never asked for its credentials again. *)
THEOREM ActiveBrowserStaysLoggedIn == Spec => []ActiveNeverAsked
<1>1. Init => ActiveInv
  BY DEF Init, ActiveInv, SetIsFresh, ActiveNeverAsked
<1>2. IInv /\ ActiveInv /\ [Next]_vars => ActiveInv'
  BY StepStaysActive
<1>3. ActiveInv => ActiveNeverAsked
  BY DEF ActiveInv
<1> QED BY <1>1, <1>2, <1>3, SessionsInvariant, PTL DEF Spec

(* Who proves the password is never asked for it, whatever came along with it. *)
THEOREM CredentialsSuffice == Spec => []ProvenNeverAsked
<1>1. Init => ProvenNeverAsked
  BY DEF Init, ProvenNeverAsked
<1>2. IInv /\ ProvenNeverAsked /\ [Next]_vars => ProvenNeverAsked'
  <2> SUFFICES ASSUME IInv, ProvenNeverAsked, [Next]_vars
               PROVE  ProvenNeverAsked'
    OBVIOUS
  <2>1. ASSUME NEW q \in requests, Handle(q)
        PROVE  ProvenNeverAsked'
    <3>1. PICK a \in ServeHTTP(q) :
            answers' = answers \cup
              {[status |-> a[1], set |-> a[2], proven |-> q.proven, at |-> now,
                active |-> q.active /\ active]}
      BY <2>1 DEF Handle
    <3>2. q.proven => a[1] # 401
      BY <3>1 DEF ServeHTTP, Issued
    <3> QED BY <3>1, <3>2 DEF ProvenNeverAsked
  <2>2. CASE answers' \subseteq answers
    BY <2>2 DEF ProvenNeverAsked
  <2>3. (\E q \in requests : Handle(q)) \/ answers' \subseteq answers
    BY DEF Next, vars, Send, Receive, Lose, Expire, Restart, Tick
  <2> QED BY <2>1, <2>2, <2>3
<1> QED BY <1>1, <1>2, SessionsInvariant, PTL DEF Spec
=============================================================================
