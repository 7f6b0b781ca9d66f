------------------------------ MODULE Sessions ------------------------------
(***************************************************************************)
(* Package auth: the signed session cookie, between one browser and a      *)
(* server that may restart.                                                *)
(*                                                                         *)
(* There is no session table.  A token is its expiry, in whole seconds,    *)
(* under the key of the process that issued it; the nonce and the MAC are  *)
(* reduced to that key, so a token verifies only where it was issued.  The *)
(* browser keeps one cookie, sends what it has when it sends, and handles  *)
(* each answer when it arrives: requests and answers are under way for any *)
(* time, in any order, and may be lost.  Browser and server read one       *)
(* clock, in fractions of a second.                                        *)
(***************************************************************************)
EXTENDS Integers, FiniteSets

CONSTANTS
  Second,        \* units of the clock in a second
  sessionTTL,
  refreshAfter,
  Gap, Delay,    \* an active browser: time between its requests, and of a request or answer
  MaxTime,       \* bound on the clock
  MaxProcess,    \* bound on the processes
  MaxUnderWay    \* bound on the requests and answers under way

ASSUME SessionsAssumption ==
  /\ Second \in Nat \ {0} /\ sessionTTL \in Nat /\ refreshAfter \in Nat
  /\ Gap \in Nat /\ Delay \in Nat
  /\ MaxTime \in Nat /\ MaxProcess \in Nat \ {0} /\ MaxUnderWay \in Nat
  /\ Second <= refreshAfter /\ refreshAfter < sessionTTL
  /\ Gap + 4 * Delay < sessionTTL - refreshAfter

VARIABLES
  now,
  process,     \* the server process: its key
  cookie,      \* what the browser holds
  requests,    \* sent and not handled
  answers,     \* sent and not received
  lastServed,  \* when this process last served a request, or no less than a TTL ago
  sentAt,      \* when the browser last sent a request
  active       \* logged in, and neither too slow, nor restarted under, since

vars == <<now, process, cookie, requests, answers, lastServed, sentAt, active>>

LongAgo == 0 - sessionTTL     \* no request served yet

NoCookie == [expiry |-> 0, key |-> 0]
Cookie   == [expiry : Nat, key : 1..MaxProcess] \cup {NoCookie}

(* `set` is the Set-Cookie header: at most one cookie, and NoCookie clears the browser's. *)
Request == [cookie : Cookie, proven : BOOLEAN, at : Nat, active : BOOLEAN]
Answer  == [status : {200, 401, 500}, set : SUBSET Cookie, proven : BOOLEAN, at : Nat,
            active : BOOLEAN]

TypeOK ==
  /\ now \in Nat /\ process \in 1..MaxProcess
  /\ cookie \in Cookie
  /\ requests \subseteq Request
  /\ answers \subseteq Answer
  /\ lastServed \in Int /\ lastServed <= now
  /\ sentAt \in 0..now
  /\ active \in BOOLEAN

Init ==
  /\ now = 0 /\ process = 1
  /\ cookie = NoCookie
  /\ requests = {} /\ answers = {}
  /\ lastServed = LongAgo
  /\ sentAt = 0 /\ active = FALSE

-----------------------------------------------------------------------------
(* Tokens. *)

(* expiry.Unix(), as a point on the clock. *)
Unix(t) == t - (t % Second)

issue == [expiry |-> Unix(now + sessionTTL), key |-> process]

(* Mutant: the expiry is left to the browser. *)
verifyUnexpired(c) == c.key = process

verify(c) == c.key = process /\ now < c.expiry

(* Mutant: the refresh is due when the last refreshAfter of the session has begun. *)
dueLate(c) == c.expiry - now < refreshAfter

(* The session is older than refreshAfter. *)
due(c) == c.expiry - now < sessionTTL - refreshAfter

(* rand.Read may fail, and then there is no token. *)
Issued == {{issue}, {}}

-----------------------------------------------------------------------------
(* authenticator.ServeHTTP: the possible answers to a request, as <<status, set>>. *)

(* Mutant: a cookie that does not verify is refused at once, credentials or not. *)
ServeHTTPDenying(q) ==
  IF q.cookie # NoCookie
  THEN IF verify(q.cookie)
       THEN {<<200, s>> : s \in IF due(q.cookie) THEN Issued ELSE {{}}}
       ELSE {<<401, {NoCookie}>>}
  ELSE IF q.proven
       THEN {<<IF s = {} THEN 500 ELSE 200, s>> : s \in Issued}
       ELSE {<<401, {NoCookie}>>}

(* A cookie that does not verify falls through to the credentials. *)
ServeHTTP(q) ==
  IF verify(q.cookie)
  THEN {<<200, s>> : s \in IF due(q.cookie) THEN Issued ELSE {{}}}
  ELSE IF q.proven
       THEN {<<IF s = {} THEN 500 ELSE 200, s>> : s \in Issued}
       ELSE {<<401, {NoCookie}>>}

Handle(q) ==
  /\ requests' = requests \ {q}
  /\ \E a \in ServeHTTP(q) :
       /\ answers' = answers \cup
            {[status |-> a[1], set |-> a[2], proven |-> q.proven, at |-> now,
              active |-> q.active /\ active]}
       /\ lastServed' = IF a[1] = 200 THEN now ELSE lastServed
       /\ active' = (active /\ (due(q.cookie) => a[2] # {}))
  /\ UNCHANGED <<now, process, cookie, sentAt>>

-----------------------------------------------------------------------------
(* The browser. *)

Send(proven) ==
  /\ Cardinality(requests) + Cardinality(answers) < MaxUnderWay
  /\ requests' = requests \cup
       {[cookie |-> cookie, proven |-> proven, at |-> now, active |-> active]}
  /\ sentAt' = now
  /\ UNCHANGED <<now, process, cookie, answers, lastServed, active>>

(* Being active begins with an answer to credentials and nothing else under way. *)
Receive(a) ==
  /\ answers' = answers \ {a}
  /\ cookie' = IF a.set = {} THEN cookie ELSE CHOOSE c \in a.set : TRUE
  /\ active' = \/ active
               \/ /\ a.status = 200 /\ a.proven /\ a.set # {} /\ answers = {a} /\ requests = {}
                  /\ cookie'.key = process /\ now <= a.at + Delay /\ now <= sentAt + Gap
  /\ UNCHANGED <<now, process, requests, lastServed, sentAt>>

(* The Expires attribute: the browser drops the cookie at the server's expiry. *)
Expire ==
  /\ cookie # NoCookie /\ now >= cookie.expiry
  /\ cookie' = NoCookie
  /\ UNCHANGED <<now, process, requests, answers, lastServed, sentAt, active>>

(* A connection breaks: the request or the answer on it is lost. *)
Lose(m) ==
  /\ requests' = requests \ {m} /\ answers' = answers \ {m}
  /\ active' = FALSE
  /\ UNCHANGED <<now, process, cookie, lastServed, sentAt>>

(* Wrap in a new process: a new key. *)
Restart ==
  /\ process < MaxProcess
  /\ process' = process + 1
  /\ lastServed' = LongAgo
  /\ active' = FALSE
  /\ UNCHANGED <<now, cookie, requests, answers, sentAt>>

Tick ==
  /\ now < MaxTime
  /\ now' = now + 1
  /\ active' = /\ active
               /\ now' <= sentAt + Gap
               /\ \A m \in requests \cup answers : now' <= m.at + Delay
  /\ UNCHANGED <<process, cookie, requests, answers, lastServed, sentAt>>

Next ==
  \/ \E proven \in BOOLEAN : Send(proven)
  \/ \E q \in requests : Handle(q)
  \/ \E a \in answers : Receive(a)
  \/ \E m \in requests \cup answers : Lose(m)
  \/ Expire \/ Restart \/ Tick

Spec == Init /\ [][Next]_vars

-----------------------------------------------------------------------------
(* Properties. *)

(* "An active browser is not logged out mid-use": one that sends a request at least   *)
(* every Gap after it logged in, over connections no slower than Delay, is never      *)
(* asked for its credentials again, whatever instant its requests fall on and however *)
(* its requests and the cookies re-issued to it overlap (refreshAfter).               *)
ActiveNeverAsked == \A a \in answers : a.active => a.status # 401

(* "An idle one still expires": who does not prove the password is served only if     *)
(* this very process served it within the last TTL.  So a session is extended by use, *)
(* never by an old answer or an old cookie, and dies with its process (verify).       *)
IdleExpires ==
  [][\A a \in answers' \ answers :
       a.status = 200 /\ ~a.proven => now - lastServed < sessionTTL]_vars

(* Who proves the password is never asked for it, whatever cookie came along: expired, *)
(* or of an earlier process (ServeHTTP).                                               *)
ProvenNeverAsked == \A a \in answers : a.proven => a.status # 401
=============================================================================
