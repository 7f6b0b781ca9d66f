------------------------------- MODULE Fetch -------------------------------
(***************************************************************************)
(* Package fetch: the download of a .torrent from a URL the user gave, one *)
(* per caller.  Every connection is dialled by guardedDialContext, which   *)
(* looks the host up afresh, also after a redirect, so the address that    *)
(* is checked is the one that is dialled.                                  *)
(*                                                                         *)
(* The remote end and the resolver are external and may answer anything,   *)
(* or nothing until the deadline.  isDisallowedIP's table is the set       *)
(* Disallowed.  A body is its length and what it holds.                    *)
(***************************************************************************)
EXTENDS Integers, FiniteSets

CONSTANTS
  Caller,
  Address, Disallowed,   \* what a host may resolve to, and what is never dialled
  Content,               \* what the bytes of a .torrent say
  Malformed,             \* what cannot be parsed, a part of a file included
  MaxSize,               \* cap on a body
  maxRedirects

ASSUME FetchAssumption ==
  /\ Disallowed \subseteq Address
  /\ Malformed \notin Content
  /\ MaxSize \in Nat \ {0} /\ maxRedirects \in Nat

VARIABLE fetch

(* Bodies on both sides of the cap. *)
Body == [content : Content \cup {Malformed}, size : MaxSize..MaxSize + 1]

NoBody == [content |-> Malformed, size |-> 0]

Sentinel == {"ErrInvalidURL", "ErrBlocked", "ErrUpstream"}

(* Whose doing a failure is, by what really happened: the caller's, if the URL or the  *)
(* host it leads to is one not to be fetched from; unnoticed, if the URL is no good    *)
(* but parses; the server's, or the remote end's, otherwise, a name that does not      *)
(* resolve included.                                                                   *)
Fault == {"caller", "unnoticed", "server"}

(* err is the set of sentinels in the error's chain, peer the address dialled last. *)
FetchState ==
  [pc   : {"idle", "parse", "lookup", "dial", "response", "body", "failed", "fetched"},
   hop  : 0..maxRedirects,
   fault: Fault,
   left : SUBSET Address,
   peer : SUBSET Address,
   err  : SUBSET Sentinel,
   sent : Body \cup {NoBody},
   got  : Content \cup {Malformed}]

NoFetch == [pc |-> "idle", hop |-> 0, fault |-> "server", left |-> {}, peer |-> {}, err |-> {},
            sent |-> NoBody, got |-> Malformed]

FetchTypeOK == fetch \in [Caller -> FetchState]

FetchInit == fetch = [c \in Caller |-> NoFetch]

Becomes(c, f) == fetch' = [fetch EXCEPT ![c] = f]

Fails(c, f, err) ==
  Becomes(c, [NoFetch EXCEPT !.pc = "failed", !.err = err, !.fault = f.fault])

-----------------------------------------------------------------------------
(* Client.Torrent. *)

StartFetch(c) == Becomes(c, [NoFetch EXCEPT !.pc = "parse"])

(* A URL that does not parse, or whose scheme is not http or https, is the caller's.   *)
(* One without a host parses, and fails in client.Do; one with a port there is no such *)
(* number of goes on, to a host that may not be dialled or to no connection.           *)
ParseURL(c) ==
  LET f == fetch[c]
      unnoticed == [f EXCEPT !.fault = "unnoticed"]
  IN  /\ f.pc = "parse"
      /\ \/ Fails(c, [f EXCEPT !.fault = "caller"], {"ErrInvalidURL"})
         \/ Fails(c, unnoticed, {"ErrUpstream"})
         \/ \E g \in {f, unnoticed} : Becomes(c, [g EXCEPT !.pc = "lookup"])

(* Mutant: a host with one address that may be dialled may have any dialled. *)
allowedIPsAny(ips) == IF ips \subseteq Disallowed THEN {} ELSE ips

allowedIPs(ips) == ips \ Disallowed

(* guardedDialContext: look up, partition, and dial what is left. *)
Lookup(c) ==
  LET f == fetch[c]
  IN  /\ f.pc = "lookup"
      /\ \/ Fails(c, f, {"ErrUpstream"})
         \/ \E ips \in (SUBSET Address) \ {{}} :
              LET allowed == allowedIPs(ips)
                  fault   == IF ips \subseteq Disallowed THEN "caller" ELSE f.fault
                  seen    == [f EXCEPT !.fault = fault, !.left = allowed]
              IN  IF allowed = {}
                  THEN Fails(c, seen, {"ErrUpstream", "ErrBlocked"})
                  ELSE Becomes(c, [seen EXCEPT !.pc = "dial"])

(* What Torrent makes of the last dial error. *)
lastErr == {"ErrUpstream"}

(* The addresses in turn, until one answers; none does at an impossible port. *)
Dial(c) ==
  LET f == fetch[c]
  IN  /\ f.pc = "dial"
      /\ \E ip \in f.left :
           LET tried == [f EXCEPT !.left = @ \ {ip}, !.peer = {ip}]
           IN  \/ f.fault = "server" /\ Becomes(c, [tried EXCEPT !.pc = "response", !.left = {}])
               \/ IF tried.left = {} THEN Fails(c, tried, lastErr) ELSE Becomes(c, tried)

(* A redirect goes on a new connection, or on the one there is for the same host.      *)
(* via holds the requests so far, one more than the redirects that were followed.      *)
Redirected(c) ==
  LET f == fetch[c]
  IN  /\ f.pc = "response"
      /\ IF f.hop + 1 >= maxRedirects
         THEN Fails(c, f, {"ErrUpstream"})
         ELSE \E pc \in {"lookup", "response"} :
                Becomes(c, [f EXCEPT !.pc = pc, !.hop = @ + 1])

(* 200 begins a body, and the redirects that led to it are forgotten; any other status, *)
(* or a broken answer, fails.                                                          *)
Responds(c) ==
  LET f == fetch[c]
  IN  /\ f.pc = "response"
      /\ \/ Fails(c, f, {"ErrUpstream"})
         \/ \E b \in Body : Becomes(c, [NoFetch EXCEPT !.pc = "body", !.sent = b])

(* What io.ReadAll gets of a body through a LimitReader. *)
Limited(size, limit) == IF size <= limit THEN size ELSE limit

(* The bytes that were read, as the parser sees them. *)
Read(b, n) == IF n = b.size THEN b.content ELSE Malformed

(* One byte more than the cap tells a whole body from a longer one. *)
ReadLimit == MaxSize + 1

ReadBody(c) ==
  LET f == fetch[c]
      n == Limited(f.sent.size, ReadLimit)
  IN  /\ f.pc = "body"
      /\ \/ Fails(c, f, {"ErrUpstream"})
         \/ IF n > MaxSize
            THEN Fails(c, f, {"ErrUpstream"})
            ELSE Becomes(c, [f EXCEPT !.pc = "fetched", !.got = Read(f.sent, n)])

(* Mutant: nothing ends a fetch the remote end does not answer. *)
NoTimeout(c) == FALSE /\ UNCHANGED fetch

(* The deadline passes, or the client that asked has gone. *)
Timeout(c) ==
  LET f == fetch[c]
  IN  /\ f.pc \in {"lookup", "dial", "response", "body"}
      /\ Fails(c, f, {"ErrUpstream"})

FetchNext(c) ==
  ParseURL(c) \/ Lookup(c) \/ Dial(c) \/ Redirected(c) \/ Responds(c) \/ ReadBody(c) \/ Timeout(c)
=============================================================================
