----------------------------- MODULE ApiProofs -----------------------------
(***************************************************************************)
(* Proofs about Api and Fetch, for any callers, torrents, files and        *)
(* addresses, and any bounds.                                              *)
(***************************************************************************)
EXTENDS Api, TLAPS

-----------------------------------------------------------------------------
(* The fetch of one caller. *)

(* Only allowed addresses are left to dial or were dialled; what a fetch fails with is *)
(* the caller's doing when the chain of its error says so, and only then.              *)
FetchOK(f) ==
  /\ f \in FetchState
  /\ f.left \cap Disallowed = {}
  /\ f.peer \cap Disallowed = {}
  /\ f.pc = "body" => f.sent \in Body
  /\ f.pc = "fetched" => f.got = f.sent.content
  /\ f.pc # "failed" => f.fault # "caller"
  /\ f.pc = "failed" =>
       \/ f.err \in {{"ErrInvalidURL"}, {"ErrUpstream", "ErrBlocked"}} /\ f.fault = "caller"
       \/ f.err = {"ErrUpstream"} /\ f.fault # "caller"

FetchInv == fetch \in [Caller -> FetchState] /\ \A c \in Caller : FetchOK(fetch[c])

(* Replacing one caller's fetch by a sound one keeps every fetch sound. *)
LEMMA FetchBecomes ==
  ASSUME FetchInv, NEW c \in Caller, NEW f, FetchOK(f), Becomes(c, f)
  PROVE  FetchInv'
<1>1. fetch' \in [Caller -> FetchState]
  BY DEF FetchInv, FetchOK, Becomes
<1>2. ASSUME NEW d \in Caller PROVE FetchOK(fetch'[d])
  BY <1>2 DEF FetchInv, Becomes
<1>3. \A d \in Caller : FetchOK(fetch[d])'
  BY <1>2
<1> QED
  BY <1>1, <1>3 DEF FetchInv

LEMMA NoFetchOK == FetchOK(NoFetch)
BY FetchAssumption DEF FetchOK, FetchState, NoFetch, NoBody, Fault

LEMMA StartsOK == FetchOK([NoFetch EXCEPT !.pc = "parse"])
BY NoFetchOK DEF FetchOK, FetchState, NoFetch

(* A failed fetch carries one of three chains. *)
LEMMA FailsOK ==
  ASSUME NEW fault \in Fault, NEW err \in SUBSET Sentinel,
         \/ err \in {{"ErrInvalidURL"}, {"ErrUpstream", "ErrBlocked"}} /\ fault = "caller"
         \/ err = {"ErrUpstream"} /\ fault # "caller"
  PROVE  FetchOK([NoFetch EXCEPT !.pc = "failed", !.err = err, !.fault = fault])
<1> DEFINE f == [NoFetch EXCEPT !.pc = "failed", !.err = err, !.fault = fault]
<1>1. f \in FetchState
  BY NoFetchOK DEF FetchOK, FetchState, NoFetch
<1>2. /\ f.pc = "failed" /\ f.left = {} /\ f.peer = {}
      /\ f.err = err /\ f.fault = fault
  BY DEF NoFetch
<1> HIDE DEF f
<1>3. FetchOK(f)
  BY <1>1, <1>2 DEF FetchOK
<1> QED
  BY <1>3 DEF f

(* A fetch that fails for what the remote end did, or for what nobody had noticed. *)
LEMMA UpstreamFails ==
  ASSUME FetchInv, NEW c \in Caller, NEW f, f.fault \in Fault, f.fault # "caller",
         Fails(c, f, {"ErrUpstream"})
  PROVE  FetchInv'
<1>1. FetchOK([NoFetch EXCEPT !.pc = "failed", !.err = {"ErrUpstream"}, !.fault = f.fault])
  BY FailsOK DEF Sentinel
<1> QED
  BY <1>1, FetchBecomes DEF Fails

(* A fetch that fails for what it was asked for. *)
LEMMA RefusalFails ==
  ASSUME FetchInv, NEW c \in Caller, NEW f, f.fault = "caller",
         NEW err \in {{"ErrInvalidURL"}, {"ErrUpstream", "ErrBlocked"}}, Fails(c, f, err)
  PROVE  FetchInv'
<1>1. FetchOK([NoFetch EXCEPT !.pc = "failed", !.err = err, !.fault = "caller"])
  BY FailsOK DEF Sentinel, Fault
<1> QED
  BY <1>1, FetchBecomes DEF Fails

(* ReadLimit is one above the cap, so what was read within the cap is the whole body. *)
LEMMA ReadsWhole ==
  ASSUME NEW b \in Body, Limited(b.size, ReadLimit) <= MaxSize
  PROVE  Read(b, Limited(b.size, ReadLimit)) = b.content
BY FetchAssumption DEF Body, Limited, ReadLimit, Read

-----------------------------------------------------------------------------
(* Every step of a fetch keeps it sound. *)
LEMMA FetchStepOK ==
  ASSUME FetchInv, NEW c \in Caller, FetchNext(c)
  PROVE  FetchInv'
<1> DEFINE f == fetch[c]
<1>0. FetchOK(f) /\ f \in FetchState
  BY DEF FetchInv, FetchOK
<1>1. CASE ParseURL(c)
  <2>1. f.pc = "parse" /\ f.fault \in Fault /\ f.fault # "caller"
    BY <1>0, <1>1 DEF ParseURL, FetchOK, FetchState
  <2>2. CASE Fails(c, [f EXCEPT !.fault = "caller"], {"ErrInvalidURL"})
    <3>1. [f EXCEPT !.fault = "caller"].fault = "caller"
      BY <1>0 DEF FetchState
    <3> QED BY <2>2, <3>1, RefusalFails
  <2>3. CASE Fails(c, [f EXCEPT !.fault = "unnoticed"], {"ErrUpstream"})
    <3> DEFINE g == [f EXCEPT !.fault = "unnoticed"]
    <3>1. g.fault \in Fault /\ g.fault # "caller"
      BY <1>0 DEF FetchState, Fault
    <3>2. Fails(c, g, {"ErrUpstream"})
      BY <2>3
    <3> HIDE DEF g
    <3> QED BY <3>1, <3>2, UpstreamFails
  <2>4. ASSUME NEW g \in {f, [f EXCEPT !.fault = "unnoticed"]},
               Becomes(c, [g EXCEPT !.pc = "lookup"])
        PROVE  FetchInv'
    <3>1. FetchOK(g) /\ g.pc = "parse"
      BY <1>0, <2>1 DEF FetchOK, FetchState, Fault
    <3> HIDE DEF f
    <3>2. FetchOK([g EXCEPT !.pc = "lookup"])
      BY <3>1 DEF FetchOK, FetchState
    <3> QED BY <2>4, <3>2, FetchBecomes
  <2> QED BY <1>1, <2>2, <2>3, <2>4 DEF ParseURL
<1>2. CASE Lookup(c)
  <2>1. f.fault \in Fault /\ f.fault # "caller" /\ f.pc = "lookup"
    BY <1>0, <1>2 DEF Lookup, FetchOK, FetchState
  <2>2. CASE Fails(c, f, {"ErrUpstream"})
    BY <2>1, <2>2, UpstreamFails
  <2>3. ASSUME NEW ips \in (SUBSET Address) \ {{}}, ips \ Disallowed = {},
               NEW fault, fault = IF ips \subseteq Disallowed THEN "caller" ELSE f.fault,
               Fails(c, [f EXCEPT !.fault = fault, !.left = {}], {"ErrUpstream", "ErrBlocked"})
        PROVE FetchInv'
    <3>1. fault = "caller"
      BY <2>3
    <3>2. [f EXCEPT !.fault = fault, !.left = {}].fault = "caller"
      BY <1>0, <3>1 DEF FetchState
    <3> QED BY <2>3, <3>2, RefusalFails
  <2>4. ASSUME NEW ips \in (SUBSET Address) \ {{}}, ips \ Disallowed # {},
               NEW fault, fault = IF ips \subseteq Disallowed THEN "caller" ELSE f.fault,
               Becomes(c, [[f EXCEPT !.fault = fault, !.left = ips \ Disallowed]
                             EXCEPT !.pc = "dial"])
        PROVE FetchInv'
    <3>1. fault = f.fault
      BY <2>4
    <3>2. ips \ Disallowed \in SUBSET Address
      OBVIOUS
    <3>3. FetchOK([[f EXCEPT !.fault = f.fault, !.left = ips \ Disallowed] EXCEPT !.pc = "dial"])
      BY <1>0, <2>1, <3>2 DEF FetchOK, FetchState
    <3> QED BY <2>4, <3>1, <3>3, FetchBecomes
  <2>5. ASSUME ~Fails(c, f, {"ErrUpstream"}) PROVE FetchInv'
    <3>1. PICK ips \in (SUBSET Address) \ {{}} :
            LET allowed == ips \ Disallowed
                fault   == IF ips \subseteq Disallowed THEN "caller" ELSE f.fault
                seen    == [f EXCEPT !.fault = fault, !.left = allowed]
            IN  IF allowed = {}
                THEN Fails(c, seen, {"ErrUpstream", "ErrBlocked"})
                ELSE Becomes(c, [seen EXCEPT !.pc = "dial"])
      BY <1>2, <2>5 DEF Lookup, allowedIPs
    <3> DEFINE fault == IF ips \subseteq Disallowed THEN "caller" ELSE f.fault
    <3>2. CASE ips \ Disallowed = {}
      <4>1. Fails(c, [f EXCEPT !.fault = fault, !.left = {}], {"ErrUpstream", "ErrBlocked"})
        BY <3>1, <3>2
      <4> QED BY <3>2, <4>1, <2>3
    <3>3. CASE ips \ Disallowed # {}
      BY <3>1, <3>3, <2>4
    <3> QED BY <3>2, <3>3
  <2> QED BY <2>2, <2>5
<1>3. CASE Dial(c)
  <2>1. PICK ip \in f.left :
          LET tried == [f EXCEPT !.left = @ \ {ip}, !.peer = {ip}]
          IN  \/ f.fault = "server" /\ Becomes(c, [tried EXCEPT !.pc = "response", !.left = {}])
              \/ IF tried.left = {} THEN Fails(c, tried, lastErr) ELSE Becomes(c, tried)
    BY <1>3 DEF Dial
  <2> DEFINE tried == [f EXCEPT !.left = @ \ {ip}, !.peer = {ip}]
  <2>2. ip \in Address /\ ip \notin Disallowed /\ f.fault \in Fault /\ f.fault # "caller"
    BY <1>0, <1>3, <2>1 DEF FetchOK, FetchState, Dial
  <2>3. f \in FetchState /\ f.pc = "dial" /\ f.left \cap Disallowed = {}
    BY <1>0, <1>3 DEF FetchOK, Dial
  <2>4. tried \in FetchState /\ tried.pc = "dial" /\ tried.fault \in Fault
        /\ tried.fault # "caller"
    BY <2>2, <2>3 DEF FetchState
  <2>5. tried.left \cap Disallowed = {} /\ tried.peer \cap Disallowed = {}
    BY <2>2, <2>3 DEF FetchState
  <2> HIDE DEF tried
  <2>6. FetchOK(tried)
    BY <2>4, <2>5 DEF FetchOK
  <2>7. FetchOK([tried EXCEPT !.pc = "response", !.left = {}])
    BY <2>4, <2>5 DEF FetchOK, FetchState
  <2>8. \/ Becomes(c, [tried EXCEPT !.pc = "response", !.left = {}])
        \/ Fails(c, tried, {"ErrUpstream"})
        \/ Becomes(c, tried)
    BY <2>1 DEF lastErr, tried
  <2> QED BY <2>4, <2>6, <2>7, <2>8, FetchBecomes, UpstreamFails
<1>4. CASE Redirected(c)
  <2>1. f.fault \in Fault /\ f.fault # "caller"
    BY <1>0, <1>4 DEF Redirected, FetchOK, FetchState
  <2>2. CASE Fails(c, f, {"ErrUpstream"})
    BY <2>1, <2>2, UpstreamFails
  <2>3. ASSUME NEW pc \in {"lookup", "response"}, f.hop + 1 < maxRedirects,
               Becomes(c, [f EXCEPT !.pc = pc, !.hop = @ + 1])
        PROVE FetchInv'
    <3>1. f.hop + 1 \in 0..maxRedirects
      BY <1>0, <2>3, FetchAssumption DEF FetchState
    <3>2. FetchOK([f EXCEPT !.pc = pc, !.hop = @ + 1])
      BY <1>0, <1>4, <3>1 DEF FetchOK, FetchState, Redirected
    <3> QED BY <2>3, <3>2, FetchBecomes
  <2>4. f.hop \in Nat
    BY <1>0, FetchAssumption DEF FetchState
  <2> QED BY <1>4, <2>2, <2>3, <2>4, FetchAssumption DEF Redirected
<1>5. CASE Responds(c)
  <2>1. f.fault \in Fault /\ f.fault # "caller"
    BY <1>0, <1>5 DEF Responds, FetchOK, FetchState
  <2>2. CASE Fails(c, f, {"ErrUpstream"})
    BY <2>1, <2>2, UpstreamFails
  <2>3. ASSUME NEW b \in Body, Becomes(c, [NoFetch EXCEPT !.pc = "body", !.sent = b])
        PROVE FetchInv'
    <3>1. FetchOK([NoFetch EXCEPT !.pc = "body", !.sent = b])
      BY NoFetchOK DEF FetchOK, FetchState, NoFetch
    <3> QED BY <2>3, <3>1, FetchBecomes
  <2> QED BY <1>5, <2>2, <2>3 DEF Responds
<1>6. CASE ReadBody(c)
  <2> DEFINE n == Limited(f.sent.size, ReadLimit)
  <2>1. f.fault \in Fault /\ f.fault # "caller" /\ f.sent \in Body
    BY <1>0, <1>6 DEF ReadBody, FetchOK, FetchState
  <2>2. CASE Fails(c, f, {"ErrUpstream"})
    BY <2>1, <2>2, UpstreamFails
  <2>3. CASE n <= MaxSize /\ Becomes(c, [f EXCEPT !.pc = "fetched", !.got = Read(f.sent, n)])
    <3>1. Read(f.sent, n) = f.sent.content
      BY <2>1, <2>3, ReadsWhole
    <3>2. f.sent.content \in Content \cup {Malformed}
      BY <2>1 DEF Body
    <3>3. FetchOK([f EXCEPT !.pc = "fetched", !.got = f.sent.content])
      BY <1>0, <1>6, <2>1, <3>2 DEF FetchOK, FetchState, ReadBody
    <3> QED BY <2>3, <3>1, <3>3, FetchBecomes
  <2>4. n \in Int /\ MaxSize \in Int
    BY <2>1, FetchAssumption DEF Body, Limited, ReadLimit
  <2>5. n > MaxSize \/ n <= MaxSize
    BY <2>4
  <2> QED BY <1>6, <2>2, <2>3, <2>5 DEF ReadBody
<1>7. CASE Timeout(c)
  <2>1. f.fault \in Fault /\ f.fault # "caller"
    BY <1>0, <1>7 DEF Timeout, FetchOK, FetchState
  <2> QED BY <1>7, <2>1, UpstreamFails DEF Timeout
<1> QED
  BY <1>1, <1>2, <1>3, <1>4, <1>5, <1>6, <1>7 DEF FetchNext

-----------------------------------------------------------------------------
(* Errors and their statuses. *)

(* What a call can come to. *)
Result ==
  Outcome \cup {Caused(e) : e \in {"badRequest", "ErrOutsideRoot", "ErrNotExist", "ErrInvalidURL"}}
          \cup {Caused("ErrBlocked"), Operational({"ErrUpstream"})}
          \cup {[err |-> {"ErrUpstream", "ErrBlocked"}, fault |-> "caller"],
                 [err |-> {"ErrUpstream"}, fault |-> "unnoticed"]}

(* The first rule that matches decides. *)
LEMMA FirstRule ==
  ASSUME NEW err, NEW n \in 1..9,
         Rules[n][1] \cap err # {},
         \A i \in 1..9 : i < n => Rules[i][1] \cap err = {}
  PROVE  classify(err) = Rules[n][2]
<1> DEFINE I == {i \in 1..9 : Rules[i][1] \cap err # {}}
<1>1. Len(Rules) = 9
  BY DEF Rules
<1>2. n \in I /\ \A i \in I : n <= i
  OBVIOUS
<1>3. Min(I) = n
  BY <1>2 DEF Min
<1>4. SelectInSeq(Rules, LAMBDA rule : rule[1] \cap err # {}) = n
  BY <1>1, <1>2, <1>3 DEF SelectInSeq
<1> QED
  BY <1>4 DEF classify

(* An error no rule knows is the server's. *)
LEMMA NoRule ==
  ASSUME NEW err, \A i \in 1..9 : Rules[i][1] \cap err = {}
  PROVE  classify(err) = 500
<1>1. Len(Rules) = 9
  BY DEF Rules
<1>2. SelectInSeq(Rules, LAMBDA rule : rule[1] \cap err # {}) = 0
  BY <1>1 DEF SelectInSeq
<1> QED
  BY <1>2 DEF classify

(* classify, one chain at a time. *)
LEMMA Classified ==
  ASSUME NEW r \in Result \cup {NotKept}
  PROVE  /\ classify(r.err) \in {200, 400, 404, 409, 500, 502, 503}
         /\ classify(r.err) = 200 <=> r = Ok
         /\ r \in Result => /\ classify(r.err) \in 400..499 <=> r.fault = "caller"
                            /\ classify(r.err) >= 500 <=> r.fault \in {"server", "unnoticed"}
<1>1. CASE r = Ok
  <2>1. classify({"nil"}) = 200
    BY FirstRule DEF Rules
  <2> QED BY <1>1, <2>1 DEF Ok
<1>2. CASE r = Operational({})
  <2>1. classify({}) = 500
    BY NoRule
  <2> QED BY <1>2, <2>1 DEF Ok, Operational
<1>3. CASE r = Operational({"ErrNotConfigured"})
  <2>1. classify({"ErrNotConfigured"}) = 503
    BY FirstRule DEF Rules
  <2> QED BY <1>3, <2>1 DEF Ok, Operational
<1>4. CASE r = Operational({"ErrUpstream"})
  <2>1. classify({"ErrUpstream"}) = 502
    BY FirstRule DEF Rules
  <2> QED BY <1>4, <2>1 DEF Ok, Operational
<1>5. CASE r = [err |-> {"ErrUpstream", "ErrBlocked"}, fault |-> "caller"]
  <2>1. classify({"ErrUpstream", "ErrBlocked"}) = 400
    BY FirstRule DEF Rules
  <2> QED BY <1>5, <2>1 DEF Ok
<1>6. ASSUME NEW e \in {"badRequest", "ErrInvalidInput", "ErrInvalidURL", "ErrBlocked",
                        "ErrMissingTorrent", "ErrAlreadyStarted", "ErrAlreadyStopped",
                        "ErrOutsideRoot", "ErrNotExist"}, r = Caused(e)
      PROVE  classify(r.err) \in {400, 404, 409} /\ r # Ok /\ r.fault = "caller"
  <2>1. classify({"badRequest"}) = 400
    BY FirstRule DEF Rules
  <2>2. \A x \in {"ErrInvalidInput", "ErrInvalidURL", "ErrBlocked"} : classify({x}) = 400
    BY FirstRule DEF Rules
  <2>3. classify({"ErrMissingTorrent"}) = 404
    BY FirstRule DEF Rules
  <2>4. \A x \in {"ErrAlreadyStarted", "ErrAlreadyStopped"} : classify({x}) = 409
    BY FirstRule DEF Rules
  <2>5. \A x \in {"ErrOutsideRoot", "ErrNotExist"} : classify({x}) = 404
    BY FirstRule DEF Rules
  <2>6. classify({e}) \in {400, 404, 409}
    BY <2>1, <2>2, <2>3, <2>4, <2>5
  <2> QED BY <1>6, <2>6 DEF Caused, Ok
<1>7. CASE r = NotKept
  <2>1. classify({"badRequest"}) = 400
    BY FirstRule DEF Rules
  <2>2. r.err = {"badRequest"} /\ r.fault = "server" /\ r # Ok
    BY <1>7 DEF NotKept, Ok
  <2>3. r \notin Result
    BY <2>2 DEF Result, Outcome, Ok, Caused, Operational, Unnoticed
  <2> QED BY <2>1, <2>2, <2>3
<1>8. CASE r = Unnoticed
  <2>1. classify({}) = 500
    BY NoRule
  <2> QED BY <1>8, <2>1 DEF Ok, Unnoticed
<1>9. CASE r = [err |-> {"ErrUpstream"}, fault |-> "unnoticed"]
  <2>1. classify({"ErrUpstream"}) = 502
    BY FirstRule DEF Rules
  <2> QED BY <1>9, <2>1 DEF Ok
<1> QED
  BY <1>1, <1>2, <1>3, <1>4, <1>5, <1>6, <1>7, <1>8, <1>9 DEF Result, Outcome

(* Results are typed. *)
LEMMA ResultTypes ==
  ASSUME NEW r \in Result \cup {NotKept}
  PROVE  r \in Verdict
BY DEF Verdict, Fault, Result, Outcome, Ok, Caused, Operational, Unnoticed, NotKept, Error

-----------------------------------------------------------------------------
(* The call of one caller. *)

(* What is done, what failed and what is left add up to what was asked for; a result   *)
(* is success when nothing is missing, and a status says so, and whose doing it is;    *)
(* only an upload may be refused for what the server could not do.                     *)
CallOK(k) ==
  /\ k \in CallState
  /\ k.pc \in {"arrived", "body", "handler"} =>
       k.req \in Request /\ k.asked = Asked(k.req) /\ k.done = 0 /\ k.failures = 0
  /\ k.pc = "remove" => k.asked = 1 /\ k.done = 0
  /\ k.pc = "files" => k.req.op = "upload" /\ k.done + k.failures + Len(k.todo) = k.asked
  /\ k.pc = "finish" => /\ k.result \in Result \cup {NotKept}
                        /\ k.result = NotKept => k.req.op = "upload"
                        /\ k.result = Ok <=> k.done = k.asked
  /\ k.pc = "answered" =>
       /\ k.status = 200 <=> k.done = k.asked
       /\ k.req.op # "upload" =>
            /\ k.status \in 400..499 <=> k.result.fault = "caller"
            /\ k.status >= 500 <=> k.result.fault \in {"server", "unnoticed"}

CallInv == call \in [Caller -> CallState] /\ \A c \in Caller : CallOK(call[c])

(* The engine, the files and the page. *)
WorldInv ==
  /\ Torrents!TypeOK
  /\ files \in SUBSET File
  /\ kickCh \in BOOLEAN /\ unseen \in SUBSET Caller

IInv == FetchInv /\ CallInv /\ WorldInv /\ NoInvisibleChange

(* How a step of c may touch the page: it wakes the loop, or what it changed is        *)
(* reported by the end of the call, or it changes nothing and reported already.        *)
Page(c, pc) ==
  \/ kickCh' = TRUE /\ unseen' = unseen
  \/ kickCh' = kickCh /\ unseen' \in {unseen, unseen \cup {c}} /\ pc \in {"files", "finish"}
  \/ kickCh' = kickCh /\ unseen' = unseen /\ call[c].pc \notin {"files", "finish"}

LEMMA CallGoes ==
  ASSUME CallInv, NoInvisibleChange, NEW c \in Caller, NEW k, CallOK(k), Goes(c, k),
         Page(c, k.pc), unseen \in SUBSET Caller
  PROVE  CallInv' /\ NoInvisibleChange' /\ unseen' \in SUBSET Caller
<1>1. call' \in [Caller -> CallState]
  BY DEF CallInv, CallOK, Goes
<1>2. ASSUME NEW d \in Caller PROVE CallOK(call'[d])
  BY <1>2 DEF CallInv, Goes
<1>3. \A d \in Caller : CallOK(call[d])'
  BY <1>2
<1>4. CallInv'
  BY <1>1, <1>3 DEF CallInv
<1>5. unseen' \in SUBSET Caller
  BY DEF Page
<1>6. \A d \in Caller : call'[d] = IF d = c THEN k ELSE call[d]
  BY DEF CallInv, Goes
<1>7. ASSUME NEW d \in unseen' PROVE kickCh' \/ call'[d].pc \in {"files", "finish"}
  <2>1. CASE kickCh' = TRUE
    BY <2>1
  <2>2. CASE kickCh' = kickCh /\ d # c
    BY <1>5, <1>6, <1>7, <2>2 DEF Page, NoInvisibleChange
  <2>3. CASE kickCh' = kickCh /\ d = c
    BY <1>5, <1>6, <1>7, <2>3 DEF Page, NoInvisibleChange
  <2> QED BY <2>1, <2>2, <2>3 DEF Page
<1>8. NoInvisibleChange'
  BY <1>7 DEF NoInvisibleChange
<1> QED
  BY <1>4, <1>5, <1>8

(* What a request holds. *)
LEMMA RequestFacts ==
  ASSUME NEW q \in Request
  PROVE  /\ q.op \in Op
         /\ q.op \in {"magnet", "start", "stop", "delete"} => q.target \in Hash \cup {Malformed}
         /\ q.op = "raw" => q.source \in Source
         /\ q.op = "upload" => q.sources \in Seq(Source)
BY ApiAssumption DEF Request, Op

(* Only an upload asks for more than one thing, and every request asks for one. *)
LEMMA AskedFacts ==
  ASSUME NEW q \in Request
  PROVE  /\ Asked(q) \in Nat \ {0}
         /\ q.op # "upload" => Asked(q) = 1
         /\ q.op = "upload" /\ q.sources # <<>> => Asked(q) = Len(q.sources)
<1>1. CASE q.op = "upload" /\ q.sources # <<>>
  <2>1. q.sources \in Seq(Source)
    BY <1>1, RequestFacts
  <2>2. Len(q.sources) \in Nat \ {0}
    BY <1>1, <2>1
  <2> QED BY <1>1, <2>2 DEF Asked
<1>2. CASE ~(q.op = "upload" /\ q.sources # <<>>)
  BY <1>2 DEF Asked
<1> QED
  BY <1>1, <1>2

LEMMA OpTypes ==
  ASSUME NEW k \in CallState
  PROVE  k.req.op \in Op /\ [op |-> k.req.op] \in Request \cup [op : Op]
BY RequestFacts DEF CallState

(* A handler that asks for one thing returns what came of it. *)
LEMMA ReturnsOK ==
  ASSUME CallInv, NEW c \in Caller, NEW r \in Result \cup {NotKept}, r = NotKept => call[c].req.op = "upload",
         \/ call[c].pc \in {"body", "handler"} /\ (call[c].req.op # "upload" \/ r # Ok)
         \/ call[c].pc = "remove"
  PROVE  CallOK([call[c] EXCEPT !.pc = "finish", !.result = r, !.req = [op |-> @.op],
                                !.done = IF r = Ok THEN 1 ELSE @])
<1> DEFINE k == call[c]
           n == IF r = Ok THEN 1 ELSE k.done
           j == [k EXCEPT !.pc = "finish", !.result = r, !.req = [op |-> k.req.op], !.done = n]
<1>1. CallOK(k) /\ k \in CallState
  BY DEF CallInv, CallOK
<1>2. k.done = 0 /\ k.asked \in Nat \ {0} /\ (r = Ok => k.asked = 1)
  BY <1>1, AskedFacts DEF CallOK
<1>3. n \in Nat /\ (r = Ok <=> n = k.asked)
  BY <1>2
<1>4. [op |-> k.req.op] \in Request \cup [op : Op]
  BY <1>1, OpTypes
<1>5. r \in Verdict /\ "finish" \in Stage
  BY ResultTypes DEF Stage
<1> HIDE DEF n, k
<1>6. j \in CallState
  BY <1>1, <1>3, <1>4, <1>5 DEF CallState
<1>7. /\ j.pc = "finish" /\ j.result = r /\ j.done = n /\ j.asked = k.asked
      /\ j.req.op = k.req.op
  BY <1>1 DEF CallState
<1>9. r = NotKept => k.req.op = "upload"
  BY DEF k
<1> HIDE DEF j
<1>8. CallOK(j)
  BY <1>3, <1>6, <1>7, <1>9 DEF CallOK
<1> QED
  BY <1>8 DEF j, k, n

(* A step by which a handler returns. *)
LEMMA ReturnStep ==
  ASSUME CallInv, NoInvisibleChange, unseen \in SUBSET Caller,
         NEW c \in Caller, NEW r \in Result \cup {NotKept}, Returns(c, r), Page(c, "finish"),
         r = NotKept => call[c].req.op = "upload",
         \/ call[c].pc \in {"body", "handler"} /\ (call[c].req.op # "upload" \/ r # Ok)
         \/ call[c].pc = "remove"
  PROVE  CallInv' /\ NoInvisibleChange' /\ unseen' \in SUBSET Caller
<1> DEFINE j == [call[c] EXCEPT !.pc = "finish", !.result = r, !.req = [op |-> @.op],
                                !.done = IF r = Ok THEN 1 ELSE @]
<1>1. CallOK(j)
  BY ReturnsOK
<1>2. call[c] \in CallState
  BY DEF CallInv
<1>3. j.pc = "finish"
  BY <1>2 DEF CallState
<1>4. Goes(c, j)
  BY DEF Returns
<1> HIDE DEF j
<1> QED
  BY <1>1, <1>3, <1>4, CallGoes

-----------------------------------------------------------------------------
(* The engine's steps keep its phases phases. *)
LEMMA MoveTypes ==
  ASSUME Torrents!TypeOK, NEW h \in Hash, NEW from, NEW to \in SUBSET Torrents!Phase,
         Torrents!Move(h, from, to)
  PROVE  Torrents!TypeOK'
<1>1. PICK p \in to : phase' = [phase EXCEPT ![h] = p]
  BY DEF Torrents!Move
<1>2. phase' \in [Hash -> Torrents!Phase]
  BY <1>1 DEF Torrents!TypeOK
<1>3. closed' = closed
  BY DEF Torrents!Move
<1> QED
  BY <1>2, <1>3 DEF Torrents!TypeOK

LEMMA EngineTypes ==
  ASSUME Torrents!TypeOK, NEW h \in Hash,
         \/ Torrents!Add(h) \/ Torrents!Start(h) \/ Torrents!AutoStart(h) \/ Torrents!Resolve(h)
         \/ Torrents!Resume(h) \/ Torrents!Stop(h) \/ Torrents!Delete(h)
  PROVE  Torrents!TypeOK'
<1>1. PICK from, to \in SUBSET Torrents!Phase : Torrents!Move(h, from, to)
  <2>1. {"added"} \in SUBSET Torrents!Phase /\ {"waiting", "running"} \in SUBSET Torrents!Phase
        /\ {"ready"} \in SUBSET Torrents!Phase /\ {"running"} \in SUBSET Torrents!Phase
        /\ {"stopped"} \in SUBSET Torrents!Phase /\ {"absent"} \in SUBSET Torrents!Phase
    BY DEF Torrents!Phase
  <2> QED BY <2>1 DEF Torrents!Add, Torrents!Start, Torrents!AutoStart, Torrents!Resolve,
                      Torrents!Resume, Torrents!Stop, Torrents!Delete
<1> QED
  BY <1>1, MoveTypes

LEMMA UnchangedTypes ==
  ASSUME Torrents!TypeOK, UNCHANGED <<phase, closed>>
  PROVE  Torrents!TypeOK'
BY DEF Torrents!TypeOK

(* So do the methods the handlers call. *)
LEMMA NewTorrentTypes ==
  ASSUME Torrents!TypeOK, NEW content \in Content \cup {Malformed}, NEW r, NewTorrent(content, r)
  PROVE  Torrents!TypeOK'
<1>1. Unchanged_ \/ (content \in Hash /\ Torrents!Add(content))
  BY ApiAssumption DEF NewTorrent
<1> QED
  BY <1>1, EngineTypes, UnchangedTypes DEF Unchanged_

LEMMA VerbTypes ==
  ASSUME Torrents!TypeOK, NEW h \in Hash \cup {Malformed}, NEW r,
         StartTorrent(h, r) \/ StopTorrent(h, r) \/ DeleteTorrent(h, r)
  PROVE  Torrents!TypeOK'
<1>1. Unchanged_ \/ (h \in Hash /\ (Torrents!Start(h) \/ Torrents!Stop(h) \/ Torrents!Delete(h)))
  BY DEF StartTorrent, StopTorrent, DeleteTorrent, NotFound, Found
<1> QED
  BY <1>1, EngineTypes, UnchangedTypes DEF Unchanged_

-----------------------------------------------------------------------------
(* What a step leaves alone stays as it was. *)
LEMMA FetchUnchanged ==
  ASSUME FetchInv, UNCHANGED fetch
  PROVE  FetchInv'
BY DEF FetchInv, FetchOK

LEMMA CallUnchanged ==
  ASSUME CallInv, UNCHANGED call
  PROVE  CallInv'
BY DEF CallInv, CallOK

(* checkSameOrigin lets a call through as it came, to wait for its body if it has one, *)
(* or answers that it may not.                                                         *)
LEMMA OriginStep ==
  ASSUME IInv, NEW c \in Caller, checkSameOrigin(c)
  PROVE  IInv'
<1> DEFINE k == call[c]
           p == IF k.req.op \in WithBody THEN "body" ELSE "handler"
           through == [k EXCEPT !.pc = p]
           refused == [k EXCEPT !.pc = "answered", !.status = 403, !.req = [op |-> @.op],
                                !.result = Caused("crossOrigin")]
<1>1. CallOK(k) /\ k \in CallState /\ k.pc = "arrived" /\ unseen \in SUBSET Caller
  BY DEF IInv, CallInv, CallOK, WorldInv, checkSameOrigin
<1>2. CallOK(through)
  <2>1. p \in Stage /\ p \in {"body", "handler"}
    BY DEF Stage
  <2> HIDE DEF p
  <2>2. /\ through \in CallState /\ through.pc = p /\ through.req = k.req
        /\ through.asked = k.asked /\ through.done = k.done /\ through.failures = k.failures
    BY <1>1, <2>1 DEF CallState
  <2> HIDE DEF through, k
  <2> QED BY <1>1, <2>1, <2>2 DEF CallOK
<1>3. CallOK(refused) /\ refused.pc = "answered"
  <2>1. "answered" \in Stage /\ 403 \in Status /\ Caused("crossOrigin") \in Verdict
    BY DEF Stage, Status, Verdict, Fault, Caused, Error
  <2>2. [op |-> k.req.op] \in Request \cup [op : Op]
    BY <1>1, OpTypes
  <2>3. k.done = 0 /\ k.asked \in Nat \ {0}
    BY <1>1, AskedFacts DEF CallOK
  <2> HIDE DEF k
  <2>4. refused \in CallState
    <3> DEFINE q == [op |-> k.req.op]
               v == Caused("crossOrigin")
               s == 403
    <3>1. /\ "answered" \in Stage /\ s \in Status /\ v \in Verdict
          /\ q \in Request \cup [op : Op] /\ k \in CallState
      BY <1>1, <2>1, <2>2
    <3> HIDE DEF q, v, s
    <3>2. [k EXCEPT !.pc = "answered", !.status = s, !.req = q, !.result = v] \in CallState
      BY <3>1 DEF CallState
    <3> QED BY <3>2 DEF q, v, s
  <2>5. /\ refused.pc = "answered" /\ refused.status = 403
        /\ refused.result = Caused("crossOrigin")
        /\ refused.asked = k.asked /\ refused.done = k.done
    BY <1>1 DEF CallState
  <2>6. Caused("crossOrigin").fault = "caller"
    BY DEF Caused
  <2> HIDE DEF refused
  <2> QED BY <2>3, <2>4, <2>5, <2>6 DEF CallOK
<1>4. Goes(c, through) \/ Goes(c, refused)
  BY <1>1 DEF checkSameOrigin
<1>5. \A pc : Page(c, pc)
  BY <1>1 DEF checkSameOrigin, Page
<1> HIDE DEF through, refused
<1>6. CallInv' /\ NoInvisibleChange' /\ unseen' \in SUBSET Caller
  BY <1>1, <1>2, <1>3, <1>4, <1>5, CallGoes DEF IInv
<1>7. FetchInv' /\ WorldInv'
  BY <1>6, FetchUnchanged, UnchangedTypes DEF IInv, WorldInv, checkSameOrigin
<1> QED
  BY <1>6, <1>7 DEF IInv

(* The rest of a request arrives, or the handler refuses what it got of it. *)
LEMMA BodyStep ==
  ASSUME IInv, NEW c \in Caller, BodyArrives(c)
  PROVE  IInv'
<1> DEFINE k == call[c]
           j == [k EXCEPT !.pc = "handler"]
<1>1. /\ CallOK(k) /\ k \in CallState /\ k.pc = "body" /\ unseen \in SUBSET Caller
      /\ CallInv /\ NoInvisibleChange
  BY DEF IInv, CallInv, CallOK, WorldInv, BodyArrives
<1>2. \A pc : Page(c, pc)
  BY <1>1 DEF BodyArrives, Page
<1>3. ASSUME Returns(c, Caused("badRequest"))
      PROVE  CallInv' /\ NoInvisibleChange' /\ unseen' \in SUBSET Caller
  <2>1. Caused("badRequest") \in Result /\ Caused("badRequest") \notin {Ok, NotKept}
    BY DEF Result, Caused, Ok, NotKept
  <2>2. Page(c, "finish")
    BY <1>2
  <2> QED BY <1>1, <1>3, <2>1, <2>2, ReturnStep
<1>4. ASSUME Goes(c, j)
      PROVE  CallInv' /\ NoInvisibleChange' /\ unseen' \in SUBSET Caller
  <2>1. "handler" \in Stage
    BY DEF Stage
  <2>2. /\ j \in CallState /\ j.pc = "handler" /\ j.req = k.req
        /\ j.asked = k.asked /\ j.done = k.done /\ j.failures = k.failures
    BY <1>1, <2>1 DEF CallState
  <2> HIDE DEF j, k
  <2>3. CallOK(j)
    BY <1>1, <2>2 DEF CallOK
  <2>4. Page(c, j.pc)
    BY <1>2
  <2> QED BY <1>1, <1>4, <2>3, <2>4, CallGoes
<1>5. CallInv' /\ NoInvisibleChange' /\ unseen' \in SUBSET Caller
  BY <1>3, <1>4 DEF BodyArrives
<1>6. FetchInv' /\ WorldInv'
  BY <1>5, FetchUnchanged, UnchangedTypes DEF IInv, WorldInv, BodyArrives
<1> QED
  BY <1>5, <1>6 DEF IInv

(* The handlers that ask for one thing. *)
LEMMA HandlerStep ==
  ASSUME IInv, NEW c \in Caller,
         \/ Refuse(c) \/ Apply(c) \/ FetchFailed(c) \/ Fetched(c) \/ handleTorrentFile(c)
  PROVE  IInv'
<1>1. /\ CallOK(call[c]) /\ call[c] \in CallState /\ call[c].pc = "handler"
      /\ call[c].req \in Request /\ call[c].req.op # "upload" /\ unseen \in SUBSET Caller
      /\ FetchOK(fetch[c]) /\ Torrents!TypeOK
  BY DEF IInv, CallInv, CallOK, FetchInv, WorldInv, Handling, Refuse, Apply, FetchFailed, Fetched,
         handleTorrentFile
<1>2. Outcome \subseteq Result /\ Caused("badRequest") \in Result
  BY DEF Result
<1>3. \E r \in Result : Returns(c, r)
  <2>1. CASE FetchFailed(c)
    <3> DEFINE v == [err |-> fetch[c].err, fault |-> fetch[c].fault]
    <3>1. \/ v = Caused("ErrInvalidURL") \/ v = Operational({"ErrUpstream"})
          \/ v = [err |-> {"ErrUpstream", "ErrBlocked"}, fault |-> "caller"]
          \/ v = [err |-> {"ErrUpstream"}, fault |-> "unnoticed"]
      <4>1. fetch[c].fault \in Fault /\ fetch[c].pc = "failed"
        BY <1>1, <2>1 DEF FetchOK, FetchState, FetchFailed
      <4> QED BY <1>1, <4>1 DEF FetchOK, Fault, Caused, Operational
    <3>2. v \in Result
      BY <3>1 DEF Result
    <3> QED BY <2>1, <3>2 DEF FetchFailed
  <2> QED BY <1>2, <2>1 DEF Refuse, Apply, Fetched, handleTorrentFile
<1>4. Page(c, "finish")
  BY <1>1 DEF Page, Shows, Refuse, Apply, FetchFailed, Fetched, handleTorrentFile
<1>9. NotKept \notin Result
  BY DEF NotKept, Result, Outcome, Ok, Caused, Operational, Unnoticed
<1>5. CallInv' /\ NoInvisibleChange' /\ unseen' \in SUBSET Caller
  BY <1>1, <1>3, <1>4, <1>9, ReturnStep DEF IInv
<1>6. FetchInv'
  BY FetchUnchanged, FetchBecomes, NoFetchOK
     DEF IInv, Refuse, Apply, FetchFailed, Fetched, handleTorrentFile
<1>7. Torrents!TypeOK'
  <2>1. CASE Refuse(c) \/ FetchFailed(c)
    BY <1>1, <2>1, UnchangedTypes DEF Refuse, FetchFailed
  <2>2. CASE Apply(c)
    <3>1. call[c].req.target \in Hash \cup {Malformed}
      BY <1>1, <2>2, RequestFacts DEF Apply, Handling
    <3>2. PICK r \in Outcome : \/ NewTorrent(call[c].req.target, r)
                               \/ StartTorrent(call[c].req.target, r)
                               \/ StopTorrent(call[c].req.target, r)
                               \/ DeleteTorrent(call[c].req.target, r)
      BY <2>2, Zenon DEF Apply, Handling
    <3> QED BY <1>1, <3>1, <3>2, NewTorrentTypes, VerbTypes, ApiAssumption
  <2>3. CASE Fetched(c)
    <3>1. fetch[c].got \in Content \cup {Malformed}
      BY <1>1 DEF FetchOK, FetchState
    <3> QED BY <1>1, <2>3, <3>1, NewTorrentTypes DEF Fetched
  <2>4. CASE handleTorrentFile(c)
    <3>1. call[c].req.source.content \in Content \cup {Malformed}
      BY <1>1, <2>4, RequestFacts DEF handleTorrentFile, Handling, Source, Body
    <3> QED BY <1>1, <2>4, <3>1, NewTorrentTypes, UnchangedTypes DEF handleTorrentFile, Unchanged_
  <2> QED BY <2>1, <2>2, <2>3, <2>4
<1>8. files' = files /\ kickCh' = kickCh
  BY DEF Refuse, Apply, FetchFailed, Fetched, handleTorrentFile
<1> QED
  BY <1>5, <1>6, <1>7, <1>8 DEF IInv, WorldInv

(* An upload is refused as a whole, or its files are taken one by one. *)
LEMMA ParseStep ==
  ASSUME IInv, NEW c \in Caller, ParseMultipartForm(c)
  PROVE  IInv'
<1> DEFINE k == call[c]
           j == [k EXCEPT !.pc = "files", !.todo = k.req.sources, !.req = [op |-> @.op]]
<1>1. /\ CallOK(k) /\ k \in CallState /\ k.pc = "handler" /\ k.req.op = "upload"
      /\ k.req \in Request /\ unseen \in SUBSET Caller
  BY DEF IInv, CallInv, CallOK, WorldInv, Handling, ParseMultipartForm
<1>2. \A pc : Page(c, pc)
  BY <1>1 DEF Page, ParseMultipartForm
<1>3. ASSUME NEW r \in {Caused("badRequest"), NotKept}, Returns(c, r)
      PROVE  CallInv' /\ NoInvisibleChange' /\ unseen' \in SUBSET Caller
  <2>1. r \in Result \cup {NotKept} /\ r # Ok
    BY <1>3 DEF Result, Caused, NotKept, Ok
  <2>2. Page(c, "finish")
    BY <1>2
  <2>3. CallInv /\ NoInvisibleChange
    BY DEF IInv
  <2> QED BY <1>1, <1>3, <2>1, <2>2, <2>3, ReturnStep
<1>4. ASSUME k.req.sources # <<>>, Goes(c, j)
      PROVE  CallInv' /\ NoInvisibleChange' /\ unseen' \in SUBSET Caller
  <2>1. k.req.sources \in Seq(Source) /\ k.asked = Len(k.req.sources)
    BY <1>1, <1>4, RequestFacts, AskedFacts DEF CallOK
  <2>2. k.done = 0 /\ k.failures = 0
    BY <1>1 DEF CallOK
  <2>3. "files" \in Stage
    BY DEF Stage
  <2>4. [op |-> k.req.op] \in Request \cup [op : Op]
    BY <1>1, OpTypes
  <2>5. j \in CallState
    <3> DEFINE q == [op |-> k.req.op]
               t == k.req.sources
    <3>1. "files" \in Stage /\ t \in Seq(Source) /\ q \in Request \cup [op : Op] /\ k \in CallState
      BY <1>1, <2>1, <2>3, <2>4
    <3> HIDE DEF q, t, k
    <3>2. [k EXCEPT !.pc = "files", !.todo = t, !.req = q] \in CallState
      BY <3>1 DEF CallState
    <3> QED BY <3>2 DEF q, t
  <2>6. /\ j.pc = "files" /\ j.todo = k.req.sources /\ j.req.op = k.req.op /\ j.asked = k.asked
        /\ j.done = k.done /\ j.failures = k.failures
    BY <1>1 DEF CallState
  <2>7. Len(k.req.sources) \in Nat
    BY <2>1
  <2>8. CallOK(j)
    <3> HIDE DEF j, k
    <3> QED BY <1>1, <2>1, <2>2, <2>5, <2>6, <2>7 DEF CallOK
  <2>9. Page(c, j.pc)
    BY <1>2
  <2>10. CallInv /\ NoInvisibleChange
    BY DEF IInv
  <2> HIDE DEF j
  <2> QED BY <1>1, <1>4, <2>8, <2>9, <2>10, CallGoes
<1>5. CallInv' /\ NoInvisibleChange' /\ unseen' \in SUBSET Caller
  BY <1>3, <1>4 DEF ParseMultipartForm
<1>6. FetchInv' /\ WorldInv'
  BY <1>5, FetchUnchanged, UnchangedTypes DEF IInv, WorldInv, ParseMultipartForm
<1> QED
  BY <1>5, <1>6 DEF IInv

(* Every file of an upload is accounted for once, as done or as a failure. *)
LEMMA OneFile ==
  ASSUME NEW k, CallOK(k), k.pc = "files", k.todo # <<>>, NEW j \in {AddedOne(k), FailedOne(k)}
  PROVE  CallOK(j) /\ j.pc = "files"
<1>1. k \in CallState /\ k.todo \in Seq(Source) /\ k.done \in Nat /\ k.failures \in Nat
  BY DEF CallOK, CallState
<1>2. /\ k.done + 1 \in Nat /\ k.failures + 1 \in Nat
      /\ Tail(k.todo) \in Seq(Source) /\ Len(Tail(k.todo)) = Len(k.todo) - 1 /\ Len(k.todo) \in Nat
  BY <1>1
<1>3. j \in CallState
  <2> DEFINE t == Tail(k.todo)
             d == k.done + 1
             f == k.failures + 1
  <2>1. k \in CallState /\ t \in Seq(Source) /\ d \in Nat /\ f \in Nat
    BY <1>1, <1>2
  <2>2. AddedOne(k) = [k EXCEPT !.todo = t, !.done = d]
        /\ FailedOne(k) = [k EXCEPT !.todo = t, !.failures = f]
    BY DEF AddedOne, FailedOne
  <2> HIDE DEF t, d, f
  <2>3. [k EXCEPT !.todo = t, !.done = d] \in CallState
    BY <2>1 DEF CallState
  <2>4. [k EXCEPT !.todo = t, !.failures = f] \in CallState
    BY <2>1 DEF CallState
  <2> QED BY <2>2, <2>3, <2>4
<1>4. /\ j.pc = k.pc /\ j.req = k.req /\ j.asked = k.asked /\ j.todo = Tail(k.todo)
      /\ \/ j.done = k.done + 1 /\ j.failures = k.failures
         \/ j.done = k.done /\ j.failures = k.failures + 1
  BY <1>1 DEF CallState, AddedOne, FailedOne
<1>5. j.done + j.failures + Len(j.todo) = j.asked
  <2>1. k.done + k.failures + Len(k.todo) = k.asked
    BY DEF CallOK
  <2> DEFINE a == k.asked
             d == k.done
             f == k.failures
             n == Len(k.todo)
  <2>2. d \in Nat /\ f \in Nat /\ n \in Nat /\ d + f + n = a
    BY <1>1, <1>2, <2>1
  <2>3. \/ j.done = d + 1 /\ j.failures = f
        \/ j.done = d /\ j.failures = f + 1
    BY <1>4
  <2>4. Len(j.todo) = n - 1 /\ j.asked = a
    BY <1>2, <1>4
  <2> HIDE DEF a, d, f, n
  <2> QED BY <2>2, <2>3, <2>4
<1> QED
  BY <1>3, <1>4, <1>5 DEF CallOK

LEMMA UploadStep ==
  ASSUME IInv, NEW c \in Caller, UploadFile(c)
  PROVE  IInv'
<1>1. /\ CallOK(call[c]) /\ call[c] \in CallState /\ call[c].pc = "files" /\ call[c].todo # <<>>
      /\ unseen \in SUBSET Caller /\ Torrents!TypeOK
  BY DEF IInv, CallInv, CallOK, WorldInv, UploadFile
<1>2. PICK j \in {AddedOne(call[c]), FailedOne(call[c])} : Goes(c, j)
  BY DEF UploadFile, Unreadable
<1>3. CallOK(j) /\ j.pc = "files"
  BY <1>1, <1>2, OneFile
<1>4. Page(c, "files")
  BY DEF Page, Shows, UploadFile
<1>5. CallInv' /\ NoInvisibleChange' /\ unseen' \in SUBSET Caller
  BY <1>1, <1>2, <1>3, <1>4, CallGoes DEF IInv
<1>6. Head(call[c].todo) \in Body
  <2>1. call[c].todo \in Seq(Source)
    BY <1>1 DEF CallState
  <2> QED BY <1>1, <2>1 DEF Source
<1>7. \A n : Read(Head(call[c].todo), n) \in Content \cup {Malformed}
  BY <1>6 DEF Read, Body
<1>8. Torrents!TypeOK'
  BY <1>1, <1>7, NewTorrentTypes, UnchangedTypes DEF UploadFile, Unchanged_
<1>9. FetchInv' /\ files' = files /\ kickCh' = kickCh
  BY FetchUnchanged DEF IInv, UploadFile
<1> QED
  BY <1>5, <1>8, <1>9 DEF IInv, WorldInv

(* An upload succeeds when none of its files failed, so when all of them are done. *)
LEMMA UploadEndStep ==
  ASSUME IInv, NEW c \in Caller, UploadEnds(c)
  PROVE  IInv'
<1> DEFINE k == call[c]
           r == IF k.failures > 0 THEN Caused("badRequest") ELSE Ok
           j == [k EXCEPT !.pc = "finish", !.failures = 0, !.result = r]
<1>1. /\ CallOK(k) /\ k \in CallState /\ k.pc = "files" /\ k.todo = <<>>
      /\ k.done \in Nat /\ k.failures \in Nat /\ unseen \in SUBSET Caller
  BY DEF IInv, CallInv, CallOK, CallState, WorldInv, UploadEnds
<1>2. r \in Result /\ r # NotKept /\ (r = Ok <=> k.failures = 0)
  BY <1>1 DEF Result, Outcome, Caused, NotKept, Ok
<1>3. k.done + k.failures = k.asked
  <2>1. Len(k.todo) = 0
    BY <1>1
  <2>2. k.done + k.failures + Len(k.todo) = k.asked
    BY <1>1 DEF CallOK
  <2> QED BY <1>1, <2>1, <2>2
<1>4. r = Ok <=> k.done = k.asked
  BY <1>1, <1>2, <1>3
<1>5. r \in Verdict /\ "finish" \in Stage
  BY <1>2, ResultTypes DEF Stage
<1>6. Goes(c, j)
  BY DEF UploadEnds
<1> HIDE DEF r
<1>7. j \in CallState /\ j.pc = "finish"
  BY <1>1, <1>5 DEF CallState
<1>8. j.result = r /\ j.done = k.done /\ j.asked = k.asked
  BY <1>1 DEF CallState
<1> HIDE DEF j, k
<1>9. CallOK(j)
  BY <1>2, <1>4, <1>7, <1>8 DEF CallOK
<1>10. Page(c, j.pc)
  BY <1>7 DEF Page, UploadEnds
<1>11. CallInv' /\ NoInvisibleChange' /\ unseen' \in SUBSET Caller
  BY <1>1, <1>6, <1>9, <1>10, CallGoes DEF IInv
<1>12. FetchInv' /\ WorldInv'
  BY <1>11, FetchUnchanged, UnchangedTypes DEF IInv, WorldInv, UploadEnds
<1> QED
  BY <1>11, <1>12 DEF IInv

(* Setting the stage of a call. *)
LEMMA StageSet ==
  ASSUME NEW k \in CallState, NEW p \in Stage
  PROVE  /\ [k EXCEPT !.pc = p] \in CallState
         /\ [k EXCEPT !.pc = p].pc = p
         /\ \A f \in {"req", "asked", "todo", "done", "failures", "result", "status"} :
              [k EXCEPT !.pc = p][f] = k[f]
BY DEF CallState

(* A deletion: the path is resolved, and then what is there is removed. *)
LEMMA DeleteStep ==
  ASSUME IInv, NEW c \in Caller, ResolveWithin(c) \/ RemoveAll(c)
  PROVE  IInv'
<1> DEFINE k == call[c]
           j == [k EXCEPT !.pc = "remove"]
<1>1. /\ CallOK(k) /\ k \in CallState /\ unseen \in SUBSET Caller
      /\ (k.pc = "handler" /\ k.req.op # "upload") \/ k.pc = "remove"
      /\ CallInv /\ NoInvisibleChange
  BY DEF IInv, CallInv, CallOK, WorldInv, Handling, ResolveWithin, RemoveAll
<1>2. Page(c, "finish") /\ (ResolveWithin(c) => Page(c, "remove"))
  BY <1>1 DEF Page, Shows, ResolveWithin, RemoveAll, Handling
<1>3. /\ Ok \in Result /\ Operational({}) \in Result
      /\ Caused("ErrOutsideRoot") \in Result /\ Caused("ErrNotExist") \in Result
      /\ Unnoticed \in Result /\ NotKept \notin Result
  BY DEF Result, Outcome, NotKept, Ok, Caused, Operational, Unnoticed
<1>4. (\E r \in Result : Returns(c, r)) \/ (ResolveWithin(c) /\ Goes(c, j))
  <2>1. CASE ResolveWithin(c)
    <3> USE <2>1 DEF ResolveWithin
    <3>1. CASE k.req.path = {}
      BY <1>3, <3>1
    <3>2. CASE k.req.path # {} /\ k.req.path \cap files = {}
      BY <1>3, <3>2
    <3>3. CASE k.req.path # {} /\ k.req.path \cap files # {}
      BY <1>3, <3>3
    <3> QED BY <3>1, <3>2, <3>3
  <2>2. CASE RemoveAll(c)
    BY <1>3, <2>2 DEF RemoveAll
  <2> QED BY <2>1, <2>2
<1>5. CallInv' /\ NoInvisibleChange' /\ unseen' \in SUBSET Caller
  <2>1. CASE \E r \in Result : Returns(c, r)
    BY <1>1, <1>2, <1>3, <2>1, ReturnStep
  <2>2. CASE ResolveWithin(c) /\ Goes(c, j)
    <3>1. k.pc = "handler" /\ k.req.op = "deleteFile"
      BY <2>2 DEF ResolveWithin, Handling
    <3>2. "remove" \in Stage
      BY DEF Stage
    <3>3. k.asked = 1 /\ k.done = 0
      BY <1>1, <3>1, AskedFacts DEF CallOK
    <3>4. j \in CallState /\ j.pc = "remove" /\ j["asked"] = k["asked"] /\ j["done"] = k["done"]
      BY <1>1, <3>2, StageSet
    <3> HIDE DEF j, k
    <3>5. CallOK(j)
      BY <3>3, <3>4 DEF CallOK
    <3> QED BY <1>1, <1>2, <2>2, <3>4, <3>5, CallGoes
  <2> QED BY <1>4, <2>1, <2>2
<1>6. FetchInv' /\ Torrents!TypeOK' /\ kickCh' = kickCh
  BY FetchUnchanged, UnchangedTypes DEF IInv, WorldInv, ResolveWithin, RemoveAll
<1>7. files' \in SUBSET File
  BY DEF IInv, WorldInv, ResolveWithin, RemoveAll
<1> QED
  BY <1>5, <1>6, <1>7 DEF IInv, WorldInv

(* finishAPI wakes the render loop, and answers with the status of the result. *)
LEMMA FinishStep ==
  ASSUME IInv, NEW c \in Caller, finishAPI(c)
  PROVE  IInv'
<1> DEFINE k == call[c]
           s == classify(k.result.err)
           j == [k EXCEPT !.pc = "answered", !.status = s, !.result.err = {}]
<1>1. /\ CallOK(k) /\ k \in CallState /\ k.pc = "finish" /\ unseen \in SUBSET Caller
      /\ CallInv /\ NoInvisibleChange
  BY DEF IInv, CallInv, CallOK, WorldInv, finishAPI
<1>2. /\ k.result \in Result \cup {NotKept} /\ (k.result = Ok <=> k.done = k.asked)
      /\ k.result = NotKept => k.req.op = "upload"
  BY <1>1 DEF CallOK
<1>3. /\ s \in Status
      /\ s = 200 <=> k.done = k.asked
      /\ k.req.op # "upload" => /\ s \in 400..499 <=> k.result.fault = "caller"
                                /\ s >= 500 <=> k.result.fault \in {"server", "unnoticed"}
  BY <1>2, Classified DEF Status
<1>4. Goes(c, j) /\ kickCh' = TRUE /\ unseen' = unseen
  BY DEF finishAPI, kicks
<1>5. Page(c, "answered")
  BY <1>4 DEF Page
<1>6. k.result \in Verdict /\ "answered" \in Stage
  BY <1>2, ResultTypes DEF Stage
<1> HIDE DEF s, k
<1>7. [k.result EXCEPT !.err = {}] \in Verdict
      /\ [k.result EXCEPT !.err = {}].fault = k.result.fault
  BY <1>6 DEF Verdict
<1>8. j = [k EXCEPT !.pc = "answered", !.status = s, !.result = [k.result EXCEPT !.err = {}]]
  BY <1>1 DEF CallState
<1>9. j \in CallState /\ j.pc = "answered" /\ j.status = s /\ j.result.fault = k.result.fault
      /\ j.done = k.done /\ j.asked = k.asked /\ j.req.op = k.req.op
  <2> DEFINE v == [k.result EXCEPT !.err = {}]
  <2>1. v \in Verdict /\ v.fault = k.result.fault
    BY <1>7
  <2>2. j = [k EXCEPT !.pc = "answered", !.status = s, !.result = v]
    BY <1>8
  <2> HIDE DEF v, j
  <2> QED BY <1>1, <1>3, <1>6, <2>1, <2>2 DEF CallState
<1> HIDE DEF j
<1>10. CallOK(j)
  BY <1>3, <1>9 DEF CallOK
<1>11. CallInv' /\ NoInvisibleChange' /\ unseen' \in SUBSET Caller
  BY <1>1, <1>4, <1>5, <1>9, <1>10, CallGoes
<1>12. FetchInv' /\ WorldInv'
  BY <1>4, <1>11, FetchUnchanged, UnchangedTypes DEF IInv, WorldInv, finishAPI
<1> QED
  BY <1>11, <1>12 DEF IInv

-----------------------------------------------------------------------------
(* A call begins with what is asked for, and leaves nothing behind. *)
LEMMA IdleOK == CallOK(Idle)
<1>1. Ok \in Verdict /\ "idle" \in Stage /\ 0 \in Status
  BY DEF Verdict, Ok, Error, Stage, Status
<1>2. [op |-> "nothing"] \in [op : Op]
  BY DEF Op
<1>3. <<>> \in Seq(Source)
  OBVIOUS
<1>4. Idle \in CallState
  <2> DEFINE q == [op |-> "nothing"]
             t == <<>>
             z == 0
  <2>1. Ok \in Verdict /\ "idle" \in Stage /\ z \in Status /\ z \in Nat
        /\ q \in Request \cup [op : Op] /\ t \in Seq(Source)
    BY <1>1, <1>2, <1>3
  <2>2. Idle = [pc |-> "idle", req |-> q, asked |-> z, todo |-> t, done |-> z,
                failures |-> z, result |-> Ok, status |-> z]
    BY DEF Idle
  <2> HIDE DEF q, t, z
  <2> QED BY <2>1, <2>2 DEF CallState
<1>5. Idle.pc = "idle"
  BY DEF Idle
<1> QED
  BY <1>4, <1>5 DEF CallOK

LEMMA SendStep ==
  ASSUME IInv, NEW c \in Caller, Send(c)
  PROVE  IInv'
<1>1. /\ call[c].pc = "idle" /\ unseen \in SUBSET Caller /\ CallInv /\ NoInvisibleChange
      /\ UNCHANGED <<fetch, phase, closed, files, kickCh, unseen>>
  BY DEF IInv, WorldInv, Send
<1>2. PICK q \in Request :
        Goes(c, [Idle EXCEPT !.pc = "arrived", !.req = q, !.asked = Asked(q)])
  BY SendsAssumption DEF Send
<1> DEFINE j == [Idle EXCEPT !.pc = "arrived", !.req = q, !.asked = Asked(q)]
<1>3. Idle \in CallState /\ "arrived" \in Stage /\ Asked(q) \in Nat
  BY IdleOK, AskedFacts DEF CallOK, Stage
<1>4. j \in CallState
  BY <1>3 DEF CallState
<1>5. j.pc = "arrived" /\ j.req = q /\ j.asked = Asked(q) /\ j.done = 0 /\ j.failures = 0
  BY DEF Idle
<1>6. Goes(c, j)
  BY <1>2
<1> HIDE DEF j
<1>7. CallOK(j)
  BY <1>4, <1>5 DEF CallOK
<1>8. Page(c, j.pc)
  BY <1>1 DEF Page
<1>9. CallInv' /\ NoInvisibleChange' /\ unseen' \in SUBSET Caller
  BY <1>1, <1>6, <1>7, <1>8, CallGoes
<1>10. FetchInv' /\ WorldInv'
  BY <1>1, <1>9, FetchUnchanged, UnchangedTypes DEF IInv, WorldInv
<1> QED
  BY <1>9, <1>10 DEF IInv

LEMMA LeaveStep ==
  ASSUME IInv, NEW c \in Caller, Leave(c)
  PROVE  IInv'
<1>1. /\ call[c].pc = "answered" /\ unseen \in SUBSET Caller /\ CallInv /\ NoInvisibleChange
      /\ UNCHANGED <<fetch, phase, closed, files, kickCh, unseen>> /\ Goes(c, Idle)
  BY DEF IInv, WorldInv, Leave
<1>2. Page(c, Idle.pc)
  BY <1>1 DEF Page
<1>3. CallInv' /\ NoInvisibleChange' /\ unseen' \in SUBSET Caller
  BY <1>1, <1>2, IdleOK, CallGoes
<1>4. FetchInv' /\ WorldInv'
  BY <1>1, <1>3, FetchUnchanged, UnchangedTypes DEF IInv, WorldInv
<1> QED
  BY <1>3, <1>4 DEF IInv

(* What is not a step of a call. *)
LEMMA OtherStep ==
  ASSUME IInv,
         \/ \E c \in Caller : FetchStep(c) \/ AddURL(c)
         \/ Draw \/ EngineSteps \/ \E x \in File : Write(x)
  PROVE  IInv'
<1>1. CallInv'
  BY CallUnchanged DEF IInv, FetchStep, AddURL, Draw, EngineSteps, Write
<1>2. NoInvisibleChange'
  <2>1. call' = call
    BY DEF FetchStep, AddURL, Draw, EngineSteps, Write
  <2>2. unseen' = {} \/ (unseen' = unseen /\ kickCh' = kickCh)
    BY DEF FetchStep, AddURL, Draw, EngineSteps, Write
  <2> QED BY <2>1, <2>2 DEF IInv, NoInvisibleChange
<1>3. FetchInv'
  BY FetchUnchanged, FetchStepOK, FetchBecomes, StartsOK
     DEF IInv, FetchStep, AddURL, Draw, EngineSteps, Write, StartFetch
<1>4. Torrents!TypeOK'
  <2>1. CASE UNCHANGED <<phase, closed>>
    BY <2>1, UnchangedTypes DEF IInv, WorldInv
  <2>2. CASE Torrents!Close
    BY <2>2 DEF Torrents!Close, Torrents!TypeOK, Torrents!Phase
  <2>3. CASE \E h \in Hash : Torrents!AutoStart(h) \/ Torrents!Resolve(h) \/ Torrents!Resume(h)
    BY <2>3, EngineTypes DEF IInv, WorldInv
  <2> QED BY <2>1, <2>2, <2>3 DEF FetchStep, AddURL, Draw, EngineSteps, Write
<1>5. files' \in SUBSET File /\ kickCh' \in BOOLEAN /\ unseen' \in SUBSET Caller
  BY DEF IInv, WorldInv, FetchStep, AddURL, Draw, EngineSteps, Write
<1> QED
  BY <1>1, <1>2, <1>3, <1>4, <1>5 DEF IInv, WorldInv

-----------------------------------------------------------------------------
LEMMA InitOK == Init => IInv
<1> SUFFICES ASSUME Init PROVE IInv
  OBVIOUS
<1>1. FetchInv
  BY NoFetchOK DEF Init, FetchInit, FetchInv, FetchOK
<1>2. CallInv
  BY IdleOK DEF Init, CallInv, CallOK
<1>3. WorldInv
  BY DEF Init, WorldInv, Torrents!Init, Torrents!TypeOK, Torrents!Phase
<1>4. NoInvisibleChange
  BY DEF Init, NoInvisibleChange
<1> QED
  BY <1>1, <1>2, <1>3, <1>4 DEF IInv

LEMMA StepOK == IInv /\ [Next]_vars => IInv'
<1> SUFFICES ASSUME IInv, [Next]_vars PROVE IInv'
  OBVIOUS
<1>1. ASSUME NEW c \in Caller, Handle(c) PROVE IInv'
  BY <1>1, OriginStep, HandlerStep, ParseStep, UploadStep, UploadEndStep, DeleteStep, FinishStep,
     OtherStep DEF Handle
<1>2. ASSUME NEW c \in Caller, Send(c) \/ BodyArrives(c) \/ Leave(c) PROVE IInv'
  BY <1>2, SendStep, BodyStep, LeaveStep
<1>3. CASE UNCHANGED vars
  BY <1>3, FetchUnchanged, CallUnchanged, UnchangedTypes
     DEF IInv, WorldInv, NoInvisibleChange, vars
<1> QED
  BY <1>1, <1>2, <1>3, OtherStep DEF Next

(* The inductive invariant holds in every state that can be reached. *)
THEOREM ApiInvariant == Spec => []IInv
BY InitOK, StepOK, PTL DEF Spec

(* Every variable keeps its type: callers' calls and fetches, the engine and the files. *)
THEOREM ApiTypes == Spec => []TypeOK
<1>1. IInv => TypeOK
  BY DEF IInv, FetchInv, CallInv, WorldInv, TypeOK, FetchTypeOK
<1> QED
  BY <1>1, ApiInvariant, PTL

(* Whatever a call changed is on the page or will be drawn, also when it failed half   *)
(* way (finishAPI's unconditional kick).                                               *)
THEOREM ChangesAreShown == Spec => []NoInvisibleChange
<1>1. IInv => NoInvisibleChange
  BY DEF IInv
<1> QED
  BY <1>1, ApiInvariant, PTL

(* Success is answered exactly when all that was asked for was done                    *)
(* (addUploadedTorrents, classify).                                                    *)
THEOREM AnswersAreTrue == Spec => []OutcomeIsTrue
<1>1. IInv => OutcomeIsTrue
  BY DEF IInv, CallInv, CallOK, OutcomeIsTrue
<1> QED
  BY <1>1, ApiInvariant, PTL

(* Outside uploads, a 4xx is answered exactly when what the caller sent caused the     *)
(* error and somebody looked, a 5xx when it is another's doing or went unnoticed       *)
(* (classify, and the chains the engine, the files and the fetch wrap errors in).      *)
THEOREM BlameIsTheCausers == Spec => []BlameIsRight
<1>1. IInv => BlameIsRight
  BY DEF IInv, CallInv, CallOK, BlameIsRight
<1> QED
  BY <1>1, ApiInvariant, PTL

(* Only addresses that may be dialled are dialled, through every redirect and every    *)
(* lookup, and what is fetched is never cut off (guardedDialContext, Client.Torrent).  *)
THEOREM FetchesAreSound == Spec => []FetchIsSound
<1>1. IInv => FetchIsSound
  BY DEF IInv, FetchInv, FetchOK, FetchIsSound
<1> QED
  BY <1>1, ApiInvariant, PTL
=============================================================================
