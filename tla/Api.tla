-------------------------------- MODULE Api --------------------------------
(***************************************************************************)
(* The mutating HTTP API: the same-origin check, a handler, and finishAPI, *)
(* which kicks the render loop and maps the handler's error onto a status. *)
(*                                                                         *)
(* Calls run concurrently with each other, with the engine's own steps and *)
(* with whoever else writes the files.  The engine is what it promises,    *)
(* module TorrentLifecycle, which module Engine implements; a call of it   *)
(* is one step.  An error is the set of sentinels in its chain.  The form  *)
(* of the answer (plain text or an htmx fragment) and its wording are left *)
(* out, and /api/configure is module ConfigStore.                          *)
(***************************************************************************)
EXTENDS Fetch, SequencesExt

CONSTANTS
  Hash,       \* infohashes; a .torrent holds one
  File,       \* entries of the download directory
  MaxUpload,  \* bound on the files of one upload
  Sends       \* what each caller may ask for (all of Request, or less to bound a model)

ASSUME ApiAssumption ==
  /\ Content = Hash
  /\ MaxUpload \in Nat \ {0}

VARIABLES
  phase, closed,   \* the engine (TorrentLifecycle)
  files,           \* the entries that exist
  call,            \* what each caller's call is doing
  kickCh,          \* a render kick is pending
  unseen           \* callers that changed something which was not drawn since

vars == <<fetch, phase, closed, files, call, kickCh, unseen>>

Torrents == INSTANCE TorrentLifecycle

-----------------------------------------------------------------------------
(* Requests. *)

Source == Body

Request ==
  [op : {"nothing", "url"}]
    \cup [op : {"magnet"}, target : Hash \cup {Malformed}]
    \cup [op : {"raw"}, source : Source]
    \cup [op : {"upload"}, sources : UNION {[1..n -> Source] : n \in 0..MaxUpload}]
    \cup [op : {"start", "stop", "delete"}, target : Hash \cup {Malformed}]
    \cup [op : {"deleteFile"}, path : SUBSET File]

ASSUME SendsAssumption == \A c \in Caller : Sends[c] \subseteq Request

(* How much a request asks for. *)
Asked(q) == IF q.op = "upload" /\ q.sources # <<>> THEN Len(q.sources) ELSE 1

(* err is {"nil"} for no error and {} for one without a sentinel; fault says whose     *)
(* doing it is, by what really happened.  What is wrong with a request may go          *)
(* unnoticed until a system call or a library fails for it.                            *)
Ok == [err |-> {"nil"}, fault |-> "none"]
Caused(err)      == [err |-> {err}, fault |-> "caller"]
Operational(err) == [err |-> err, fault |-> "server"]
Unnoticed        == [err |-> {}, fault |-> "unnoticed"]

Error == {"nil", "badRequest", "crossOrigin", "ErrInvalidInput", "ErrInvalidURL", "ErrBlocked",
          "ErrMissingTorrent", "ErrAlreadyStarted", "ErrAlreadyStopped", "ErrOutsideRoot",
          "ErrNotExist", "ErrNotConfigured", "ErrClosed", "ErrUpstream", "ErrRestartRequired"}

Op == {"nothing", "url", "magnet", "raw", "upload", "start", "stop", "delete", "deleteFile"}

(* "body": the handler waits for the rest of the request, for as long as that takes. *)
Stage == {"idle", "arrived", "body", "handler", "files", "remove", "finish", "answered"}

Verdict == [err : SUBSET Error, fault : Fault \cup {"none"}]

(* 0 before there is one. *)
Status == {0, 200, 400, 403, 404, 409, 500, 502, 503}

CallState ==
  [pc : Stage, req : Request \cup [op : Op], asked : Nat, todo : Seq(Source), done : Nat,
   failures : Nat, result : Verdict, status : Status]

Idle == [pc |-> "idle", req |-> [op |-> "nothing"], asked |-> 0, todo |-> <<>>, done |-> 0,
         failures |-> 0, result |-> Ok, status |-> 0]

TypeOK ==
  /\ FetchTypeOK
  /\ Torrents!TypeOK
  /\ files \in SUBSET File
  /\ call \in [Caller -> CallState]
  /\ kickCh \in BOOLEAN /\ unseen \in SUBSET Caller

Init ==
  /\ FetchInit
  /\ Torrents!Init
  /\ files = File
  /\ call = [c \in Caller |-> Idle]
  /\ kickCh = FALSE /\ unseen = {}

-----------------------------------------------------------------------------
(* The engine's methods: r is the outcome of the call. *)

Unchanged_ == UNCHANGED <<phase, closed>>

(* A .torrent may pass the parser and still be refused by the client it is added to. *)
NewTorrent(content, r) ==
  \/ content = Malformed /\ r = Caused("ErrInvalidInput") /\ Unchanged_
  \/ content = Malformed /\ ~closed /\ r = Unnoticed /\ Unchanged_
  \/ content # Malformed /\ closed /\ r = Operational({"ErrNotConfigured"}) /\ Unchanged_
  \/ content # Malformed /\ ~closed /\ r = Operational({}) /\ Unchanged_
  \/ /\ content # Malformed /\ ~closed /\ r = Ok
     /\ Torrents!Add(content) \/ (phase[content] \notin {"absent", "stopped"} /\ Unchanged_)

Found(h) == h # Malformed /\ phase[h] # "absent"
Started  == {"waiting", "ready", "running"}

NotFound(h, r) ==
  /\ ~Found(h)
  /\ r = Caused(IF h = Malformed THEN "ErrInvalidInput" ELSE "ErrMissingTorrent")
  /\ Unchanged_

StartTorrent(h, r) ==
  \/ NotFound(h, r)
  \/ Found(h) /\ phase[h] \in Started /\ r = Caused("ErrAlreadyStarted") /\ Unchanged_
  \/ Found(h) /\ phase[h] = "stopped" /\ r = Operational({}) /\ Unchanged_
  \/ Found(h) /\ Torrents!Start(h) /\ r = Ok

StopTorrent(h, r) ==
  \/ NotFound(h, r)
  \/ Found(h) /\ phase[h] \notin Started /\ r = Caused("ErrAlreadyStopped") /\ Unchanged_
  \/ Found(h) /\ Torrents!Stop(h) /\ r = Ok

DeleteTorrent(h, r) ==
  \/ NotFound(h, r)
  \/ Found(h) /\ Torrents!Delete(h) /\ r = Ok

-----------------------------------------------------------------------------
(* Calls. *)

Goes(c, k) == call' = [call EXCEPT ![c] = k]

(* A handler returns; the request is not looked at again. *)
Returns(c, r) ==
  Goes(c, [call[c] EXCEPT !.pc = "finish", !.result = r, !.req = [op |-> @.op],
                          !.done = IF r = Ok THEN 1 ELSE @])

(* What a call changes is not on the page yet. *)
Shows(c, changed) == unseen' = IF changed THEN unseen \cup {c} ELSE unseen

Send(c) ==
  /\ call[c].pc = "idle"
  /\ \E q \in Sends[c] :
       Goes(c, [Idle EXCEPT !.pc = "arrived", !.req = q, !.asked = Asked(q)])
  /\ UNCHANGED <<fetch, phase, closed, files, kickCh, unseen>>

(* What readBody, ParseForm and ParseMultipartForm are called for. *)
WithBody == {"nothing", "magnet", "url", "raw", "upload"}

(* requireSameOrigin: a cross-site write reaches no handler. *)
checkSameOrigin(c) ==
  /\ call[c].pc = "arrived"
  /\ \/ Goes(c, [call[c] EXCEPT !.pc = IF call[c].req.op \in WithBody
                                         THEN "body" ELSE "handler"])
     \/ Goes(c, [call[c] EXCEPT !.pc = "answered", !.status = 403, !.req = [op |-> @.op],
                                !.result = Caused("crossOrigin")])
  /\ UNCHANGED <<fetch, phase, closed, files, kickCh, unseen>>

(* The client sends the rest, or less and closes the connection: nothing bounds how    *)
(* long it may take, the server has no ReadTimeout.                                    *)
BodyArrives(c) ==
  /\ call[c].pc = "body"
  /\ \/ Goes(c, [call[c] EXCEPT !.pc = "handler"])
     \/ Returns(c, Caused("badRequest"))
  /\ UNCHANGED <<fetch, phase, closed, files, kickCh, unseen>>

Handling(c, ops) == call[c].pc = "handler" /\ call[c].req.op \in ops

(* A request the handler refuses for what its body says. *)
Refuse(c) ==
  /\ Handling(c, {"nothing"})
  /\ Returns(c, Caused("badRequest"))
  /\ UNCHANGED <<fetch, phase, closed, files, kickCh, unseen>>

(* What a method of the engine can come to. *)
Outcome == {Ok, Unnoticed, Operational({}), Operational({"ErrNotConfigured"})}
             \cup {Caused(e) : e \in {"ErrInvalidInput", "ErrMissingTorrent",
                                      "ErrAlreadyStarted", "ErrAlreadyStopped"}}

(* A magnet, and the verbs on a torrent. *)
Apply(c) ==
  /\ Handling(c, {"magnet", "start", "stop", "delete"})
  /\ LET q == call[c].req
     IN  \E r \in Outcome :
           /\ CASE q.op = "magnet" -> NewTorrent(q.target, r)
                [] q.op = "start"  -> StartTorrent(q.target, r)
                [] q.op = "stop"   -> StopTorrent(q.target, r)
                [] q.op = "delete" -> DeleteTorrent(q.target, r)
           /\ Returns(c, r)
  /\ Shows(c, phase' # phase)
  /\ UNCHANGED <<fetch, files, kickCh>>

(* A URL: fetched first, on this call's time, and then added. *)
AddURL(c) ==
  /\ Handling(c, {"url"}) /\ fetch[c].pc = "idle"
  /\ StartFetch(c)
  /\ UNCHANGED <<phase, closed, files, call, kickCh, unseen>>

FetchFailed(c) ==
  /\ Handling(c, {"url"}) /\ fetch[c].pc = "failed"
  /\ Returns(c, [err |-> fetch[c].err, fault |-> fetch[c].fault])
  /\ Becomes(c, NoFetch)
  /\ UNCHANGED <<phase, closed, files, kickCh, unseen>>

Fetched(c) ==
  /\ Handling(c, {"url"}) /\ fetch[c].pc = "fetched"
  /\ \E r \in Outcome : NewTorrent(fetch[c].got, r) /\ Returns(c, r)
  /\ Shows(c, phase' # phase)
  /\ Becomes(c, NoFetch)
  /\ UNCHANGED <<files, kickCh>>

(* A raw .torrent: readBody refuses what is over the cap. *)
handleTorrentFile(c) ==
  /\ Handling(c, {"raw"})
  /\ LET b == call[c].req.source
     IN  IF b.size > MaxSize
         THEN Returns(c, Caused("badRequest")) /\ Unchanged_
         ELSE \E r \in Outcome : NewTorrent(b.content, r) /\ Returns(c, r)
  /\ Shows(c, phase' # phase)
  /\ UNCHANGED <<fetch, files, kickCh>>

-----------------------------------------------------------------------------
(* addUploadedTorrents: the files of a multipart upload, one by one. *)

(* What cannot be kept, in memory or a temporary file, is refused as malformed too. *)
NotKept == [err |-> {"badRequest"}, fault |-> "server"]

ParseMultipartForm(c) ==
  /\ Handling(c, {"upload"})
  /\ LET q == call[c].req
     IN  \/ Returns(c, Caused("badRequest"))
         \/ Returns(c, NotKept)
         \/ /\ q.sources # <<>>
            /\ Goes(c, [call[c] EXCEPT !.pc = "files", !.todo = q.sources,
                                        !.req = [op |-> @.op]])
  /\ UNCHANGED <<fetch, phase, closed, files, kickCh, unseen>>

AddedOne(k)  == [k EXCEPT !.todo = Tail(@), !.done = @ + 1]
FailedOne(k) == [k EXCEPT !.todo = Tail(@), !.failures = @ + 1]

(* Mutant: a file that cannot be opened or read is passed over. *)
UnreadableSkipped(k) == [k EXCEPT !.todo = Tail(@)]

(* Opening or reading a part fails. *)
Unreadable(k) == FailedOne(k)

UploadFile(c) ==
  /\ call[c].pc = "files" /\ call[c].todo # <<>>
  /\ LET k == call[c]
         b == Head(k.todo)
     IN  \/ Goes(c, Unreadable(k)) /\ Unchanged_
         \/ \E r \in Outcome :
              /\ NewTorrent(Read(b, Limited(b.size, MaxSize)), r)
              /\ Goes(c, IF r = Ok THEN AddedOne(k) ELSE FailedOne(k))
  /\ Shows(c, phase' # phase)
  /\ UNCHANGED <<fetch, files, kickCh>>

UploadEnds(c) ==
  /\ call[c].pc = "files" /\ call[c].todo = <<>>
  /\ Goes(c, [call[c] EXCEPT !.pc = "finish", !.failures = 0,
                             !.result = IF call[c].failures > 0 THEN Caused("badRequest") ELSE Ok])
  /\ UNCHANGED <<fetch, phase, closed, files, kickCh, unseen>>

-----------------------------------------------------------------------------
(* handleDeleteFile: files.Remove. *)

(* A path outside of the directory is the empty set of entries.  One that leads through *)
(* a file, or has a name no file can have, cannot be looked up at all.                  *)
ResolveWithin(c) ==
  /\ Handling(c, {"deleteFile"})
  /\ LET path == call[c].req.path
     IN  CASE path = {}           -> Returns(c, Caused("ErrOutsideRoot"))
           [] path \cap files = {} -> \E r \in {Caused("ErrNotExist"), Unnoticed} : Returns(c, r)
           [] OTHER               -> \/ Returns(c, Operational({}))
                                     \/ Goes(c, [call[c] EXCEPT !.pc = "remove"])
  /\ UNCHANGED <<fetch, phase, closed, files, kickCh, unseen>>

(* os.RemoveAll removes what it can, and is content with what is already gone. *)
RemoveAll(c) ==
  LET path == call[c].req.path
  IN  /\ call[c].pc = "remove"
      /\ \/ files' = files \ path /\ Returns(c, Ok)
         \/ \E kept \in (SUBSET (path \cap files)) \ {{}} :
              files' = (files \ path) \cup kept /\ Returns(c, Operational({}))
      /\ Shows(c, files' # files)
      /\ UNCHANGED <<fetch, phase, closed, kickCh>>

-----------------------------------------------------------------------------
(* finishAPI. *)

(* Mutant: what the remote end did is looked at before what the caller asked for. *)
RulesUpstreamFirst ==
  << <<{"ErrUpstream"}, 502>>,
     <<{"crossOrigin"}, 403>>,
     <<{"nil", "ErrRestartRequired"}, 200>>,
     <<{"badRequest", "ErrInvalidInput", "ErrInvalidURL", "ErrBlocked"}, 400>>,
     <<{"ErrMissingTorrent", "ErrOutsideRoot", "ErrNotExist"}, 404>>,
     <<{"ErrAlreadyStarted", "ErrAlreadyStopped"}, 409>>,
     <<{"ErrNotConfigured", "ErrClosed"}, 503>> >>

(* The cases of classify, in order; an apiError carries its own status. *)
Rules ==
  << <<{"badRequest"}, 400>>,
     <<{"crossOrigin"}, 403>>,
     <<{"nil", "ErrRestartRequired"}, 200>>,
     <<{"ErrInvalidInput", "ErrInvalidURL", "ErrBlocked"}, 400>>,
     <<{"ErrMissingTorrent"}, 404>>,
     <<{"ErrAlreadyStarted", "ErrAlreadyStopped"}, 409>>,
     <<{"ErrOutsideRoot", "ErrNotExist"}, 404>>,
     <<{"ErrNotConfigured", "ErrClosed"}, 503>>,
     <<{"ErrUpstream"}, 502>> >>

classify(err) ==
  LET i == SelectInSeq(Rules, LAMBDA rule : rule[1] \cap err # {})
  IN  IF i = 0 THEN 500 ELSE Rules[i][2]

(* Mutant: an action that failed does not wake the render loop. *)
kicksOnSuccess(status) == kickCh \/ status = 200

(* Unconditional: a call that fails may have done part of its work. *)
kicks(status) == TRUE

finishAPI(c) ==
  /\ call[c].pc = "finish"
  /\ LET status == classify(call[c].result.err)
     IN  /\ kickCh' = kicks(status)
         /\ Goes(c, [call[c] EXCEPT !.pc = "answered", !.status = status, !.result.err = {}])
  /\ UNCHANGED <<fetch, phase, closed, files, unseen>>

Leave(c) ==
  /\ call[c].pc = "answered"
  /\ Goes(c, Idle)
  /\ UNCHANGED <<fetch, phase, closed, files, kickCh, unseen>>

-----------------------------------------------------------------------------
(* The render loop draws for the kick; that it does so in time is module RenderLoop. *)
Draw ==
  /\ kickCh
  /\ kickCh' = FALSE /\ unseen' = {}
  /\ UNCHANGED <<fetch, phase, closed, files, call>>

(* The engine's own steps. *)
EngineSteps ==
  /\ \/ \E h \in Hash : Torrents!AutoStart(h) \/ Torrents!Resolve(h) \/ Torrents!Resume(h)
     \/ Torrents!Close
  /\ UNCHANGED <<fetch, files, call, kickCh, unseen>>

(* A torrent, or anyone else, writes an entry. *)
Write(x) ==
  /\ files' = files \cup {x}
  /\ UNCHANGED <<fetch, phase, closed, call, kickCh, unseen>>

FetchStep(c) ==
  /\ FetchNext(c)
  /\ UNCHANGED <<phase, closed, files, call, kickCh, unseen>>

Handle(c) ==
  \/ checkSameOrigin(c) \/ Refuse(c) \/ Apply(c) \/ AddURL(c) \/ FetchFailed(c) \/ Fetched(c)
  \/ handleTorrentFile(c) \/ ParseMultipartForm(c) \/ UploadFile(c) \/ UploadEnds(c)
  \/ ResolveWithin(c) \/ RemoveAll(c) \/ finishAPI(c)

Next ==
  \/ \E c \in Caller : Send(c) \/ BodyArrives(c) \/ Handle(c) \/ FetchStep(c) \/ Leave(c)
  \/ Draw \/ EngineSteps
  \/ \E x \in File : Write(x)

Spec == Init /\ [][Next]_vars

(* A handler runs on, and a fetch it waits for is ended by its own deadline; nothing   *)
(* is asked of the client, whose body may never arrive, of the remote end, of the      *)
(* resolver or of the render loop.                                                     *)
Proceeds(c) ==
  \/ Handle(c)
  \/ (ParseURL(c) \/ Timeout(c)) /\ UNCHANGED <<phase, closed, files, call, kickCh, unseen>>

Fairness == \A c \in Caller : WF_vars(Proceeds(c))

FairSpec == Spec /\ Fairness

-----------------------------------------------------------------------------
(* Properties. *)

(* Whatever a call changed is on the page, or the render loop is about to be woken for *)
(* it: also while an upload is under way, when part of it failed, and when a removal   *)
(* gave up half way (finishAPI).                                                       *)
NoInvisibleChange ==
  \A c \in unseen : kickCh \/ call[c].pc \in {"files", "finish"}

(* Success is reported exactly when all that was asked for was done: no file of an     *)
(* upload goes missing in silence, and no failure is claimed for what took effect      *)
(* (addUploadedTorrents, classify).                                                    *)
OutcomeIsTrue ==
  \A c \in Caller :
    call[c].pc = "answered" => (call[c].status = 200 <=> call[c].done = call[c].asked)

(* "Did what the caller sent cause this?": a 4xx is never said of the server's or the  *)
(* remote end's doing, nor a 5xx of the caller's, however the error was wrapped on its *)
(* way, except in what goes unnoticed: a URL that parses but that no connection can be *)
(* made to, a path that cannot be looked up and a .torrent that parses but that the    *)
(* client refuses are the caller's and get a 5xx.  An upload is excepted as a whole,   *)
(* which reports every failure as the caller's (classify, Client.Torrent,              *)
(* guardedDialContext, ResolveWithin, addSpec).                                        *)
BlameIsRight ==
  \A c \in Caller :
    call[c].pc = "answered" /\ call[c].req.op # "upload" =>
      /\ call[c].status \in 400..499 <=> call[c].result.fault = "caller"
      /\ call[c].status >= 500 <=> call[c].result.fault \in {"server", "unnoticed"}

(* What is fetched is the whole file, never its beginning, and nothing but an address  *)
(* that may be dialled was dialled for it, whatever the host resolved to from one      *)
(* redirect to the next (guardedDialContext, Client.Torrent).                          *)
FetchIsSound ==
  \A c \in Caller :
    /\ fetch[c].peer \cap Disallowed = {}
    /\ fetch[c].pc = "fetched" => fetch[c].got = fetch[c].sent.content

(* A call that was sent is answered, also when the remote end of a fetch is not, unless *)
(* its client keeps the handler waiting for the rest of the request for ever (readBody, *)
(* Client.Torrent's timeout).                                                           *)
EveryCallIsAnswered ==
  \A c \in Caller : call[c].pc = "arrived" ~> (call[c].pc = "answered" \/ [](call[c].pc = "body"))
=============================================================================
