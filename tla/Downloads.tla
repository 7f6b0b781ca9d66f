------------------------------ MODULE Downloads ------------------------------
(***************************************************************************)
(* The downloads region, from the files to one browser: RenderDownloads'   *)
(* fingerprints and settle window, the content-free ping, and the fragment *)
(* the browser pulls when it is pinged.                                    *)
(*                                                                         *)
(* Time is counted in samples of the engine, each of which makes the       *)
(* render loop draw once while a browser is connected.  That no ping is    *)
(* lost between the renderer and the browser is module Events.             *)
(***************************************************************************)
EXTENDS FileList

CONSTANTS
  Settle,      \* downloadsSettle
  MaxTime,     \* bound on the clock
  MaxChange    \* bound on the changes made to the tree

ASSUME DownloadsAssumption ==
  Settle \in Nat \ {0} /\ MaxTime \in Nat \ {0} /\ MaxChange \in Nat

Never == 0     \* time.Time{}: the clock starts at 1

VARIABLES
  now,
  parent,        \* the files
  rev,           \* when each entry, or the root, last changed
  changes, changedAt,
  dlContentSig, dlContentAt,
  body,          \* the region in the renderer's cache
  due,           \* a sample or a kick to draw for
  page,          \* "closed"; "open": loaded, without its event stream; "live": with it
  pinged,        \* the browser is to pull the fragment
  shown          \* what it pulled last

treeVars    == <<parent, rev, changes, changedAt>>
uiVars      == <<dlContentSig, dlContentAt, body>>
browserVars == <<page, pinged, shown>>
vars        == <<now, treeVars, uiVars, due, browserVars>>

Nothing == [entries |-> {}, Truncated |-> FALSE]
NoBody  == <<>>

(* files.List of the tree as it is now. *)
Listings == [tree \in Trees |-> List(tree, {})]
listing  == Listings[parent]

(* What the fragment shows: every node that is listed, where, and as of when. *)
Fragment ==
  [entries   |-> {<<x, IF x = Root THEN Root ELSE parent[x], rev[x]>> : x \in ToSet(listing.nodes)},
   Truncated |-> listing.Truncated]

TypeOK ==
  /\ now \in 1..MaxTime
  /\ parent \in Trees
  /\ rev \in [Node -> 0..MaxChange]
  /\ changes \in 0..MaxChange /\ changedAt \in 1..now
  /\ dlContentSig \in Seq(0..MaxChange) /\ dlContentAt \in 0..now
  /\ due \in BOOLEAN
  /\ page \in {"closed", "open", "live"}
  /\ pinged \in BOOLEAN

Init ==
  /\ now = 1
  /\ parent \in Trees
  /\ rev = [x \in Node |-> 0]
  /\ changes = 0 /\ changedAt = 1
  /\ dlContentSig = <<>> /\ dlContentAt = Never
  /\ body = NoBody
  /\ due = FALSE
  /\ page = "closed" /\ pinged = FALSE /\ shown = Nothing

-----------------------------------------------------------------------------
(* The files change: torrents write and create, users remove, others do anything. *)

(* A change shows in the times of the nodes it touches. *)
Change(tree, touched) ==
  /\ changes < MaxChange
  /\ tree \in Trees
  /\ parent' = tree
  /\ changes' = changes + 1
  /\ changedAt' = now
  /\ rev' = [x \in Node |-> IF x \in touched THEN changes'
                            ELSE IF x \in DOMAIN tree \cup {Root} THEN rev[x] ELSE 0]
  /\ UNCHANGED <<now, uiVars, due, browserVars>>

Write(f)     == f \in DOMAIN parent /\ Change(parent, {f})
Create(x, d) == x \notin DOMAIN parent /\ Change(With(parent, x, d), {x, d})
Move(x, d)   == x \in DOMAIN parent /\ d # parent[x] /\ Change(With(parent, x, d), {parent[x], d})
Delete(x)    == x \in DOMAIN parent /\ Change(Without(parent, x), {parent[x]})

-----------------------------------------------------------------------------
(* RenderDownloads. *)

Settled(at) == dlContentAt = Never \/ at >= dlContentAt + Settle

(* Mutant: a plain throttle, which forgets what it did not let through. *)
RenderDownloadsThrottled ==
  LET c     == contentSignature(listing, rev)
      admit == c # dlContentSig /\ Settled(now)
      new   == <<shapeSignature(listing), IF admit \/ body = NoBody THEN c ELSE body[2]>>
  IN  /\ dlContentSig' = c
      /\ dlContentAt' = IF admit THEN now ELSE dlContentAt
      /\ body' = new
      /\ pinged' = (pinged \/ new # body)

(* Mutant: the end of the window is stored where its beginning is expected. *)
RenderDownloadsDeadline ==
  LET c     == contentSignature(listing, rev)
      admit == c # dlContentSig /\ Settled(now)
      new   == <<shapeSignature(listing), dlContentSig'>>
  IN  /\ dlContentSig' = IF admit THEN c ELSE dlContentSig
      /\ dlContentAt' = IF admit THEN now + Settle ELSE dlContentAt
      /\ body' = new
      /\ pinged' = (pinged \/ new # body)

(* An unchanged body is not broadcast. *)
RenderDownloads ==
  LET c     == contentSignature(listing, rev)
      admit == c # dlContentSig /\ Settled(now)
      new   == <<shapeSignature(listing), dlContentSig'>>
  IN  /\ dlContentSig' = IF admit THEN c ELSE dlContentSig
      /\ dlContentAt' = IF admit THEN now ELSE dlContentAt
      /\ body' = new
      /\ pinged' = (pinged \/ new # body)

(* poll draws for an audience only. *)
Render ==
  /\ due
  /\ due' = FALSE
  /\ IF page = "live" THEN RenderDownloads ELSE UNCHANGED <<uiVars, pinged>>
  /\ UNCHANGED <<now, treeVars, page, shown>>

(* An API call finished. *)
kick ==
  /\ due' = TRUE
  /\ UNCHANGED <<now, treeVars, uiVars, browserVars>>

Advance ==
  /\ ~due
  /\ now < MaxTime
  /\ now' = now + 1
  /\ due' = TRUE
  /\ UNCHANGED <<treeVars, uiVars, browserVars>>

-----------------------------------------------------------------------------
(* The browser: hx-trigger="load, sse:downloads-changed". *)

Load ==
  /\ page = "closed"
  /\ page' = "open" /\ pinged' = TRUE
  /\ UNCHANGED <<now, treeVars, uiVars, due, shown>>

(* The snapshot repeats the last ping, if there was one; the connection kicks. *)
Subscribe ==
  /\ page = "open"
  /\ page' = "live"
  /\ pinged' = (pinged \/ body # NoBody)
  /\ due' = TRUE
  /\ UNCHANGED <<now, treeVars, uiVars, shown>>

(* The stream breaks; htmx connects again. *)
Drop ==
  /\ page = "live"
  /\ page' = "open"
  /\ UNCHANGED <<now, treeVars, uiVars, due, pinged, shown>>

Leave ==
  /\ page # "closed"
  /\ page' = "closed" /\ pinged' = FALSE /\ shown' = Nothing
  /\ UNCHANGED <<now, treeVars, uiVars, due>>

(* ServeDownloads walks the tree as it is now. *)
ServeDownloads ==
  /\ pinged
  /\ pinged' = FALSE
  /\ shown' = Fragment
  /\ UNCHANGED <<now, treeVars, uiVars, due, page>>

-----------------------------------------------------------------------------
Next ==
  \/ \E f \in File : Write(f)
  \/ \E x \in Entry : Delete(x) \/ \E d \in Dir \cup {Root} : Create(x, d) \/ Move(x, d)
  \/ Render \/ kick \/ Advance
  \/ Load \/ Subscribe \/ Drop \/ Leave \/ ServeDownloads

Spec == Init /\ [][Next]_vars

-----------------------------------------------------------------------------
(* Properties. *)

Drawn == page = "live" /\ ~due /\ changedAt < now

(* One settle window after the last change, whatever it was, the browser shows the    *)
(* tree as it is, or has been told to fetch it: the window does not swallow the last  *)
(* write, also when the browser came and went meanwhile.  A truncated listing hides   *)
(* changes and is excepted (RenderDownloads).                                         *)
LastChangeArrives ==
  Drawn /\ changedAt + Settle <= now /\ ~listing.Truncated => pinged \/ shown = Fragment
=============================================================================
