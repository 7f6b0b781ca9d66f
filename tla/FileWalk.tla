------------------------------ MODULE FileWalk -------------------------------
(***************************************************************************)
(* files.List and serveZip as they run: one system call at a time, in a    *)
(* directory that torrents and users change meanwhile.  A directory being  *)
(* walked is a frame: its path, what is left of its entries, as ReadDir    *)
(* saw them, and how many nodes were there before its own.  The parts of   *)
(* the specification are named for the walk, so that it can be read with   *)
(* Downloads.                                                              *)
(***************************************************************************)
EXTENDS FileList

VARIABLES
  disk, unreadable,   \* the tree, and the directories in it that cannot be read
  failed,    \* the file serveZip could not open, or not read to its end, if there was one
  walk,      \* List: "entries", "open": about to read a directory, "done"; serveZip: "zip",
             \* "zipOpen", "closed"; "idle" before either
  n,         \* entries visited
  frames,    \* the calls of list, or of filepath.WalkDir, on the stack
  opening,   \* the directory to read
  nodes,     \* appended so far; or the directory that is zipped, and the files in the archive
  Truncated,
  still      \* nothing changed since the walk began, and the client stayed

diskVars == <<disk, unreadable, failed, still>>
walkVars == <<diskVars, walk, n, frames, opening, nodes, Truncated>>

WalkTypeOK ==
  /\ disk \in Trees /\ unreadable \subseteq Dir /\ failed \subseteq File
  /\ walk \in {"idle", "entries", "open", "done", "zip", "zipOpen", "closed"}
  /\ n \in 0..(Limit + 1)
  /\ frames \in Seq([path : Seq(Node), entries : Seq(Entry), from : Nat])
  /\ opening \in Dir \cup {Root}
  /\ nodes \in Seq(Node) /\ Truncated \in BOOLEAN
  /\ still \in BOOLEAN

WalkInit ==
  /\ disk \in Trees /\ unreadable \in SUBSET (Dir \cap DOMAIN disk)
  /\ walk = "idle" /\ n = 0 /\ frames = <<>> /\ opening = Root
  /\ nodes = <<>> /\ Truncated = FALSE /\ still = TRUE /\ failed = {}

-----------------------------------------------------------------------------
(* The directory changes under the walk. *)

Disturb(tree) ==
  /\ walk \notin {"idle", "done", "closed"}
  /\ tree \in Trees
  /\ disk' = tree
  /\ still' = FALSE
  /\ UNCHANGED <<unreadable, failed, walk, n, frames, opening, nodes, Truncated>>

CreateEntry(x, d) == x \notin DOMAIN disk /\ Disturb(With(disk, x, d))
MoveEntry(x, d)   == x \in DOMAIN disk /\ d # disk[x] /\ Disturb(With(disk, x, d))
DeleteEntry(x)    == x \in DOMAIN disk /\ Disturb(Without(disk, x))

-----------------------------------------------------------------------------
(* The walk. *)

Start ==
  /\ walk = "idle"
  /\ walk' = "open" /\ opening' = Root
  /\ n' = 1
  /\ UNCHANGED <<diskVars, frames, nodes, Truncated>>

Done(returned, over) ==
  /\ walk' = "done"
  /\ frames' = <<>>
  /\ nodes' = returned /\ Truncated' = over

top  == frames[Len(frames)]
rest == Front(frames)
here == IF frames = <<>> THEN <<>> ELSE top.path

(* Every directory on the way is still in its place. *)
Exists(path) ==
  \A i \in 2..Len(path) : path[i] \in DOMAIN disk /\ disk[path[i]] = path[i - 1]

InPlace(x) == Exists(Append(here, x))

Readable(d) == d \notin unreadable /\ InPlace(d)

Enter(d) ==
  frames' = Append(frames, [path |-> Append(here, d), entries |-> ReadDir(d, disk),
                            from |-> Len(nodes)])

(* A directory that is gone or cannot be read is skipped by the one above it. *)
Open ==
  /\ walk = "open"
  /\ walk' = "entries" /\ opening' = Root
  /\ IF Readable(opening)
     THEN Enter(opening) /\ nodes' = Append(nodes, opening)
     ELSE UNCHANGED <<frames, nodes>>
  /\ UNCHANGED <<diskVars, n, Truncated>>

(* The next entry of the directory at hand. *)
NextEntry(x) == frames # <<>> /\ top.entries # <<>> /\ x = Head(top.entries)

At(x) == walk = "entries" /\ NextEntry(x)

Skip == frames' = Append(rest, [top EXCEPT !.entries = Tail(@)])

(* e.Info fails: the entry is gone. *)
Gone(x) ==
  /\ At(x) /\ ~InPlace(x)
  /\ Skip
  /\ UNCHANGED <<diskVars, walk, n, opening, nodes, Truncated>>

(* Mutant: the root is not counted. *)
overBudgetLate(k) == k > Limit + 1

overBudget(k) == k > Limit

ListFile(x) ==
  /\ At(x) /\ InPlace(x) /\ x \in File
  /\ n' = n + 1 /\ ~overBudget(n')
  /\ Skip
  /\ nodes' = Append(nodes, x)
  /\ UNCHANGED <<diskVars, walk, opening, Truncated>>

ListDir(x) ==
  /\ At(x) /\ InPlace(x) /\ x \in Dir
  /\ n' = n + 1 /\ ~overBudget(n')
  /\ walk' = "open" /\ opening' = x
  /\ Skip
  /\ UNCHANGED <<diskVars, nodes, Truncated>>

(* Mutant: the walk goes on with the next entry of the directory above. *)
OverBudgetSkipsDirectory(x) ==
  /\ At(x) /\ InPlace(x)
  /\ n' = n + 1 /\ overBudget(n')
  /\ IF Len(frames) = 1 THEN Done(nodes, TRUE)
     ELSE /\ frames' = rest /\ nodes' = SubSeq(nodes, 1, top.from)
          /\ UNCHANGED <<walk, Truncated>>
  /\ UNCHANGED <<diskVars, opening>>

(* errFileLimit ends the walk; what the root's call had appended is returned, without *)
(* the directory under it that the walk was in.                                       *)
OverBudget(x) ==
  /\ At(x) /\ InPlace(x)
  /\ n' = n + 1 /\ overBudget(n')
  /\ Done(IF Len(frames) = 1 THEN nodes ELSE SubSeq(nodes, 1, frames[2].from), TRUE)
  /\ UNCHANGED <<diskVars, opening>>

(* A call returns: its nodes are appended to those of the call above. *)
Return ==
  /\ walk = "entries" /\ top.entries = <<>>
  /\ IF Len(frames) = 1 THEN Done(nodes, FALSE)
     ELSE frames' = rest /\ UNCHANGED <<walk, nodes, Truncated>>
  /\ UNCHANGED <<diskVars, n, opening>>

-----------------------------------------------------------------------------
(* The archive of a directory. *)

(* The first error ends it; what was written is closed as an archive all the same. *)
CloseZip == walk' = "closed" /\ frames' = <<>>

(* The frame of the directory itself has the way to it from the root. *)
StartZip(d) ==
  LET onPath == Path(d, disk)
      above  == {p \in onPath \X onPath : p[1] \in Ancestors(p[2], disk)}
  IN  /\ walk = "idle" /\ d \in DOMAIN disk
      /\ nodes' = <<d>>
      /\ IF d \in unreadable THEN CloseZip
         ELSE /\ walk' = "zip"
              /\ frames' = <<[path |-> SortedBy(onPath, above), entries |-> ReadDir(d, disk),
                              from |-> 0]>>
      /\ UNCHANGED <<diskVars, n, opening, Truncated>>

(* Mutant: a directory that cannot be read is passed over, as List does. *)
ZipUnreadablePassed == walk' = "zip" /\ UNCHANGED frames

(* WalkDir hands the error of ReadDir to the callback, which returns it. *)
ZipUnreadable == CloseZip

ZipOpen ==
  /\ walk = "zipOpen"
  /\ IF Readable(opening) THEN walk' = "zip" /\ Enter(opening) ELSE ZipUnreadable
  /\ opening' = Root
  /\ UNCHANGED <<diskVars, n, nodes, Truncated>>

AtZip(x) == walk = "zip" /\ NextEntry(x)

ZipGone(x) ==
  /\ AtZip(x) /\ ~InPlace(x)
  /\ CloseZip
  /\ UNCHANGED <<diskVars, n, opening, nodes, Truncated>>

(* os.Open or io.Copy fails on a file that is there.  The archive may hold the beginning *)
(* of its entry; nodes are the files that are in it whole.                               *)
ZipFileFails(x) ==
  /\ AtZip(x) /\ InPlace(x) /\ x \in File
  /\ CloseZip
  /\ failed' = {x}
  /\ UNCHANGED <<disk, unreadable, still, n, opening, nodes, Truncated>>

ZipFile(x) ==
  /\ AtZip(x) /\ InPlace(x) /\ x \in File
  /\ Skip
  /\ nodes' = Append(nodes, x)
  /\ UNCHANGED <<diskVars, walk, n, opening, Truncated>>

ZipDir(x) ==
  /\ AtZip(x) /\ InPlace(x) /\ x \in Dir
  /\ walk' = "zipOpen" /\ opening' = x
  /\ Skip
  /\ UNCHANGED <<diskVars, n, nodes, Truncated>>

ZipReturn ==
  /\ walk = "zip" /\ top.entries = <<>>
  /\ IF Len(frames) = 1 THEN CloseZip ELSE frames' = rest /\ UNCHANGED walk
  /\ UNCHANGED <<diskVars, n, opening, nodes, Truncated>>

(* The client has gone: the context is done, or a write fails. *)
Abandoned ==
  /\ walk = "zip"
  /\ CloseZip
  /\ still' = FALSE
  /\ UNCHANGED <<disk, unreadable, failed, n, opening, nodes, Truncated>>

Finished == walk \in {"done", "closed"} /\ UNCHANGED walkVars

-----------------------------------------------------------------------------
Environment ==
  \E x \in Entry :
    DeleteEntry(x) \/ \E d \in Dir \cup {Root} : CreateEntry(x, d) \/ MoveEntry(x, d)

Walk == Start \/ Open \/ Return \/ \E x \in Entry : Gone(x) \/ ListFile(x) \/ ListDir(x) \/ OverBudget(x)

serveZip == ZipOpen \/ ZipReturn \/ Abandoned
            \/ \E d \in Dir : StartZip(d)
            \/ \E x \in Entry : ZipGone(x) \/ ZipFile(x) \/ ZipFileFails(x) \/ ZipDir(x)

WalkNext == Environment \/ Walk \/ serveZip \/ Finished

WalkSpec == WalkInit /\ [][WalkNext]_walkVars

-----------------------------------------------------------------------------
(* Properties. *)

(* Of a directory that stood still, the walk returns exactly what lies, in the order *)
(* of the names, before the entry at which the budget ran out, without the           *)
(* directories that entry is in, and says whether anything is missing (List, list).  *)
WalkIsExact ==
  walk = "done" /\ still => [nodes |-> nodes, Truncated |-> Truncated] = List(disk, unreadable)

(* However the directory changes meanwhile, the walk stays within its budget and     *)
(* lists nothing it has not counted (list).                                          *)
BudgetIsKept ==
  walk \in {"open", "entries", "done"} =>
    n <= Limit + 1 /\ Len(nodes) <= n /\ Len(nodes) <= Limit

(* Of a directory that stood still, for a client that stayed, the archive holds whole *)
(* exactly the files below it, in order, up to the first directory that cannot be     *)
(* read and to the file that could not be opened or copied: nothing that lies before  *)
(* what ended it is missing, and where nothing fails it is complete (serveZip).       *)
ArchiveIsExact ==
  walk = "closed" /\ still =>
    LET d     == Head(nodes)
        below == {x \in DOMAIN disk : d \in Ancestors(x, disk)}
        held  == {x \in below \cap File :
                    \A u \in (unreadable \cup failed) \cap (below \cup {d}) : Before(x, u, disk)}
    IN  nodes = <<d>> \o InOrder(held, disk)

(* A test of list says that "a truncated listing must still return what it managed   *)
(* to walk" and checks that it has children.  It has none when the budget runs out   *)
(* inside the first directory.                                                       *)
WalkedIsReturned == Truncated => Len(nodes) > 1
=============================================================================
