------------------------------ MODULE FileList -------------------------------
(***************************************************************************)
(* The download directory, what files.List returns of one that stands      *)
(* still, and the fingerprints web takes of that.                          *)
(*                                                                         *)
(* A tree is a function from the entries that exist to the directories     *)
(* they are in.  An entry is a number, whose order is that of the names;   *)
(* entries visible() rejects are left out.  `unreadable` are directories   *)
(* ReadDir fails on.  That the walk, step by step, returns this is checked *)
(* in module FileWalk and proved in FilesProofs.                           *)
(***************************************************************************)
EXTENDS Naturals, FiniteSets, SequencesExt

CONSTANTS
  Dir, File,   \* the entries there may be
  Limit        \* files.Limit

Root  == 0
Entry == Dir \cup File
Node  == Entry \cup {Root}

ASSUME FileListAssumption ==
  /\ Entry \subseteq Nat \ {Root} /\ IsFiniteSet(Entry) /\ Dir \cap File = {}
  /\ Limit \in Nat \ {0}

(* Every entry hangs from the root, through directories that exist. *)
IsTree(parent) ==
  /\ \A x \in DOMAIN parent : parent[x] \in (DOMAIN parent \cap Dir) \cup {Root}
  /\ \A S \in SUBSET DOMAIN parent : S # {} => \E x \in S : parent[x] \notin S

Trees == {p \in UNION {[S -> Dir \cup {Root}] : S \in SUBSET Entry} : IsTree(p)}

(* x and the directories it is in: what is in every set that has x and, with each *)
(* entry, the directory it is in.                                                 *)
Path(x, parent) ==
  LET closed == {S \in SUBSET (DOMAIN parent \cup {Root}) :
                   x \in S /\ \A y \in S \ {Root} : parent[y] \in S}
  IN  {a \in DOMAIN parent \cup {Root} : \A S \in closed : a \in S}

Ancestors(x, parent) == Path(x, parent) \ {x}

(* A finite set in the order R, a set of pairs: each element after those below it. *)
SortedBy(S, R) ==
  [i \in 1..Cardinality(S) |-> CHOOSE x \in S : Cardinality({y \in S : <<y, x>> \in R}) = i - 1]

ReadDir(x, parent) ==
  LET S == {y \in DOMAIN parent : parent[y] = x}
  IN  SortedBy(S, {p \in S \X S : p[1] < p[2]})

(* Entries are created, moved and removed; a directory goes with what is in it. *)
With(parent, x, d) == [y \in DOMAIN parent \cup {x} |-> IF y = x THEN d ELSE parent[y]]
Without(parent, x) == Restrict(parent, {y \in DOMAIN parent : x \notin Path(y, parent)})

-----------------------------------------------------------------------------
(* List. *)

(* What counts against the budget: also a directory that turns out unreadable. *)
Visited(parent, unreadable) ==
  {Root} \cup {x \in DOMAIN parent : Ancestors(x, parent) \cap unreadable = {}}

(* x comes before y: above it, or under an earlier entry of a directory above both. *)
Before(x, y, parent) ==
  \/ x \in Ancestors(y, parent)
  \/ \E a \in Path(x, parent) \ {Root}, b \in Path(y, parent) \ {Root} :
       parent[a] = parent[b] /\ a < b

(* The entry at which the budget runs out, if there is one. *)
Cut(parent, unreadable) ==
  LET V == Visited(parent, unreadable)
  IN  {x \in V : Cardinality({y \in V : Before(y, x, parent)}) = Limit}

(* What comes before it; the directories it is in, but for the root, are lost. *)
Listed(parent, unreadable) ==
  LET cut  == Cut(parent, unreadable)
      lost == (UNION {Ancestors(x, parent) : x \in cut}) \ {Root}
  IN  {x \in Visited(parent, unreadable) \ unreadable :
         /\ \A y \in cut : Before(x, y, parent)
         /\ Path(x, parent) \cap lost = {}}

(* Nodes in the order of the tree. *)
InOrder(S, parent) == SortedBy(S, {p \in S \X S : Before(p[1], p[2], parent)})

(* They, and the mark that some are missing. *)
List(parent, unreadable) ==
  [nodes     |-> InOrder(Listed(parent, unreadable), parent),
   Truncated |-> Cut(parent, unreadable) # {}]

-----------------------------------------------------------------------------
(* The fingerprints; a hash is taken to be injective. *)

(* Names, kinds and the mark; a name has one kind here. *)
shapeSignature(l) == <<l.nodes, l.Truncated>>

(* Sizes and times: `rev` says when each node last changed. *)
contentSignature(l, rev) == [i \in DOMAIN l.nodes |-> rev[l.nodes[i]]]
=============================================================================
