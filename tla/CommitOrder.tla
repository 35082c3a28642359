----------------------------- MODULE CommitOrder -----------------------------
(***************************************************************************)
(* The in-memory half of assignment_9/homework/topo_order_commits.py       *)
(* (lines 51-126): from the branch heads and the table of parents it has   *)
(* read, the script                                                        *)
(*   - walks depth first from every head towards the roots and records a   *)
(*     graph of CommitNode objects (lines 51-85),                          *)
(*   - walks that graph depth first from the roots towards the heads and   *)
(*     emits a commit once all its recorded children are out (87-105),     *)
(*   - prints the emitted commits, with a sticky line pair between two     *)
(*     neighbours that are not parent and child (107-126).                 *)
(* One action is one iteration of a loop of the script.  A commit hash is  *)
(* a natural number: the script only compares and sorts hashes.            *)
(***************************************************************************)
EXTENDS Naturals, Sequences, FiniteSets

CONSTANTS
  Commit,     (* The commit hashes.                                         *)
  Histories,  (* The values dict_of_parent_hashes can have: tables from     *)
              (* some hashes to their parent lists.                         *)
  HeadLists   (* The values list_of_hashes can have, one hash per branch.   *)

ParentSet(table, c) == { table[c][i] : i \in DOMAIN table[c] }

(***************************************************************************)
(* A history has no cycle: every set of commits has a member none of whose *)
(* parents is in the set.  (A hash covers the hashes of the parents.)      *)
(***************************************************************************)
Acyclic(table) ==
  \A S \in SUBSET DOMAIN table :
    S # {} => \E c \in S : ParentSet(table, c) \cap S = {}

ASSUME CommitAssumption == Commit \subseteq Nat /\ IsFiniteSet(Commit)

ASSUME HistoryAssumption ==
  \A t \in Histories :
    /\ DOMAIN t \subseteq Commit
    /\ \A c \in DOMAIN t : t[c] \in Seq(Commit)
    /\ Acyclic(t)

ASSUME HeadAssumption == \A l \in HeadLists : l \in Seq(Commit)

VARIABLES
  pc,                 (* where the script is                                *)
  dictOfParentHashes, (* hash -> parent list, as read from .git/objects     *)
  heads,              (* the hash of each branch, in listing order: what    *)
                      (* dict_of_branch_hashes holds, turned around         *)
  listOfHashes,       (* list_of_hashes: the heads still to be walked       *)
  stack,              (* stack: the path from a head to the current commit  *)
  hasVisited,         (* has_visited                                        *)
  nodes,              (* nodes: hash -> CommitNode                          *)
  rootsFound,         (* commits, lines 52-85: the set of roots found       *)
  commits,            (* commits, from line 87: the stack of the second     *)
                      (* walk, which starts as the sorted list of the roots *)
  orderedCommits,     (* ordered_commits                                    *)
  output              (* what has been printed                              *)

input == <<dictOfParentHashes, heads>>
vars  == <<pc, dictOfParentHashes, heads, listOfHashes, stack, hasVisited,
           nodes, commits, rootsFound, orderedCommits, output>>

PcValues == {"init", "branches", "walk", "order", "print", "done", "crash"}

SeqRange(s) == { s[i] : i \in DOMAIN s }
TopOf(s)    == s[Len(s)]
PopOf(s)    == SubSeq(s, 1, Len(s) - 1)

Parents(c)  == ParentSet(dictOfParentHashes, c)

CommitNodes == [parents : SUBSET Commit, children : SUBSET Commit]
NewNode     == [parents |-> {}, children |-> {}]
NodeOf(h)   == IF h \in DOMAIN nodes THEN nodes[h] ELSE NewNode
------------------------------------------------------------------------------
Init ==
  /\ pc = "init"
  /\ dictOfParentHashes \in Histories
  /\ heads \in HeadLists
  /\ listOfHashes = heads
  /\ stack = <<>>
  /\ hasVisited = {}
  /\ nodes = [h \in {} |-> NewNode]
  /\ rootsFound = {}
  /\ commits = <<>>
  /\ orderedCommits = <<>>
  /\ output = <<>>

Crash ==
  /\ pc' = "crash"
  /\ UNCHANGED <<dictOfParentHashes, heads, listOfHashes, stack, hasVisited,
                 nodes, commits, rootsFound, orderedCommits, output>>

(* has_visited = set(), for every head anew *)
VisitedKept    == hasVisited
VisitedAtStart == {}

(* while list_of_hashes != []: take the last head *)
StartWalk ==
  /\ pc \in {"init", "branches"}
  /\ listOfHashes # <<>>
  /\ pc' = "walk"
  /\ stack' = <<TopOf(listOfHashes)>>
  /\ listOfHashes' = PopOf(listOfHashes)
  /\ hasVisited' = VisitedAtStart
  /\ UNCHANGED <<input, nodes, commits, rootsFound, orderedCommits, output>>

(* has_visited.clear() before any walk has bound the name *)
NoBranchError ==
  /\ pc = "init"
  /\ listOfHashes = <<>>
  /\ Crash

(* dict_of_parent_hashes[curr_hash] raises KeyError *)
UnknownHashError ==
  /\ pc = "walk"
  /\ stack # <<>>
  /\ TopOf(stack) \notin DOMAIN dictOfParentHashes
  /\ Crash

WithEdgeLostChild(c, p) ==
  [h \in DOMAIN nodes \cup {c, p} |->
     [parents  |-> NodeOf(h).parents  \cup (IF h = c THEN {p} ELSE {}),
      children |-> IF h = p /\ p \notin DOMAIN nodes
                   THEN {c} ELSE NodeOf(h).children]]

WithEdgeNoParentNode(c, p) ==
  [h \in DOMAIN nodes \cup {c} |->
     [parents  |-> NodeOf(h).parents  \cup (IF h = c THEN {p} ELSE {}),
      children |-> NodeOf(h).children \cup (IF h = p THEN {c} ELSE {})]]

(* The graph after nodes[c].parents.add(p) and nodes[p].children.add(c) *)
WithEdge(c, p) ==
  [h \in DOMAIN nodes \cup {c, p} |->
     [parents  |-> NodeOf(h).parents  \cup (IF h = c THEN {p} ELSE {}),
      children |-> NodeOf(h).children \cup (IF h = p THEN {c} ELSE {})]]

(* The first parent in list order that this walk has not visited *)
IsFirstUnvisited(list, i) ==
  /\ i \in DOMAIN list
  /\ list[i] \notin hasVisited
  /\ \A j \in DOMAIN list : j < i => list[j] \in hasVisited

Descend ==
  /\ pc = "walk"
  /\ stack # <<>>
  /\ LET curr == TopOf(stack) IN
     /\ curr \in DOMAIN dictOfParentHashes
     /\ \E i \in DOMAIN dictOfParentHashes[curr] :
          LET parent == dictOfParentHashes[curr][i] IN
          /\ IsFirstUnvisited(dictOfParentHashes[curr], i)
          /\ nodes' = WithEdge(curr, parent)
          /\ stack' = Append(stack, parent)
  /\ UNCHANGED <<pc, input, listOfHashes, hasVisited, commits, rootsFound,
                 orderedCommits, output>>

AllParentsVisited(c) == Parents(c) \subseteq hasVisited

Unmarked(c) == hasVisited
Marked(c)   == hasVisited \cup {c}

Retreat ==
  /\ pc = "walk"
  /\ stack # <<>>
  /\ LET curr == TopOf(stack) IN
     /\ curr \in DOMAIN dictOfParentHashes
     /\ AllParentsVisited(curr)
     /\ rootsFound' = rootsFound \cup
                        (IF dictOfParentHashes[curr] = <<>> THEN {curr} ELSE {})
     /\ hasVisited' = Marked(curr)
     /\ stack' = PopOf(stack)
  /\ UNCHANGED <<pc, input, listOfHashes, nodes, commits, orderedCommits,
                 output>>

EndWalk ==
  /\ pc = "walk"
  /\ stack = <<>>
  /\ pc' = "branches"
  /\ UNCHANGED <<input, listOfHashes, stack, hasVisited, nodes, commits,
                 rootsFound, orderedCommits, output>>

(* commits = sorted(list(commits)) *)
IsSortedListOf(s, S) ==
  /\ SeqRange(s) = S
  /\ \A i, j \in DOMAIN s : i < j => s[i] < s[j]

StartOrdering ==
  /\ pc = "branches"
  /\ listOfHashes = <<>>
  /\ pc' = "order"
  /\ \E s \in [1..Cardinality(rootsFound) -> rootsFound] :
       IsSortedListOf(s, rootsFound) /\ commits' = s
  /\ hasVisited' = {}
  /\ UNCHANGED <<input, listOfHashes, stack, nodes, rootsFound,
                 orderedCommits, output>>

(* nodes[commits[-1]] raises KeyError: the walks recorded no edge for it *)
NoNodeError ==
  /\ pc = "order"
  /\ commits # <<>>
  /\ TopOf(commits) \notin DOMAIN nodes
  /\ Crash

(* The recorded children that are not out yet *)
UnemittedParents(c) == nodes[c].parents \ hasVisited
Unemitted(c) == nodes[c].children \ hasVisited

(* push the least child that is not out yet *)
Climb ==
  /\ pc = "order"
  /\ commits # <<>>
  /\ LET curr == TopOf(commits) IN
     /\ curr \in DOMAIN nodes
     /\ \E child \in Unemitted(curr) :
          /\ \A other \in Unemitted(curr) : child <= other
          /\ commits' = Append(commits, child)
  /\ UNCHANGED <<pc, input, listOfHashes, stack, hasVisited, nodes,
                 rootsFound, orderedCommits, output>>

Emit ==
  /\ pc = "order"
  /\ commits # <<>>
  /\ LET curr == TopOf(commits) IN
     /\ curr \in DOMAIN nodes
     /\ Unemitted(curr) = {}
     /\ orderedCommits' = Append(orderedCommits, curr)
     /\ commits' = PopOf(commits)
     /\ hasVisited' = Marked(curr)
  /\ UNCHANGED <<pc, input, listOfHashes, stack, nodes, rootsFound, output>>

StartPrinting ==
  /\ pc = "order"
  /\ commits = <<>>
  /\ pc' = "print"
  /\ UNCHANGED <<input, listOfHashes, stack, hasVisited, nodes, commits,
                 rootsFound, orderedCommits, output>>

(* dict_of_branch_hashes[c], a branch being named by its place in heads *)
LastBranchAt(c) == { b \in DOMAIN heads : heads[b] = c /\
                       \A a \in DOMAIN heads : heads[a] = c => a <= b }
BranchesAt(c) == { b \in DOMAIN heads : heads[b] = c }

(***************************************************************************)
(* The lines printed for one commit: "=children" when the line before is   *)
(* not a recorded child, the hash with its branches, "parents=" and an     *)
(* empty line when the commit after is not a recorded parent.              *)
(***************************************************************************)
Line(kind, c, set) == [kind |-> kind, commit |-> c, set |-> set]

LinesForParents(i) ==
  LET c == orderedCommits[i]
      stickyStart == /\ i > 1
                     /\ orderedCommits[i - 1] \notin nodes[c].parents
      stickyEnd   == /\ i < Len(orderedCommits)
                     /\ orderedCommits[i + 1] \notin nodes[c].parents
  IN (IF stickyStart THEN <<Line("start", c, nodes[c].children)>> ELSE <<>>)
     \o <<Line("commit", c, BranchesAt(c))>>
     \o (IF stickyEnd THEN <<Line("end", c, nodes[c].parents)>> ELSE <<>>)

LinesFor(i) ==
  LET c == orderedCommits[i]
      stickyStart == /\ i > 1
                     /\ orderedCommits[i - 1] \notin nodes[c].children
      stickyEnd   == /\ i < Len(orderedCommits)
                     /\ orderedCommits[i + 1] \notin nodes[c].parents
  IN (IF stickyStart THEN <<Line("start", c, nodes[c].children)>> ELSE <<>>)
     \o <<Line("commit", c, BranchesAt(c))>>
     \o (IF stickyEnd THEN <<Line("end", c, nodes[c].parents)>> ELSE <<>>)

Printed == { i \in DOMAIN output : output[i].kind = "commit" }

PrintCommit ==
  /\ pc = "print"
  /\ Cardinality(Printed) < Len(orderedCommits)
  /\ output' = output \o LinesFor(Cardinality(Printed) + 1)
  /\ UNCHANGED <<pc, input, listOfHashes, stack, hasVisited, nodes, commits,
                 rootsFound, orderedCommits>>

Finish ==
  /\ pc = "print"
  /\ Cardinality(Printed) = Len(orderedCommits)
  /\ pc' = "done"
  /\ UNCHANGED <<input, listOfHashes, stack, hasVisited, nodes, commits,
                 rootsFound, orderedCommits, output>>

Next ==
  \/ StartWalk \/ NoBranchError
  \/ UnknownHashError \/ Descend \/ Retreat \/ EndWalk
  \/ StartOrdering \/ NoNodeError \/ Climb \/ Emit
  \/ StartPrinting \/ PrintCommit \/ Finish

Spec == Init /\ [][Next]_vars
------------------------------------------------------------------------------
Lines ==
  [kind : {"commit"}, commit : Commit, set : SUBSET DOMAIN heads]
    \cup [kind : {"start", "end"}, commit : Commit, set : SUBSET Commit]

(* Every variable holds a value of its kind.                                *)
TypeOK ==
  /\ pc \in PcValues
  /\ dictOfParentHashes \in Histories
  /\ heads \in HeadLists
  /\ listOfHashes \in Seq(Commit)
  /\ stack \in Seq(Commit)
  /\ hasVisited \subseteq Commit
  /\ DOMAIN nodes \subseteq Commit
  /\ nodes \in [DOMAIN nodes -> CommitNodes]
  /\ rootsFound \subseteq Commit
  /\ commits \in Seq(Commit)
  /\ orderedCommits \in Seq(Commit)
  /\ output \in Seq(Lines)

------------------------------------------------------------------------------
(* Reference notions: the real ancestors of a commit, itself included, and  *)
(* the commits the recorded graph links to a root that was found.           *)
ClosedUnderParents(S) ==
  \A c \in S \cap DOMAIN dictOfParentHashes : Parents(c) \subseteq S

Ancestry ==
  [ h \in Commit |->
      { c \in Commit :
          \A S \in SUBSET Commit : h \in S /\ ClosedUnderParents(S) => c \in S } ]

ClosedUnderChildren(S) == \A c \in S : NodeOf(c).children \subseteq S

Anchored ==
  { c \in Commit :
      \A S \in SUBSET Commit :
        rootsFound \subseteq S /\ ClosedUnderChildren(S) => c \in S }

Heads   == SeqRange(heads)
Reached == UNION { Ancestry[h] : h \in Heads }
Emitted == SeqRange(orderedCommits)

(***************************************************************************)
(* The recorded graph is the mirror image of itself and part of history:   *)
(* p is a recorded parent of c exactly when c is a recorded child of p,    *)
(* and then p really is a parent of c (lines 71-78, over all the walks).   *)
(***************************************************************************)
EdgesMirrored ==
  \A c, p \in Commit :
    /\ p \in NodeOf(c).parents <=> c \in NodeOf(p).children
    /\ p \in NodeOf(c).parents => /\ c \in DOMAIN dictOfParentHashes
                                  /\ p \in Parents(c)

(***************************************************************************)
(* When a walk is over it has visited the head and exactly its ancestors:  *)
(* the early break after one parent (line 81) skips nobody.                *)
(***************************************************************************)
WalkVisitsAncestry ==
  pc = "branches" => hasVisited = Ancestry[heads[Len(listOfHashes) + 1]]

(***************************************************************************)
(* Every branch head is emitted, though the walks drop the edges to        *)
(* commits already visited and so lose other commits.                      *)
(***************************************************************************)
HeadsEmitted == pc \in {"print", "done"} => Heads \subseteq Emitted

(***************************************************************************)
(* What is emitted is exactly what the recorded graph links to the roots:  *)
(* the second walk (lines 91-105) misses nothing it could reach.           *)
(***************************************************************************)
EmittedIsAnchored ==
  pc \in {"print", "done"} => Emitted = Anchored

(***************************************************************************)
(* A reader of the output can tell neighbours apart: two commits printed   *)
(* next to each other without a break are child and parent, and a break is *)
(* always a pair, the parents of the one and the children of the other     *)
(* (lines 111-114 and 123-126 decide from the two ends of one edge).       *)
(***************************************************************************)
StickyLinesPaired ==
  pc = "done" =>
    \A i \in 1..(Len(output) - 1) :
      LET above == output[i]
          below == output[i + 1]
      IN CASE above.kind = "end"    -> below.kind = "start"
           [] below.kind = "start"  -> above.kind = "end"
           [] above.kind = "commit" /\ below.kind = "commit" ->
                below.commit \in Parents(above.commit)
           [] OTHER                 -> above.commit = below.commit

(***************************************************************************)
(* The script dies of an exception exactly when there is no branch, when a *)
(* hash it needs is not in the table, or when some branch points at a root *)
(* commit that is not an ancestor of another branch's commit.              *)
(***************************************************************************)
Doomed ==
  \/ heads = <<>>
  \/ ~ (Reached \subseteq DOMAIN dictOfParentHashes)
  \/ \E h \in Heads : /\ Parents(h) = {}
                      /\ \A g \in Heads \ {h} : h \notin Ancestry[g]

CrashesExactlyIfDoomed ==
  /\ pc = "crash" => Doomed
  /\ pc = "done"  => ~ Doomed

(***************************************************************************)
(* The ordering refines the abstract specification: the recorded graph is  *)
(* fixed before the first commit is out, no commit is emitted twice, and   *)
(* none before a recorded child.                                           *)
(***************************************************************************)
Sort == INSTANCE TopoSort WITH
          children <- [c \in Commit |-> NodeOf(c).children],
          emitted  <- orderedCommits

RefinesTopoSort == Sort!Spec
------------------------------------------------------------------------------
(***************************************************************************)
(* The inductive invariant behind the theorems of CommitOrderProofs, in    *)
(* three parts: what every step keeps of the graph, what the first walk    *)
(* keeps of the branches it is done with, and what the second walk keeps   *)
(* of its stack.                                                           *)
(***************************************************************************)
Walking  == {"walk", "branches"}
Ordering == {"order", "print", "done"}

(* The recorded graph: edges are real and mirrored, a node has an edge, the *)
(* lower end of an edge is an ancestor of a head, and the roots are roots.  *)
GraphInv ==
  /\ EdgesMirrored
  /\ \A c \in DOMAIN nodes : nodes[c].parents \cup nodes[c].children # {}
  /\ \A c \in Commit : NodeOf(c).parents # {} => c \in Reached
  /\ \A c \in rootsFound : /\ c \in DOMAIN dictOfParentHashes
                           /\ dictOfParentHashes[c] = <<>>
  /\ \A c \in rootsFound : c \in Heads \cup DOMAIN nodes
  /\ pc \in {"init"} \cup Walking => commits = <<>> /\ orderedCommits = <<>>

(* The branch of the current walk, and the branches walked to the end       *)
WalkHead  == heads[Len(listOfHashes) + 1]
Walked(k) == k > Len(listOfHashes) /\ (pc = "walk" => k > Len(listOfHashes) + 1)

BranchInv ==
  /\ Len(listOfHashes) <= Len(heads)
  /\ \A k \in 1..Len(listOfHashes) : listOfHashes[k] = heads[k]
  /\ pc = "init" => listOfHashes = heads
  /\ pc \in Walking => Len(listOfHashes) < Len(heads)
  /\ pc \in Ordering => listOfHashes = <<>> /\ heads # <<>>

(* The walk from one branch                                                 *)
WalkInv ==
  pc \in Walking =>
    /\ pc = "branches" => stack = <<>>
    /\ stack # <<>> => stack[1] = WalkHead
    /\ stack = <<>> => WalkHead \in hasVisited
    /\ hasVisited \cup SeqRange(stack) \subseteq Ancestry[WalkHead]
    /\ hasVisited \cup SeqRange(stack) \subseteq {WalkHead} \cup DOMAIN nodes
    /\ \A c \in hasVisited : /\ c \in DOMAIN dictOfParentHashes
                             /\ Parents(c) \subseteq hasVisited

(* Each member of the walk's stack is a recorded child of the next one; so  *)
(* once a root is found under a branch, the branch hangs on a root.         *)
AnchorInv ==
  /\ pc = "walk" =>
       \A S \in SUBSET Commit : ClosedUnderChildren(S) =>
         \A i, j \in DOMAIN stack : i < j /\ stack[j] \in S => stack[i] \in S
  /\ pc \in Walking /\ hasVisited # {} => WalkHead \in Anchored
  /\ pc # "crash" => \A k \in DOMAIN heads : Walked(k) =>
       /\ heads[k] \in Anchored
       /\ Ancestry[heads[k]] \subseteq DOMAIN dictOfParentHashes
       /\ Ancestry[heads[k]] \subseteq {heads[k]} \cup DOMAIN nodes

(* The stack of the second walk: some roots, then a path of recorded edges. *)
StackInv ==
  /\ \A i, j \in DOMAIN commits : i # j => commits[i] # commits[j]
  /\ \A i, j \in DOMAIN commits :
       i < j /\ commits[j] \in rootsFound => commits[i] \in rootsFound
  /\ \A k \in DOMAIN commits :
       \/ commits[k] \in rootsFound
       \/ /\ k > 1
          /\ commits[k] \in DOMAIN nodes
          /\ commits[k - 1] \in nodes[commits[k]].parents

OrderInv ==
  pc \in Ordering =>
    /\ StackInv
    /\ hasVisited = Emitted
    /\ SeqRange(commits) \cap Emitted = {}
    /\ rootsFound \subseteq Emitted \cup SeqRange(commits)
    /\ Emitted \cup SeqRange(commits) \subseteq Anchored
    /\ ClosedUnderChildren(Emitted)
    /\ pc # "order" => commits = <<>>

(***************************************************************************)
(* The conjunction of the parts, as it holds of every state the walks, the *)
(* ordering and the printing (lines 51-126) go through.                    *)
(***************************************************************************)
IndInv ==
  /\ TypeOK
  /\ Emitted \subseteq DOMAIN nodes
  /\ GraphInv
  /\ BranchInv
  /\ WalkInv
  /\ AnchorInv
  /\ OrderInv
==============================================================================
