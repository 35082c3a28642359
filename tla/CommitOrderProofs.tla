-------------------------- MODULE CommitOrderProofs --------------------------
(***************************************************************************)
(* Theorems about CommitOrder for every set of hashes, every history       *)
(* without a cycle and every list of branch heads.                         *)
(***************************************************************************)
EXTENDS CommitOrder, SequenceTheorems, FiniteSetTheorems, TLAPS

------------------------------------------------------------------------------
(* The stacks of the script: what pop and append do to a sequence.          *)

LEMMA PopFacts ==
  ASSUME NEW S, NEW s \in Seq(S), s # <<>>
  PROVE  /\ Len(s) \in Nat \ {0}
         /\ TopOf(s) \in S
         /\ PopOf(s) \in Seq(S)
         /\ Len(PopOf(s)) = Len(s) - 1
         /\ \A i \in 1..(Len(s) - 1) : PopOf(s)[i] = s[i]
         /\ SeqRange(s) = SeqRange(PopOf(s)) \cup {TopOf(s)}
<1>1. PICK n \in Nat : Len(s) = n + 1
  <2>1. Len(s) - 1 \in Nat /\ Len(s) = (Len(s) - 1) + 1
    BY EmptySeq
  <2> QED
    BY <2>1
<1>2. Len(SubSeq(s, 1, n)) = n
  BY <1>1
<1>3. /\ PopOf(s) \in Seq(S)
      /\ Len(PopOf(s)) = Len(s) - 1
      /\ \A i \in 1..(Len(s) - 1) : PopOf(s)[i] = s[i]
  <2>1. Len(s) - 1 = n
    BY <1>1
  <2>2. SubSeq(s, 1, n) \in Seq(S) /\ \A i \in 1..n : SubSeq(s, 1, n)[i] = s[i]
    BY <1>1
  <2> QED
    BY <1>2, <2>1, <2>2 DEF PopOf
<1>4. TopOf(s) \in S
  BY <1>1, ElementOfSeq DEF TopOf
<1>5. SeqRange(s) = SeqRange(PopOf(s)) \cup {TopOf(s)}
  <2>1. DOMAIN s = 1..Len(s) /\ DOMAIN PopOf(s) = 1..(Len(s) - 1)
    BY <1>3, LenProperties
  <2>2. 1..Len(s) = 1..(Len(s) - 1) \cup {Len(s)}
    BY <1>1
  <2> QED
    BY <2>1, <2>2, <1>3 DEF SeqRange, TopOf
<1> QED
  BY <1>1, <1>3, <1>4, <1>5

LEMMA PushFacts ==
  ASSUME NEW S, NEW s \in Seq(S), NEW e \in S
  PROVE  /\ Append(s, e) \in Seq(S)
         /\ Len(s) \in Nat
         /\ Len(Append(s, e)) = Len(s) + 1
         /\ \A i \in 1..Len(s) : Append(s, e)[i] = s[i]
         /\ Append(s, e)[Len(s) + 1] = e
         /\ TopOf(Append(s, e)) = e
         /\ SeqRange(Append(s, e)) = SeqRange(s) \cup {e}
<1>1. /\ Append(s, e) \in Seq(S)
      /\ Len(s) \in Nat
      /\ Len(Append(s, e)) = Len(s) + 1
      /\ \A i \in 1..Len(s) : Append(s, e)[i] = s[i]
      /\ Append(s, e)[Len(s) + 1] = e
  OBVIOUS
<1>2. SeqRange(Append(s, e)) = SeqRange(s) \cup {e}
  <2>1. DOMAIN s = 1..Len(s) /\ DOMAIN Append(s, e) = 1..(Len(s) + 1)
    BY <1>1, LenProperties
  <2>2. 1..(Len(s) + 1) = 1..Len(s) \cup {Len(s) + 1}
    BY <1>1
  <2> QED
    BY <2>1, <2>2, <1>1 DEF SeqRange
<1> QED
  BY <1>1, <1>2 DEF TopOf

------------------------------------------------------------------------------
(* Type correctness.  A commit on the output must have a node: printing     *)
(* looks its children and parents up.                                       *)

IndTypeOK == TypeOK /\ Emitted \subseteq DOMAIN nodes

LEMMA NodeOfType ==
  ASSUME TypeOK, NEW h
  PROVE  NodeOf(h) \in CommitNodes
  BY DEF TypeOK, NodeOf, NewNode, CommitNodes

LEMMA ParentListType ==
  ASSUME TypeOK, NEW c \in DOMAIN dictOfParentHashes
  PROVE  /\ dictOfParentHashes[c] \in Seq(Commit)
         /\ Parents(c) \subseteq Commit
         /\ Parents(c) = {} <=> dictOfParentHashes[c] = <<>>
         /\ DOMAIN dictOfParentHashes \subseteq Commit
<1>1. dictOfParentHashes[c] \in Seq(Commit) /\ DOMAIN dictOfParentHashes \subseteq Commit
  BY HistoryAssumption DEF TypeOK
<1>2. \A i \in DOMAIN dictOfParentHashes[c] : dictOfParentHashes[c][i] \in Commit
  BY <1>1, ElementOfSeq, LenProperties
<1>3. dictOfParentHashes[c] # <<>> => 1 \in DOMAIN dictOfParentHashes[c]
  BY <1>1, EmptySeq, LenProperties
<1>4. dictOfParentHashes[c] = <<>> => DOMAIN dictOfParentHashes[c] = {}
  BY <1>1, EmptySeq, LenProperties
<1> QED
  BY <1>1, <1>2, <1>3, <1>4 DEF Parents, ParentSet

LEMMA WithEdgeType ==
  ASSUME TypeOK, NEW c \in Commit, NEW p \in Commit
  PROVE  /\ DOMAIN WithEdge(c, p) = DOMAIN nodes \cup {c, p}
         /\ WithEdge(c, p) \in [DOMAIN WithEdge(c, p) -> CommitNodes]
  BY NodeOfType DEF WithEdge, CommitNodes

LEMMA LinesForType ==
  ASSUME IndTypeOK, NEW i \in 1..Len(orderedCommits)
  PROVE  LinesFor(i) \in Seq(Lines)
<1> DEFINE c == orderedCommits[i]
<1>1. c \in Commit /\ c \in DOMAIN nodes
  BY ElementOfSeq, LenProperties DEF IndTypeOK, TypeOK, Emitted, SeqRange
<1>2. nodes[c] \in CommitNodes
  BY <1>1 DEF IndTypeOK, TypeOK
<1>3. nodes[c].children \in SUBSET Commit /\ nodes[c].parents \in SUBSET Commit
  BY <1>2 DEF CommitNodes
<1>4. /\ Line("start", c, nodes[c].children) \in Lines
      /\ Line("end", c, nodes[c].parents) \in Lines
      /\ Line("commit", c, BranchesAt(c)) \in Lines
  BY <1>1, <1>3 DEF Line, Lines, BranchesAt
<1> HIDE DEF c
<1>5. \A l \in Lines : <<l>> \in Seq(Lines)
  OBVIOUS
<1>6. <<>> \in Seq(Lines)
  BY EmptySeq
<1>7. \A a, b \in Seq(Lines) : a \o b \in Seq(Lines)
  BY ConcatProperties
<1> QED
  BY <1>4, <1>5, <1>6, <1>7 DEF LinesFor, c

LEMMA PrintedCount ==
  ASSUME TypeOK
  PROVE  Cardinality(Printed) \in Nat
<1>1. DOMAIN output = 1..Len(output) /\ Len(output) \in Nat
  BY LenProperties DEF TypeOK
<1>2. IsFiniteSet(1..Len(output))
  BY <1>1, FS_Interval
<1> QED
  BY <1>1, <1>2, FS_Subset, FS_CardinalityType DEF Printed

LEMMA InitType == Init => IndTypeOK
<1> SUFFICES ASSUME Init PROVE IndTypeOK
  OBVIOUS
<1>1. heads \in Seq(Commit)
  BY HeadAssumption DEF Init
<1>2. <<>> \in Seq(Commit) /\ <<>> \in Seq(Lines) /\ SeqRange(<<>>) = {}
  BY EmptySeq DEF SeqRange
<1>3. [h \in {} |-> NewNode] \in [{} -> CommitNodes] /\ DOMAIN [h \in {} |-> NewNode] = {}
  OBVIOUS
<1> QED
  BY <1>1, <1>2, <1>3 DEF Init, IndTypeOK, TypeOK, PcValues, Emitted

LEMMA NextType == IndTypeOK /\ [Next]_vars => IndTypeOK'
<1> SUFFICES ASSUME IndTypeOK, [Next]_vars PROVE IndTypeOK'
  OBVIOUS
<1> USE DEF IndTypeOK, Emitted
<1>1. CASE StartWalk
  <2>1. /\ TopOf(listOfHashes) \in Commit
        /\ PopOf(listOfHashes) \in Seq(Commit)
    BY <1>1, PopFacts DEF StartWalk, TypeOK
  <2> QED
    BY <1>1, <2>1 DEF StartWalk, VisitedAtStart, TypeOK, input, PcValues, Lines
<1>2. CASE NoBranchError \/ UnknownHashError \/ NoNodeError
  BY <1>2 DEF NoBranchError, UnknownHashError, NoNodeError, Crash, TypeOK,
              PcValues, Lines
<1>3. CASE Descend
  <2> DEFINE curr == TopOf(stack)
  <2>1. PICK i \in DOMAIN dictOfParentHashes[curr] :
          /\ nodes' = WithEdge(curr, dictOfParentHashes[curr][i])
          /\ stack' = Append(stack, dictOfParentHashes[curr][i])
    BY <1>3 DEF Descend
  <2>2. curr \in DOMAIN dictOfParentHashes
    BY <1>3 DEF Descend
  <2>3. dictOfParentHashes[curr][i] \in Commit /\ curr \in Commit
    BY <2>2, ParentListType DEF Parents, ParentSet
  <2>4. stack' \in Seq(Commit)
    BY <2>1, <2>3, PushFacts DEF TypeOK
  <2>5. /\ DOMAIN nodes \subseteq DOMAIN nodes'
        /\ nodes' \in [DOMAIN nodes' -> CommitNodes]
        /\ DOMAIN nodes' = DOMAIN nodes \cup {curr, dictOfParentHashes[curr][i]}
    <3>1. \A c, p \in Commit :
            /\ DOMAIN WithEdge(c, p) = DOMAIN nodes \cup {c, p}
            /\ WithEdge(c, p) \in [DOMAIN WithEdge(c, p) -> CommitNodes]
      BY WithEdgeType
    <3> HIDE DEF curr
    <3> QED
      BY <2>1, <2>3, <3>1
  <2>6. DOMAIN nodes' \subseteq Commit
    <3> HIDE DEF curr
    <3> QED
      BY <2>3, <2>5 DEF TypeOK
  <2> QED
    BY <1>3, <2>4, <2>5, <2>6 DEF Descend, TypeOK, input, Lines
<1>4. CASE Retreat
  <2>1. /\ TopOf(stack) \in Commit
        /\ PopOf(stack) \in Seq(Commit)
    BY <1>4, PopFacts DEF Retreat, TypeOK
  <2>2. rootsFound' \subseteq Commit /\ hasVisited' \subseteq Commit
    BY <1>4, <2>1 DEF Retreat, Marked, TypeOK
  <2> QED
    BY <1>4, <2>1, <2>2 DEF Retreat, TypeOK, input, Lines
<1>5. CASE EndWalk
  BY <1>5 DEF EndWalk, TypeOK, input, PcValues, Lines
<1>6. CASE StartOrdering
  <2>1. Cardinality(rootsFound) \in Nat
    BY CommitAssumption, FS_Subset, FS_CardinalityType DEF TypeOK
  <2>2. commits' \in [1..Cardinality(rootsFound) -> rootsFound]
    BY <1>6 DEF StartOrdering
  <2>3. commits' \in [1..Cardinality(rootsFound) -> Commit]
    BY <2>2 DEF TypeOK
  <2>4. commits' \in Seq(Commit)
    BY <2>1, <2>3, SeqDef
  <2> QED
    BY <1>6, <2>4 DEF StartOrdering, TypeOK, input, PcValues, Lines
<1>7. CASE Climb
  <2> DEFINE curr == TopOf(commits)
  <2>1. PICK child \in Unemitted(curr) : commits' = Append(commits, child)
    BY <1>7 DEF Climb
  <2>2. nodes[curr] \in CommitNodes
    BY <1>7 DEF Climb, TypeOK
  <2>3. child \in Commit
    BY <2>2 DEF Unemitted, CommitNodes
  <2>4. commits' \in Seq(Commit)
    BY <2>1, <2>3, PushFacts DEF TypeOK
  <2> QED
    BY <1>7, <2>4 DEF Climb, TypeOK, input, Lines
<1>8. CASE Emit
  <2> DEFINE curr == TopOf(commits)
  <2>1. curr \in Commit /\ PopOf(commits) \in Seq(Commit)
    BY <1>8, PopFacts DEF Emit, TypeOK
  <2>2. /\ orderedCommits' \in Seq(Commit)
        /\ SeqRange(orderedCommits') = SeqRange(orderedCommits) \cup {curr}
    BY <1>8, <2>1, PushFacts DEF Emit, TypeOK
  <2>3. curr \in DOMAIN nodes
    BY <1>8 DEF Emit
  <2> QED
    BY <1>8, <2>1, <2>2, <2>3 DEF Emit, Marked, TypeOK, input, Lines
<1>9. CASE StartPrinting
  BY <1>9 DEF StartPrinting, TypeOK, input, PcValues, Lines
<1>10. CASE PrintCommit
  <2>1. Cardinality(Printed) + 1 \in 1..Len(orderedCommits)
    BY <1>10, PrintedCount, LenProperties DEF PrintCommit, TypeOK
  <2>2. output' \in Seq(Lines)
    BY <1>10, <2>1, LinesForType, ConcatProperties DEF PrintCommit, TypeOK
  <2> QED
    BY <1>10, <2>2 DEF PrintCommit, TypeOK, input, Lines
<1>11. CASE Finish
  BY <1>11 DEF Finish, TypeOK, input, PcValues, Lines
<1>12. CASE UNCHANGED vars
  BY <1>12 DEF vars, TypeOK, Lines
<1> QED
  BY <1>1, <1>2, <1>3, <1>4, <1>5, <1>6, <1>7, <1>8, <1>9, <1>10, <1>11, <1>12
     DEF Next

(***************************************************************************)
(* The script never looks up a value of the wrong kind: what it stacks,    *)
(* records, emits and prints are hashes and sets of hashes.                *)
(***************************************************************************)
THEOREM TypeCorrect == Spec => []TypeOK
<1>1. IndTypeOK => TypeOK
  BY DEF IndTypeOK
<1> QED
  BY InitType, NextType, <1>1, PTL DEF Spec
------------------------------------------------------------------------------
(* Facts every later proof uses.                                            *)

LEMMA InputFixed ==
  ASSUME [Next]_vars
  PROVE  /\ dictOfParentHashes' = dictOfParentHashes
         /\ heads' = heads
         /\ Heads' = Heads
         /\ Ancestry' = Ancestry
         /\ Reached' = Reached
<1>1. dictOfParentHashes' = dictOfParentHashes /\ heads' = heads
  BY DEF Next, vars, input, StartWalk, NoBranchError, UnknownHashError, Crash,
         Descend, Retreat, EndWalk, StartOrdering, NoNodeError, Climb, Emit,
         StartPrinting, PrintCommit, Finish
<1>2. Heads' = Heads
  BY <1>1 DEF Heads, SeqRange
<1>3. Ancestry' = Ancestry
  BY <1>1 DEF Ancestry, ClosedUnderParents, Parents, ParentSet
<1> QED
  BY <1>1, <1>2, <1>3 DEF Reached

LEMMA AncestryFacts ==
  ASSUME TypeOK, NEW h \in Commit
  PROVE  /\ h \in Ancestry[h]
         /\ Ancestry[h] \subseteq Commit
         /\ \A c \in Ancestry[h] \cap DOMAIN dictOfParentHashes :
              Parents(c) \subseteq Ancestry[h]
         /\ \A S \in SUBSET Commit :
              h \in S /\ ClosedUnderParents(S) => Ancestry[h] \subseteq S
<1>1. Ancestry[h] =
        { c \in Commit :
            \A S \in SUBSET Commit : h \in S /\ ClosedUnderParents(S) => c \in S }
  BY DEF Ancestry
<1>2. h \in Ancestry[h] /\ Ancestry[h] \subseteq Commit
  BY <1>1
<1>3. ASSUME NEW c \in Ancestry[h] \cap DOMAIN dictOfParentHashes,
             NEW p \in Parents(c)
      PROVE  p \in Ancestry[h]
  <2>1. p \in Commit
    BY <1>3, ParentListType
  <2>2. ASSUME NEW S \in SUBSET Commit, h \in S, ClosedUnderParents(S)
        PROVE  p \in S
    BY <1>1, <1>3, <2>2 DEF ClosedUnderParents
  <2> QED
    BY <1>1, <2>1, <2>2
<1> QED
  BY <1>1, <1>2, <1>3

LEMMA AncestryOfHead ==
  ASSUME TypeOK, NEW k \in DOMAIN heads
  PROVE  /\ heads[k] \in Commit
         /\ heads[k] \in Heads
         /\ Ancestry[heads[k]] \subseteq Reached
<1>1. heads[k] \in Commit
  BY HeadAssumption, ElementOfSeq, LenProperties DEF TypeOK
<1> QED
  BY <1>1 DEF Heads, SeqRange, Reached

LEMMA WithEdgeNodes ==
  \A c, p \in Commit : nodes' = WithEdge(c, p) =>
    /\ DOMAIN nodes' = DOMAIN nodes \cup {c, p}
    /\ \A h, q :
         /\ q \in NodeOf(h)'.parents  <=> q \in NodeOf(h).parents  \/ (h = c /\ q = p)
         /\ q \in NodeOf(h)'.children <=> q \in NodeOf(h).children \/ (h = p /\ q = c)
<1> TAKE c, p \in Commit
<1> HAVE nodes' = WithEdge(c, p)
<1>1. DOMAIN nodes' = DOMAIN nodes \cup {c, p}
  BY DEF WithEdge
<1>2. ASSUME NEW h, NEW q
      PROVE  /\ q \in NodeOf(h)'.parents  <=> q \in NodeOf(h).parents  \/ (h = c /\ q = p)
             /\ q \in NodeOf(h)'.children <=> q \in NodeOf(h).children \/ (h = p /\ q = c)
  <2>1. CASE h \in DOMAIN nodes'
    BY <1>1, <2>1 DEF WithEdge, NodeOf
  <2>2. CASE h \notin DOMAIN nodes'
    BY <1>1, <2>2 DEF NodeOf, NewNode
  <2> QED
    BY <2>1, <2>2
<1> QED
  BY <1>1, <1>2

LEMMA NodesFixed ==
  ASSUME nodes' = nodes, NEW h
  PROVE  NodeOf(h)' = NodeOf(h)
  BY DEF NodeOf, NewNode

LEMMA DescendFacts ==
  ASSUME TypeOK, Descend
  PROVE  \E c \in Commit, p \in Commit :
           /\ c = TopOf(stack)
           /\ c \in DOMAIN dictOfParentHashes
           /\ p \in Parents(c)
           /\ p \notin hasVisited
           /\ nodes' = WithEdge(c, p)
           /\ stack' = Append(stack, p)
<1> DEFINE curr == TopOf(stack)
<1>1. curr \in DOMAIN dictOfParentHashes
  BY DEF Descend
<1>2. PICK i \in DOMAIN dictOfParentHashes[curr] :
        /\ dictOfParentHashes[curr][i] \notin hasVisited
        /\ nodes' = WithEdge(curr, dictOfParentHashes[curr][i])
        /\ stack' = Append(stack, dictOfParentHashes[curr][i])
  BY DEF Descend, IsFirstUnvisited
<1>3. dictOfParentHashes[curr][i] \in Parents(curr)
  BY DEF Parents, ParentSet
<1>4. Parents(curr) \subseteq Commit /\ curr \in Commit
  BY <1>1, ParentListType
<1> HIDE DEF curr
<1> QED
  BY <1>1, <1>2, <1>3, <1>4 DEF curr

LEMMA StackMembers ==
  ASSUME TypeOK, stack # <<>>
  PROVE  /\ TopOf(stack) \in SeqRange(stack)
         /\ TopOf(stack) = stack[Len(stack)]
         /\ DOMAIN stack = 1..Len(stack)
         /\ Len(stack) \in Nat \ {0}
<1>1. Len(stack) \in Nat \ {0} /\ DOMAIN stack = 1..Len(stack)
  BY EmptySeq, LenProperties DEF TypeOK
<1> QED
  BY <1>1 DEF SeqRange, TopOf

(* Closure under the children recorded after a step of the walk is closure  *)
(* under those recorded before it.                                          *)
LEMMA ChildrenGrow ==
  ASSUME TypeOK, Descend, NEW S \in SUBSET Commit, ClosedUnderChildren(S)'
  PROVE  ClosedUnderChildren(S)
<1>1. PICK c \in Commit, p \in Commit : nodes' = WithEdge(c, p)
  BY DescendFacts
<1>2. \A h : NodeOf(h).children \subseteq NodeOf(h)'.children
  BY <1>1, WithEdgeNodes
<1> QED
  BY <1>2 DEF ClosedUnderChildren
------------------------------------------------------------------------------
(* The recorded graph                                                       *)

LEMMA WalkTop ==
  ASSUME TypeOK, BranchInv, WalkInv, pc = "walk", stack # <<>>
  PROVE  /\ WalkHead \in Commit
         /\ WalkHead \in Heads
         /\ Len(listOfHashes) + 1 \in DOMAIN heads
         /\ TopOf(stack) \in Ancestry[WalkHead]
         /\ TopOf(stack) \in Reached
<1>1. Len(listOfHashes) + 1 \in DOMAIN heads
  <2>1. heads \in Seq(Commit) /\ listOfHashes \in Seq(Commit)
    BY HeadAssumption DEF TypeOK
  <2>2. Len(listOfHashes) \in Nat /\ Len(listOfHashes) < Len(heads) /\ Len(heads) \in Nat
    BY <2>1, LenProperties DEF BranchInv, Walking
  <2> QED
    BY <2>1, <2>2, LenProperties
<1>2. TopOf(stack) \in Ancestry[WalkHead]
  BY StackMembers DEF WalkInv, Walking
<1> QED
  BY <1>1, <1>2, AncestryOfHead DEF WalkHead

LEMMA GraphStep ==
  ASSUME IndInv, [Next]_vars
  PROVE  GraphInv'
<1> USE DEF IndInv
<1>0. /\ dictOfParentHashes' = dictOfParentHashes
      /\ Heads' = Heads
      /\ Reached' = Reached
      /\ \A c : Parents(c)' = Parents(c)
  BY InputFixed DEF Parents
<1>1. CASE Descend
  <2>1. PICK c \in Commit, p \in Commit :
          /\ c = TopOf(stack)
          /\ c \in DOMAIN dictOfParentHashes
          /\ p \in Parents(c)
          /\ nodes' = WithEdge(c, p)
    BY <1>1, DescendFacts
  <2>2. DOMAIN nodes' = DOMAIN nodes \cup {c, p}
    BY <2>1, WithEdgeNodes
  <2>3. \A h, q :
          /\ q \in NodeOf(h)'.parents  <=> q \in NodeOf(h).parents  \/ (h = c /\ q = p)
          /\ q \in NodeOf(h)'.children <=> q \in NodeOf(h).children \/ (h = p /\ q = c)
    BY <2>1, WithEdgeNodes
  <2>4. EdgesMirrored'
    BY <1>0, <2>1, <2>3 DEF GraphInv, EdgesMirrored
  <2>5. \A h \in DOMAIN nodes' : nodes'[h].parents \cup nodes'[h].children # {}
    <3>1. \A h \in DOMAIN nodes' : nodes'[h] = NodeOf(h)'
      BY DEF NodeOf
    <3>2. \A h \in DOMAIN nodes : nodes[h] = NodeOf(h)
      BY DEF NodeOf
    <3> QED
      BY <2>2, <2>3, <3>1, <3>2 DEF GraphInv
  <2>6. \A h \in Commit : NodeOf(h)'.parents # {} => h \in Reached
    <3>1. c \in Reached
      BY <1>1, <2>1, WalkTop DEF Descend
    <3> QED
      BY <2>3, <3>1 DEF GraphInv
  <2>7. /\ pc' = pc /\ commits' = commits /\ orderedCommits' = orderedCommits
        /\ rootsFound' = rootsFound
    BY <1>1 DEF Descend
  <2> QED
    BY <1>0, <2>2, <2>4, <2>5, <2>6, <2>7 DEF GraphInv
<1>2. CASE Retreat
  <2> DEFINE c == TopOf(stack)
  <2>1. /\ nodes' = nodes
        /\ c \in DOMAIN dictOfParentHashes
        /\ rootsFound' = rootsFound \cup
                           (IF dictOfParentHashes[c] = <<>> THEN {c} ELSE {})
        /\ pc' = pc /\ commits' = commits /\ orderedCommits' = orderedCommits
    BY <1>2 DEF Retreat
  <2>2. c \in Heads \cup DOMAIN nodes
    <3>1. /\ WalkHead \in Heads
          /\ c \in {WalkHead} \cup DOMAIN nodes
      BY <1>2, WalkTop, StackMembers DEF Retreat, WalkInv, Walking
    <3> QED
      BY <3>1
  <2>3. \A h : NodeOf(h)' = NodeOf(h)
    BY <2>1, NodesFixed
  <2> QED
    BY <1>0, <2>1, <2>2, <2>3 DEF GraphInv, EdgesMirrored
<1>3. CASE nodes' = nodes /\ rootsFound' = rootsFound
  <2>1. \A h : NodeOf(h)' = NodeOf(h)
    BY <1>3, NodesFixed
  <2>2. pc' \in {"init"} \cup Walking => commits' = <<>> /\ orderedCommits' = <<>>
    BY DEF GraphInv, Walking, Next, vars, StartWalk, NoBranchError,
           UnknownHashError, Crash, Descend, Retreat, EndWalk, StartOrdering,
           NoNodeError, Climb, Emit, StartPrinting, PrintCommit, Finish
  <2> QED
    BY <1>0, <1>3, <2>1, <2>2 DEF GraphInv, EdgesMirrored
<1>4. Descend \/ Retreat \/ (nodes' = nodes /\ rootsFound' = rootsFound)
  BY DEF Next, vars, StartWalk, NoBranchError, UnknownHashError, Crash,
         EndWalk, StartOrdering, NoNodeError, Climb, Emit,
         StartPrinting, PrintCommit, Finish
<1> QED
  BY <1>1, <1>2, <1>3, <1>4
------------------------------------------------------------------------------
(* The branches and the walk from each of them                              *)

LEMMA BranchStep ==
  ASSUME IndInv, [Next]_vars
  PROVE  BranchInv'
<1> USE DEF IndInv
<1>0. heads' = heads /\ Len(heads) \in Nat /\ Len(listOfHashes) \in Nat
  BY InputFixed, HeadAssumption, LenProperties DEF TypeOK
<1>1. CASE StartWalk
  <2>1. /\ listOfHashes # <<>>
        /\ listOfHashes' = PopOf(listOfHashes)
        /\ pc' = "walk"
    BY <1>1 DEF StartWalk
  <2>2. /\ Len(listOfHashes') = Len(listOfHashes) - 1
        /\ \A k \in 1..(Len(listOfHashes) - 1) : listOfHashes'[k] = listOfHashes[k]
    BY <2>1, PopFacts DEF TypeOK
  <2>3. Len(listOfHashes) # 0
    BY <2>1, EmptySeq DEF TypeOK
  <2> QED
    BY <1>0, <2>1, <2>2, <2>3 DEF BranchInv, Walking, Ordering
<1>2. CASE StartOrdering
  <2>1. Len(listOfHashes) = 0 /\ Len(heads) # 0
    BY <1>0, <1>2, EmptySeq DEF StartOrdering, BranchInv, Walking
  <2>2. heads # <<>>
    BY <2>1, EmptySeq
  <2> QED
    BY <1>0, <1>2, <2>1, <2>2 DEF StartOrdering, BranchInv, Walking, Ordering
<1>3. CASE /\ listOfHashes' = listOfHashes
           /\ pc' = "init"  => pc = "init"
           /\ pc' \in Walking  => pc \in Walking
           /\ pc' \in Ordering => pc \in Ordering
  BY <1>0, <1>3 DEF BranchInv
<1> QED
  BY <1>1, <1>2, <1>3
     DEF Walking, Ordering, Next, vars, NoBranchError, UnknownHashError, Crash,
         Descend, Retreat, EndWalk, NoNodeError, Climb, Emit, StartPrinting,
         PrintCommit, Finish

LEMMA WalkStep ==
  ASSUME IndInv, [Next]_vars
  PROVE  WalkInv'
<1> USE DEF IndInv
<1>0. /\ heads' = heads
      /\ Ancestry' = Ancestry
      /\ dictOfParentHashes' = dictOfParentHashes
      /\ \A c : Parents(c)' = Parents(c)
  BY InputFixed DEF Parents
<1>1. CASE StartWalk
  <2> DEFINE h == TopOf(listOfHashes)
  <2>1. /\ listOfHashes # <<>>
        /\ listOfHashes' = PopOf(listOfHashes)
        /\ stack' = <<h>>
        /\ hasVisited' = {}
        /\ pc' = "walk"
    BY <1>1 DEF StartWalk, VisitedAtStart
  <2>2. /\ Len(listOfHashes) \in Nat \ {0}
        /\ Len(listOfHashes') = Len(listOfHashes) - 1
        /\ h \in Commit
    BY <2>1, PopFacts DEF TypeOK
  <2>3. h = heads[Len(listOfHashes)]
    BY <2>2 DEF BranchInv, TopOf
  <2>4. WalkHead' = h
    BY <1>0, <2>2, <2>3 DEF WalkHead
  <2>5. stack' # <<>> /\ stack'[1] = h /\ SeqRange(stack') = {h}
    BY <2>1 DEF SeqRange
  <2>6. h \in Ancestry[h]
    BY <2>2, AncestryFacts
  <2> HIDE DEF h
  <2> QED
    BY <1>0, <2>1, <2>4, <2>5, <2>6 DEF WalkInv
<1>2. CASE Descend
  <2>1. PICK c \in Commit, p \in Commit :
          /\ c = TopOf(stack)
          /\ c \in DOMAIN dictOfParentHashes
          /\ p \in Parents(c)
          /\ nodes' = WithEdge(c, p)
          /\ stack' = Append(stack, p)
    BY <1>2, DescendFacts
  <2>2. DOMAIN nodes' = DOMAIN nodes \cup {c, p}
    BY <2>1, WithEdgeNodes
  <2>3. /\ pc = "walk" /\ pc' = pc
        /\ stack # <<>>
        /\ hasVisited' = hasVisited
        /\ listOfHashes' = listOfHashes
    BY <1>2 DEF Descend
  <2>4. WalkHead' = WalkHead
    BY <1>0, <2>3 DEF WalkHead
  <2>5. /\ stack' # <<>>
        /\ stack'[1] = stack[1]
        /\ SeqRange(stack') = SeqRange(stack) \cup {p}
    <3>1. /\ stack \in Seq(Commit)
          /\ Len(stack) \in Nat \ {0}
      BY <2>3, StackMembers DEF TypeOK
    <3>2. /\ stack' \in Seq(Commit)
          /\ Len(stack') = Len(stack) + 1
          /\ stack'[1] = stack[1]
          /\ SeqRange(stack') = SeqRange(stack) \cup {p}
      BY <2>1, <3>1, PushFacts
    <3> QED
      BY <3>1, <3>2, EmptySeq
  <2>6. p \in Ancestry[WalkHead]
    BY <2>1, <2>3, WalkTop, AncestryFacts
  <2> QED
    BY <1>0, <2>2, <2>3, <2>4, <2>5, <2>6 DEF WalkInv, Walking
<1>3. CASE Retreat
  <2> DEFINE c == TopOf(stack)
  <2>1. /\ pc = "walk" /\ pc' = pc
        /\ stack # <<>>
        /\ stack' = PopOf(stack)
        /\ c \in DOMAIN dictOfParentHashes
        /\ Parents(c) \subseteq hasVisited
        /\ hasVisited' = hasVisited \cup {c}
        /\ listOfHashes' = listOfHashes
        /\ nodes' = nodes
    BY <1>3 DEF Retreat, Marked, AllParentsVisited
  <2>2. WalkHead' = WalkHead
    BY <1>0, <2>1 DEF WalkHead
  <2>3. /\ SeqRange(stack) = SeqRange(stack') \cup {c}
        /\ stack' \in Seq(Commit)
        /\ Len(stack) \in Nat \ {0}
        /\ Len(stack') = Len(stack) - 1
        /\ \A i \in 1..(Len(stack) - 1) : stack'[i] = stack[i]
    BY <2>1, PopFacts DEF TypeOK
  <2>4. stack' # <<>> => stack'[1] = stack[1]
    BY <2>3, EmptySeq
  <2>5. stack' = <<>> => WalkHead \in hasVisited'
    <3>1. stack' = <<>> => Len(stack) = 1
      BY <2>3, EmptySeq
    <3>2. stack[1] = WalkHead
      BY <2>1 DEF WalkInv, Walking
    <3> QED
      BY <2>1, <3>1, <3>2 DEF TopOf
  <2>6. c \in Ancestry[WalkHead] /\ c \in {WalkHead} \cup DOMAIN nodes
    BY <2>1, StackMembers DEF WalkInv, Walking
  <2> HIDE DEF c
  <2> QED
    BY <1>0, <2>1, <2>2, <2>3, <2>4, <2>5, <2>6 DEF WalkInv, Walking
<1>4. CASE EndWalk
  BY <1>0, <1>4 DEF EndWalk, WalkInv, WalkHead, Walking
<1>5. CASE UNCHANGED vars
  BY <1>0, <1>5 DEF vars, WalkInv, WalkHead
<1>6. CASE pc' \notin Walking
  BY <1>6 DEF WalkInv
<1> QED
  BY <1>1, <1>2, <1>3, <1>4, <1>5, <1>6
     DEF Walking, Next, NoBranchError, UnknownHashError, Crash, StartOrdering,
         NoNodeError, Climb, Emit, StartPrinting, PrintCommit, Finish
------------------------------------------------------------------------------
(* What is linked to a root                                                 *)

LEMMA NodesOrRootsFixed ==
  ASSUME [Next]_vars
  PROVE  Descend \/ Retreat \/ (nodes' = nodes /\ rootsFound' = rootsFound)
  BY DEF Next, vars, StartWalk, NoBranchError, UnknownHashError, Crash,
         EndWalk, StartOrdering, NoNodeError, Climb, Emit,
         StartPrinting, PrintCommit, Finish

LEMMA AnchoredGrows ==
  ASSUME TypeOK, [Next]_vars
  PROVE  Anchored \subseteq Anchored' /\ DOMAIN nodes \subseteq DOMAIN nodes'
<1>1. CASE Descend
  <2>1. rootsFound' = rootsFound
    BY <1>1 DEF Descend
  <2>2. \A S \in SUBSET Commit : ClosedUnderChildren(S)' => ClosedUnderChildren(S)
    BY <1>1, ChildrenGrow
  <2>3. DOMAIN nodes \subseteq DOMAIN nodes'
    BY <1>1, DescendFacts, WithEdgeNodes
  <2> QED
    BY <2>1, <2>2, <2>3 DEF Anchored
<1>2. CASE Retreat
  <2>1. rootsFound \subseteq rootsFound' /\ nodes' = nodes
    BY <1>2 DEF Retreat
  <2>2. \A S : ClosedUnderChildren(S)' => ClosedUnderChildren(S)
    BY <2>1, NodesFixed DEF ClosedUnderChildren
  <2> QED
    BY <2>1, <2>2 DEF Anchored
<1>3. CASE nodes' = nodes /\ rootsFound' = rootsFound
  <2>1. \A S : ClosedUnderChildren(S)' => ClosedUnderChildren(S)
    BY <1>3, NodesFixed DEF ClosedUnderChildren
  <2> QED
    BY <1>3, <2>1 DEF Anchored
<1> QED
  BY <1>1, <1>2, <1>3, NodesOrRootsFixed

LEMMA VisitedIsAncestry ==
  ASSUME TypeOK, BranchInv, WalkInv, pc \in Walking, stack = <<>>
  PROVE  /\ hasVisited = Ancestry[WalkHead]
         /\ WalkHead \in hasVisited
<1>1. /\ WalkHead \in hasVisited
      /\ hasVisited \subseteq Ancestry[WalkHead]
      /\ hasVisited \in SUBSET Commit
      /\ ClosedUnderParents(hasVisited)
  BY DEF WalkInv, TypeOK, ClosedUnderParents
<1>2. WalkHead \in Commit
  BY <1>1
<1>3. Ancestry[WalkHead] \subseteq hasVisited
  BY <1>1, <1>2, AncestryFacts
<1> QED
  BY <1>1, <1>3

LEMMA LinkedStep ==
  ASSUME IndInv, [Next]_vars, pc' = "walk",
         NEW S \in SUBSET Commit, ClosedUnderChildren(S)',
         NEW i \in DOMAIN stack', NEW j \in DOMAIN stack',
         i < j, stack'[j] \in S
  PROVE  stack'[i] \in S
<1> USE DEF IndInv
<1>0. DOMAIN stack = 1..Len(stack) /\ Len(stack) \in Nat
  BY LenProperties DEF TypeOK
<1>1. CASE StartWalk
  <2>1. DOMAIN stack' = {1}
    BY <1>1 DEF StartWalk
  <2> QED
    BY <2>1
<1>2. CASE Descend
  <2>1. PICK c \in Commit, p \in Commit :
          /\ c = TopOf(stack)
          /\ nodes' = WithEdge(c, p)
          /\ stack' = Append(stack, p)
    BY <1>2, DescendFacts
  <2>2. /\ pc = "walk" /\ stack # <<>>
    BY <1>2 DEF Descend
  <2>3. /\ stack' \in Seq(Commit)
        /\ Len(stack') = Len(stack) + 1
        /\ \A n \in 1..Len(stack) : stack'[n] = stack[n]
        /\ stack'[Len(stack) + 1] = p
    BY <2>1, PushFacts DEF TypeOK
  <2>4. DOMAIN stack' = 1..(Len(stack) + 1)
    BY <2>3, LenProperties
  <2>5. ClosedUnderChildren(S)
    BY <1>2, ChildrenGrow
  <2>6. \A m, n \in DOMAIN stack : m < n /\ stack[n] \in S => stack[m] \in S
    BY <2>2, <2>5 DEF AnchorInv
  <2>7. CASE j = Len(stack) + 1
    <3>1. p \in S
      BY <2>3, <2>7
    <3>2. c \in NodeOf(p)'.children
      BY <2>1, WithEdgeNodes
    <3>3. c \in S
      BY <3>1, <3>2 DEF ClosedUnderChildren
    <3>4. c = stack[Len(stack)] /\ Len(stack) \in DOMAIN stack
      BY <2>1, <2>2, StackMembers
    <3>5. i \in 1..Len(stack)
      BY <1>0, <2>4, <2>7
    <3> QED
      BY <1>0, <2>3, <2>6, <3>3, <3>4, <3>5
  <2>8. CASE j # Len(stack) + 1
    <3>1. i \in 1..Len(stack) /\ j \in 1..Len(stack)
      BY <1>0, <2>4, <2>8
    <3> QED
      BY <1>0, <2>3, <2>6, <3>1
  <2> QED
    BY <2>7, <2>8
<1>3. CASE Retreat
  <2>1. /\ pc = "walk" /\ stack # <<>>
        /\ stack' = PopOf(stack)
        /\ nodes' = nodes
    BY <1>3 DEF Retreat
  <2>2. /\ stack' \in Seq(Commit)
        /\ Len(stack') = Len(stack) - 1
        /\ \A n \in 1..(Len(stack) - 1) : stack'[n] = stack[n]
    BY <2>1, PopFacts DEF TypeOK
  <2>3. DOMAIN stack' = 1..(Len(stack) - 1)
    BY <2>2, LenProperties
  <2>4. ClosedUnderChildren(S)
    BY <2>1, NodesFixed DEF ClosedUnderChildren
  <2>5. \A m, n \in DOMAIN stack : m < n /\ stack[n] \in S => stack[m] \in S
    BY <2>1, <2>4 DEF AnchorInv
  <2> QED
    BY <1>0, <2>2, <2>3, <2>5
<1>4. CASE UNCHANGED vars
  <2>1. ClosedUnderChildren(S)
    BY <1>4, NodesFixed DEF ClosedUnderChildren, vars
  <2> QED
    BY <1>4, <2>1 DEF AnchorInv, vars
<1> QED
  BY <1>1, <1>2, <1>3, <1>4
     DEF Next, NoBranchError, UnknownHashError, Crash, EndWalk, StartOrdering,
         NoNodeError, Climb, Emit, StartPrinting, PrintCommit, Finish
LEMMA HeadAnchoredStep ==
  ASSUME IndInv, [Next]_vars, pc' \in Walking, hasVisited' # {}
  PROVE  WalkHead' \in Anchored'
<1> USE DEF IndInv
<1>0. heads' = heads /\ Anchored \subseteq Anchored'
  BY InputFixed, AnchoredGrows
<1>1. CASE StartWalk
  BY <1>1 DEF StartWalk, VisitedAtStart
<1>2. CASE pc \in Walking /\ hasVisited # {} /\ listOfHashes' = listOfHashes
  BY <1>0, <1>2 DEF AnchorInv, WalkHead
<1>3. CASE Retreat /\ hasVisited = {}
  <2> DEFINE c == TopOf(stack)
  <2>1. /\ pc = "walk" /\ stack # <<>>
        /\ c \in DOMAIN dictOfParentHashes
        /\ Parents(c) = {}
        /\ rootsFound' = rootsFound \cup
                           (IF dictOfParentHashes[c] = <<>> THEN {c} ELSE {})
        /\ nodes' = nodes
        /\ listOfHashes' = listOfHashes
    BY <1>3 DEF Retreat, AllParentsVisited
  <2>2. c \in rootsFound'
    BY <2>1, ParentListType
  <2>3. /\ c = stack[Len(stack)]
        /\ DOMAIN stack = 1..Len(stack)
        /\ Len(stack) \in Nat \ {0}
    BY <2>1, StackMembers
  <2>4. WalkHead = stack[1] /\ WalkHead \in Commit
    BY <2>1, WalkTop DEF WalkInv, Walking
  <2>5. ASSUME NEW S \in SUBSET Commit, rootsFound' \subseteq S, ClosedUnderChildren(S)'
        PROVE  WalkHead \in S
    <3>1. ClosedUnderChildren(S)
      BY <2>1, <2>5, NodesFixed DEF ClosedUnderChildren
    <3>2. \A i, j \in DOMAIN stack : i < j /\ stack[j] \in S => stack[i] \in S
      BY <2>1, <3>1 DEF AnchorInv
    <3>3. stack[Len(stack)] \in S
      BY <2>2, <2>3, <2>5
    <3> QED
      BY <2>3, <2>4, <3>2, <3>3
  <2>6. WalkHead' = WalkHead
    BY <1>0, <2>1 DEF WalkHead
  <2> QED
    BY <2>4, <2>5, <2>6 DEF Anchored
<1>4. StartWalk \/ (pc \in Walking /\ listOfHashes' = listOfHashes)
  BY DEF Next, vars, Walking, NoBranchError, UnknownHashError, Crash, Descend,
         Retreat, EndWalk, StartOrdering, NoNodeError, Climb, Emit,
         StartPrinting, PrintCommit, Finish
<1>5. hasVisited = {} => StartWalk \/ Retreat
  BY DEF Next, vars, Walking, NoBranchError, UnknownHashError, Crash, Descend,
         EndWalk, StartOrdering, NoNodeError, Climb, Emit,
         StartPrinting, PrintCommit, Finish
<1> QED
  BY <1>1, <1>2, <1>3, <1>4, <1>5

LEMMA BranchDoneStep ==
  ASSUME IndInv, [Next]_vars, pc' # "crash", NEW k \in DOMAIN heads', Walked(k)'
  PROVE  /\ heads'[k] \in Anchored'
         /\ Ancestry'[heads'[k]] \subseteq DOMAIN dictOfParentHashes'
         /\ Ancestry'[heads'[k]] \subseteq {heads'[k]} \cup DOMAIN nodes'
<1> USE DEF IndInv
<1>0. /\ heads' = heads
      /\ Ancestry' = Ancestry
      /\ dictOfParentHashes' = dictOfParentHashes
      /\ Anchored \subseteq Anchored'
      /\ DOMAIN nodes \subseteq DOMAIN nodes'
  BY InputFixed, AnchoredGrows
<1>1. CASE Walked(k) /\ pc # "crash"
  BY <1>0, <1>1 DEF AnchorInv
<1>2. CASE ~ Walked(k)
  <2>1. Len(listOfHashes) \in Nat /\ DOMAIN heads = 1..Len(heads) /\ Len(heads) \in Nat
    BY HeadAssumption, LenProperties DEF TypeOK
  <2>2. ~ StartWalk
    <3> SUFFICES ASSUME StartWalk PROVE FALSE
      OBVIOUS
    <3>1. Len(listOfHashes') = Len(listOfHashes) - 1
      BY PopFacts DEF StartWalk, TypeOK
    <3> QED
      BY <1>2, <2>1, <3>1 DEF StartWalk, Walked
  <2>3. EndWalk /\ k = Len(listOfHashes) + 1
    BY <1>2, <2>1, <2>2
       DEF Walked, Next, vars, NoBranchError, UnknownHashError, Crash, Descend,
           Retreat, EndWalk, StartOrdering, NoNodeError, Climb, Emit,
           StartPrinting, PrintCommit, Finish
  <2>4. pc \in Walking /\ stack = <<>> /\ heads[k] = WalkHead
    BY <2>3 DEF EndWalk, Walking, WalkHead
  <2>5. /\ hasVisited = Ancestry[WalkHead]
        /\ WalkHead \in hasVisited
    BY <2>4, VisitedIsAncestry
  <2>6. WalkHead \in Anchored
    BY <2>4, <2>5 DEF AnchorInv
  <2>7. /\ hasVisited \subseteq DOMAIN dictOfParentHashes
        /\ hasVisited \subseteq {WalkHead} \cup DOMAIN nodes
    BY <2>4 DEF WalkInv
  <2> QED
    BY <1>0, <2>4, <2>5, <2>6, <2>7
<1>3. pc # "crash"
  BY DEF Next, vars, StartWalk, NoBranchError, UnknownHashError, Crash, Descend,
         Retreat, EndWalk, StartOrdering, NoNodeError, Climb, Emit,
         StartPrinting, PrintCommit, Finish
<1> QED
  BY <1>1, <1>2, <1>3

LEMMA AnchorStep ==
  ASSUME IndInv, [Next]_vars
  PROVE  AnchorInv'
<1>1. pc' = "walk" =>
        \A S \in SUBSET Commit : ClosedUnderChildren(S)' =>
          \A i, j \in DOMAIN stack' : i < j /\ stack'[j] \in S => stack'[i] \in S
  BY LinkedStep
<1>2. pc' \in Walking /\ hasVisited' # {} => WalkHead' \in Anchored'
  BY HeadAnchoredStep
<1>3. pc' # "crash" => \A k \in DOMAIN heads' : Walked(k)' =>
         /\ heads'[k] \in Anchored'
         /\ Ancestry'[heads'[k]] \subseteq DOMAIN dictOfParentHashes'
         /\ Ancestry'[heads'[k]] \subseteq {heads'[k]} \cup DOMAIN nodes'
  BY BranchDoneStep
<1> QED
  BY <1>1, <1>2, <1>3 DEF AnchorInv, Walking
------------------------------------------------------------------------------
(* The second walk                                                          *)

LEMMA CommitsTop ==
  ASSUME TypeOK, commits # <<>>
  PROVE  /\ TopOf(commits) = commits[Len(commits)]
         /\ DOMAIN commits = 1..Len(commits)
         /\ Len(commits) \in Nat \ {0}
         /\ TopOf(commits) \in SeqRange(commits)
<1>1. Len(commits) \in Nat \ {0} /\ DOMAIN commits = 1..Len(commits)
  BY EmptySeq, LenProperties DEF TypeOK
<1> QED
  BY <1>1 DEF SeqRange, TopOf

(***************************************************************************)
(* A recorded child of the top of the stack is not on the stack: if it     *)
(* were, the commits from it to the top would be a cycle of the history.   *)
(***************************************************************************)
LEMMA NoCycleOnStack ==
  ASSUME IndInv, StackInv, commits # <<>>,
         NEW d \in NodeOf(TopOf(commits)).children
  PROVE  d \notin SeqRange(commits)
<1> USE DEF IndInv
<1> DEFINE n == Len(commits)
<1>1. /\ TopOf(commits) = commits[n]
      /\ DOMAIN commits = 1..n
      /\ n \in Nat \ {0}
  BY CommitsTop
<1>2. \A k \in 1..n : commits[k] \in Commit
  BY <1>1, ElementOfSeq DEF TypeOK
<1>3. d \in Commit
  BY NodeOfType DEF CommitNodes
<1>4. \A c, p \in Commit : p \in NodeOf(c).parents =>
        c \in DOMAIN dictOfParentHashes /\ p \in Parents(c)
  BY DEF GraphInv, EdgesMirrored
<1>5. d \in DOMAIN dictOfParentHashes /\ commits[n] \in Parents(d)
  BY <1>1, <1>2, <1>3, <1>4 DEF GraphInv, EdgesMirrored
<1> SUFFICES ASSUME NEW m \in 1..n, commits[m] = d
             PROVE  FALSE
  BY <1>1 DEF SeqRange
<1>6. \A c \in rootsFound : Parents(c) = {}
  BY ParentListType DEF GraphInv
<1>7. \A k \in m..n : commits[k] \notin rootsFound
  <2>1. commits[m] \notin rootsFound
    BY <1>5, <1>6
  <2> QED
    BY <1>1, <2>1 DEF StackInv
<1>8. \A k \in (m + 1)..n : /\ commits[k] \in DOMAIN dictOfParentHashes
                            /\ commits[k - 1] \in Parents(commits[k])
  <2> TAKE k \in (m + 1)..n
  <2>1. k \in 1..n /\ k - 1 \in 1..n /\ k \in m..n
    BY <1>1
  <2>2. commits[k - 1] \in NodeOf(commits[k]).parents
    BY <1>1, <1>7, <2>1 DEF StackInv, NodeOf
  <2> QED
    BY <1>2, <1>4, <2>1, <2>2
<1> DEFINE S == { commits[k] : k \in m..n }
<1>9. S \in SUBSET DOMAIN dictOfParentHashes /\ S # {}
  <2>1. \A k \in m..n : commits[k] \in DOMAIN dictOfParentHashes
    BY <1>1, <1>5, <1>8
  <2>2. m \in m..n
    BY <1>1
  <2> QED
    BY <2>1, <2>2
<1>10. ASSUME NEW k \in m..n
       PROVE  Parents(commits[k]) \cap S # {}
  <2>1. CASE k = m
    <3>1. n \in m..n
      BY <1>1
    <3> QED
      BY <1>5, <2>1, <3>1
  <2>2. CASE k # m
    <3>1. k \in (m + 1)..n /\ k - 1 \in m..n
      BY <1>1, <2>2
    <3> QED
      BY <1>8, <3>1
  <2> QED
    BY <2>1, <2>2
<1>11. Acyclic(dictOfParentHashes)
  BY HistoryAssumption DEF TypeOK
<1>12. \A c \in S : Parents(c) \cap S # {}
  BY <1>10
<1> HIDE DEF S
<1> QED
  BY <1>9, <1>11, <1>12 DEF Acyclic, Parents
LEMMA OrderStart ==
  ASSUME IndInv, StartOrdering
  PROVE  OrderInv'
<1> USE DEF IndInv
<1>1. /\ pc' = "order"
      /\ IsSortedListOf(commits', rootsFound)
      /\ hasVisited' = {}
      /\ rootsFound' = rootsFound
      /\ nodes' = nodes
      /\ orderedCommits' = <<>>
  BY DEF StartOrdering, GraphInv, Walking
<1>2. \A i, j \in DOMAIN commits' : i < j => commits'[i] < commits'[j]
  BY <1>1 DEF IsSortedListOf
<1>3. SeqRange(commits') = rootsFound
  BY <1>1 DEF IsSortedListOf
<1>4. \A i \in DOMAIN commits' : commits'[i] \in rootsFound /\ commits'[i] \in Nat
  BY <1>3, CommitAssumption DEF SeqRange, TypeOK
<1>5. DOMAIN commits' \subseteq Nat
  <2>1. Cardinality(rootsFound) \in Nat
    BY CommitAssumption, FS_Subset, FS_CardinalityType DEF TypeOK
  <2>2. DOMAIN commits' = 1..Cardinality(rootsFound)
    BY DEF StartOrdering
  <2> QED
    BY <2>1, <2>2
<1>6. \A i, j \in DOMAIN commits' : i # j => commits'[i] # commits'[j]
  BY <1>2, <1>4, <1>5
<1>7. StackInv'
  BY <1>1, <1>4, <1>6 DEF StackInv
<1>8. rootsFound \subseteq Anchored'
  BY <1>1 DEF Anchored, TypeOK
<1>9. Emitted' = {}
  BY <1>1 DEF Emitted, SeqRange
<1> QED
  BY <1>1, <1>3, <1>7, <1>8, <1>9 DEF OrderInv, ClosedUnderChildren

LEMMA OrderClimb ==
  ASSUME IndInv, Climb
  PROVE  OrderInv'
<1> USE DEF IndInv
<1> DEFINE n == Len(commits)
           c == TopOf(commits)
<1>1. PICK d \in nodes[c].children : d \notin hasVisited /\ commits' = Append(commits, d)
  BY DEF Climb, Unemitted
<1>2. /\ pc = "order" /\ pc' = pc
      /\ commits # <<>>
      /\ c \in DOMAIN nodes
      /\ UNCHANGED <<hasVisited, nodes, rootsFound, orderedCommits>>
  BY DEF Climb
<1>3. /\ c = commits[n]
      /\ DOMAIN commits = 1..n
      /\ n \in Nat \ {0}
      /\ c \in SeqRange(commits)
      /\ c \in Commit
  BY <1>2, CommitsTop, ElementOfSeq DEF TypeOK
<1>4. d \in NodeOf(c).children
  BY <1>1, <1>2 DEF NodeOf
<1>5. d \in Commit
  BY <1>4, NodeOfType DEF CommitNodes
<1>6. d \notin SeqRange(commits) /\ StackInv
  BY <1>2, <1>4, NoCycleOnStack DEF OrderInv, Ordering
<1>7. /\ DOMAIN commits' = 1..(n + 1)
      /\ \A k \in 1..n : commits'[k] = commits[k]
      /\ commits'[n + 1] = d
      /\ SeqRange(commits') = SeqRange(commits) \cup {d}
  <2>1. commits' \in Seq(Commit) /\ Len(commits') = n + 1
    BY <1>1, <1>5, PushFacts DEF TypeOK
  <2> QED
    BY <1>1, <1>5, <2>1, PushFacts, LenProperties DEF TypeOK
<1>8. d \in DOMAIN nodes /\ c \in nodes[d].parents /\ d \notin rootsFound
  <2>1. c \in NodeOf(d).parents
    BY <1>3, <1>4, <1>5 DEF GraphInv, EdgesMirrored
  <2>2. d \in DOMAIN dictOfParentHashes /\ c \in Parents(d)
    BY <1>3, <1>5, <2>1 DEF GraphInv, EdgesMirrored
  <2>3. d \in DOMAIN nodes /\ c \in nodes[d].parents
    BY <2>1 DEF NodeOf, NewNode
  <2> QED
    BY <2>2, <2>3, ParentListType DEF GraphInv
<1>9. \A h : NodeOf(h)' = NodeOf(h)
  BY <1>2, NodesFixed
<1>10. \A k \in 1..n : commits[k] # d
  BY <1>3, <1>6 DEF SeqRange
<1> HIDE DEF n, c
<1>11. StackInv'
  <2>1. \A i, j \in 1..(n + 1) : i # j => commits'[i] # commits'[j]
    <3> TAKE i, j \in 1..(n + 1)
    <3>1. CASE i \in 1..n /\ j \in 1..n
      BY <1>3, <1>6, <1>7, <3>1 DEF StackInv
    <3>2. CASE i = n + 1 \/ j = n + 1
      BY <1>3, <1>7, <1>10, <3>2
    <3> QED
      BY <1>3, <3>1, <3>2
  <2>2. \A i, j \in 1..(n + 1) :
          i < j /\ commits'[j] \in rootsFound' => commits'[i] \in rootsFound'
    <3> TAKE i, j \in 1..(n + 1)
    <3>1. CASE j = n + 1
      BY <1>7, <1>8, <1>2, <3>1
    <3>2. CASE j # n + 1
      BY <1>2, <1>3, <1>6, <1>7, <3>2 DEF StackInv
    <3> QED
      BY <3>1, <3>2
  <2>3. \A k \in 1..(n + 1) :
          \/ commits'[k] \in rootsFound'
          \/ /\ k > 1
             /\ commits'[k] \in DOMAIN nodes'
             /\ commits'[k - 1] \in nodes'[commits'[k]].parents
    <3> TAKE k \in 1..(n + 1)
    <3>1. CASE k = n + 1
      BY <1>2, <1>3, <1>7, <1>8, <3>1
    <3>2. CASE k # n + 1
      BY <1>2, <1>3, <1>6, <1>7, <3>2 DEF StackInv
    <3> QED
      BY <3>1, <3>2
  <2> QED
    BY <1>7, <2>1, <2>2, <2>3 DEF StackInv
<1>12. ClosedUnderChildren(Emitted)' /\ Emitted' = Emitted /\ Anchored \subseteq Anchored'
  <2>1. Emitted' = Emitted
    BY <1>2 DEF Emitted
  <2>2. Anchored' = Anchored
    BY <1>2, <1>9 DEF Anchored, ClosedUnderChildren
  <2>3. ClosedUnderChildren(Emitted)'
    BY <1>2, <1>9, <2>1 DEF OrderInv, Ordering, ClosedUnderChildren
  <2> QED
    BY <2>1, <2>2, <2>3
<1>13. d \in Anchored'
  <2>1. c \in Anchored
    BY <1>2, <1>3 DEF OrderInv, Ordering
  <2> QED
    BY <1>4, <1>5, <1>12, <2>1 DEF Anchored, ClosedUnderChildren
<1> QED
  BY <1>1, <1>2, <1>6, <1>7, <1>11, <1>12, <1>13 DEF OrderInv, Ordering

LEMMA OrderEmit ==
  ASSUME IndInv, Emit
  PROVE  OrderInv'
<1> USE DEF IndInv
<1> DEFINE n == Len(commits)
           c == TopOf(commits)
<1>1. /\ pc = "order" /\ pc' = pc
      /\ commits # <<>>
      /\ c \in DOMAIN nodes
      /\ nodes[c].children \subseteq hasVisited
      /\ orderedCommits' = Append(orderedCommits, c)
      /\ commits' = PopOf(commits)
      /\ hasVisited' = hasVisited \cup {c}
      /\ UNCHANGED <<nodes, rootsFound>>
  BY DEF Emit, Unemitted, Marked
<1>2. /\ c = commits[n]
      /\ DOMAIN commits = 1..n
      /\ n \in Nat \ {0}
      /\ c \in SeqRange(commits)
      /\ c \in Commit
  BY <1>1, CommitsTop, ElementOfSeq DEF TypeOK
<1>3. /\ DOMAIN commits' = 1..(n - 1)
      /\ \A k \in 1..(n - 1) : commits'[k] = commits[k]
      /\ SeqRange(commits) = SeqRange(commits') \cup {c}
  <2>1. commits' \in Seq(Commit) /\ Len(commits') = n - 1
    BY <1>1, PopFacts DEF TypeOK
  <2> QED
    BY <1>1, <2>1, PopFacts, LenProperties DEF TypeOK
<1>4. Emitted' = Emitted \cup {c}
  BY <1>1, <1>2, PushFacts DEF Emitted, TypeOK
<1>5. \A h : NodeOf(h)' = NodeOf(h)
  BY <1>1, NodesFixed
<1>6. NodeOf(c).children \subseteq hasVisited
  BY <1>1 DEF NodeOf
<1> HIDE DEF n, c
<1>7. /\ StackInv
      /\ hasVisited = Emitted
      /\ SeqRange(commits) \cap Emitted = {}
      /\ rootsFound \subseteq Emitted \cup SeqRange(commits)
      /\ Emitted \cup SeqRange(commits) \subseteq Anchored
      /\ ClosedUnderChildren(Emitted)
  BY <1>1 DEF OrderInv, Ordering
<1>8. StackInv'
  <2>1. \A k \in 1..(n - 1) : k \in 1..n /\ (k > 1 => k - 1 \in 1..(n - 1))
    BY <1>2
  <2> QED
    BY <1>1, <1>2, <1>3, <1>5, <1>7, <2>1 DEF StackInv
<1>9. c \notin SeqRange(commits')
  BY <1>2, <1>3, <1>7 DEF StackInv, SeqRange
<1>10. ClosedUnderChildren(Emitted)'
  BY <1>4, <1>5, <1>6, <1>7 DEF ClosedUnderChildren
<1>11. Anchored' = Anchored
  BY <1>1, <1>5 DEF Anchored, ClosedUnderChildren
<1> QED
  BY <1>1, <1>3, <1>4, <1>7, <1>8, <1>9, <1>10, <1>11 DEF OrderInv, Ordering

LEMMA OrderStep ==
  ASSUME IndInv, [Next]_vars
  PROVE  OrderInv'
<1> USE DEF IndInv
<1>1. CASE StartOrdering
  BY <1>1, OrderStart
<1>2. CASE Climb
  BY <1>2, OrderClimb
<1>3. CASE Emit
  BY <1>3, OrderEmit
<1>4. CASE /\ pc \in Ordering
           /\ pc' # "order" => pc # "order" \/ commits = <<>>
           /\ UNCHANGED <<hasVisited, nodes, rootsFound, commits, orderedCommits>>
  <2>1. \A h : NodeOf(h)' = NodeOf(h)
    BY <1>4, NodesFixed
  <2>2. Anchored' = Anchored /\ Emitted' = Emitted
    BY <1>4, <2>1 DEF Anchored, ClosedUnderChildren, Emitted
  <2>3. StackInv' = StackInv
    BY <1>4, <2>1 DEF StackInv
  <2>4. ClosedUnderChildren(Emitted)' = ClosedUnderChildren(Emitted)
    BY <2>1, <2>2 DEF ClosedUnderChildren
  <2> QED
    BY <1>4, <2>2, <2>3, <2>4 DEF OrderInv
<1>5. CASE pc' \notin Ordering
  BY <1>5 DEF OrderInv
<1> QED
  BY <1>1, <1>2, <1>3, <1>4, <1>5
     DEF Ordering, Next, vars, StartWalk, NoBranchError, UnknownHashError, Crash,
         Descend, Retreat, EndWalk, NoNodeError, StartPrinting, PrintCommit, Finish
------------------------------------------------------------------------------
(* The inductive invariant                                                  *)

LEMMA InitInd == Init => IndInv
<1> SUFFICES ASSUME Init PROVE IndInv
  OBVIOUS
<1>1. TypeOK /\ Emitted \subseteq DOMAIN nodes
  BY InitType DEF IndTypeOK
<1>2. /\ pc = "init" /\ listOfHashes = heads /\ rootsFound = {}
      /\ DOMAIN nodes = {} /\ commits = <<>> /\ orderedCommits = <<>>
  BY DEF Init
<1>3. \A h : NodeOf(h).parents = {} /\ NodeOf(h).children = {}
  BY <1>2 DEF NodeOf, NewNode
<1>4. GraphInv
  BY <1>2, <1>3 DEF GraphInv, EdgesMirrored
<1>5. BranchInv /\ WalkInv /\ OrderInv
  <2>1. heads \in Seq(Commit)
    BY HeadAssumption DEF Init
  <2> QED
    BY <1>2, <2>1, LenProperties DEF BranchInv, WalkInv, OrderInv, Walking, Ordering
<1>6. AnchorInv
  <2>1. DOMAIN heads = 1..Len(heads) /\ Len(heads) \in Nat
    BY HeadAssumption, LenProperties DEF Init
  <2> QED
    BY <1>2, <2>1 DEF AnchorInv, Walking, Walked
<1> QED
  BY <1>1, <1>4, <1>5, <1>6 DEF IndInv

LEMMA NextInd == IndInv /\ [Next]_vars => IndInv'
<1> SUFFICES ASSUME IndInv, [Next]_vars PROVE IndInv'
  OBVIOUS
<1>1. TypeOK' /\ (Emitted \subseteq DOMAIN nodes)'
  BY NextType DEF IndInv, IndTypeOK
<1> QED
  BY <1>1, GraphStep, BranchStep, WalkStep, AnchorStep, OrderStep DEF IndInv

(***************************************************************************)
(* Every state of the script from the first walk to the end satisfies the  *)
(* inductive invariant.                                                    *)
(***************************************************************************)
THEOREM Inductive == Spec => []IndInv
  BY InitInd, NextInd, PTL DEF Spec

(***************************************************************************)
(* Over all the walks the recorded graph is its own mirror image and part  *)
(* of history (lines 71-78).                                               *)
(***************************************************************************)
THEOREM EdgesAlwaysMirrored == Spec => []EdgesMirrored
<1>1. IndInv => EdgesMirrored
  BY DEF IndInv, GraphInv
<1> QED
  BY Inductive, <1>1, PTL

(***************************************************************************)
(* A finished walk has visited the head and exactly its ancestors, for     *)
(* every history (lines 59-85).                                            *)
(***************************************************************************)
THEOREM WalksVisitAncestry == Spec => []WalkVisitsAncestry
<1>1. IndInv => WalkVisitsAncestry
  <2> SUFFICES ASSUME IndInv, pc = "branches"
               PROVE  hasVisited = Ancestry[WalkHead]
    BY DEF WalkVisitsAncestry, WalkHead
  <2>1. pc \in Walking /\ stack = <<>>
    BY DEF IndInv, WalkInv, Walking
  <2> QED
    BY <2>1, VisitedIsAncestry DEF IndInv
<1> QED
  BY Inductive, <1>1, PTL

(***************************************************************************)
(* What the second walk emits is exactly what the recorded graph links to  *)
(* the roots (lines 91-105).                                               *)
(***************************************************************************)
LEMMA EmittedAtEnd == IndInv => EmittedIsAnchored
<1> SUFFICES ASSUME IndInv, pc \in {"print", "done"} PROVE Emitted = Anchored
  BY DEF EmittedIsAnchored
<1>1. /\ commits = <<>>
      /\ Emitted \subseteq Anchored
      /\ rootsFound \subseteq Emitted \cup SeqRange(commits)
      /\ ClosedUnderChildren(Emitted)
  BY DEF IndInv, OrderInv, Ordering
<1>2. rootsFound \subseteq Emitted
  BY <1>1 DEF SeqRange
<1>3. Emitted \in SUBSET Commit
  BY DEF IndInv, TypeOK, Anchored, OrderInv, Ordering
<1> QED
  BY <1>1, <1>2, <1>3 DEF Anchored

(***************************************************************************)
(* What is emitted is exactly what the recorded graph links to the roots.  *)
(***************************************************************************)
THEOREM EmitsTheAnchored == Spec => []EmittedIsAnchored
  BY Inductive, EmittedAtEnd, PTL

(* When the second walk is over, the heads are out.                         *)
LEMMA HeadsAtEnd == IndInv => HeadsEmitted
<1> SUFFICES ASSUME IndInv, pc \in {"print", "done"} PROVE Heads \subseteq Emitted
  BY DEF HeadsEmitted
<1>1. Emitted = Anchored
  BY EmittedAtEnd DEF EmittedIsAnchored
<1>2. listOfHashes = <<>> /\ Len(listOfHashes) = 0
  BY EmptySeq DEF IndInv, BranchInv, Ordering
<1>3. DOMAIN heads = 1..Len(heads) /\ Len(heads) \in Nat
  BY HeadAssumption, LenProperties DEF IndInv, TypeOK
<1>4. \A k \in DOMAIN heads : heads[k] \in Anchored
  BY <1>2, <1>3 DEF IndInv, AnchorInv, Walked
<1> QED
  BY <1>1, <1>4 DEF Heads, SeqRange

(***************************************************************************)
(* Every branch head is emitted, whatever edges the walks dropped.         *)
(***************************************************************************)
THEOREM EmitsTheHeads == Spec => []HeadsEmitted
  BY Inductive, HeadsAtEnd, PTL

------------------------------------------------------------------------------
(* When the script dies of an exception                                     *)

LEMMA CrashIsDoomed ==
  ASSUME IndInv, Next, pc' = "crash"
  PROVE  Doomed
<1> USE DEF IndInv
<1>1. CASE NoBranchError
  BY <1>1 DEF NoBranchError, BranchInv, Doomed
<1>2. CASE UnknownHashError
  BY <1>2, WalkTop DEF UnknownHashError, Doomed
<1>3. CASE NoNodeError
  <2> DEFINE c == TopOf(commits)
  <2>1. pc = "order" /\ commits # <<>> /\ c \notin DOMAIN nodes
    BY <1>3 DEF NoNodeError
  <2>2. c = commits[Len(commits)] /\ Len(commits) \in DOMAIN commits
    BY <2>1, CommitsTop
  <2>3. c \in rootsFound
    BY <2>1, <2>2 DEF OrderInv, Ordering, StackInv
  <2>4. c \in Heads /\ Parents(c) = {}
    BY <2>1, <2>3, ParentListType DEF GraphInv
  <2>5. \A k \in DOMAIN heads : Ancestry[heads[k]] \subseteq {heads[k]} \cup DOMAIN nodes
    <3>1. listOfHashes = <<>> /\ Len(listOfHashes) = 0
      BY <2>1, EmptySeq DEF BranchInv, Ordering
    <3>2. DOMAIN heads = 1..Len(heads) /\ Len(heads) \in Nat
      BY HeadAssumption, LenProperties DEF TypeOK
    <3> QED
      BY <2>1, <3>1, <3>2 DEF AnchorInv, Walked
  <2>6. \A g \in Heads \ {c} : c \notin Ancestry[g]
    <3> HIDE DEF c
    <3> QED
      BY <2>1, <2>5 DEF Heads, SeqRange, c
  <2> QED
    BY <2>4, <2>6 DEF Doomed
<1> QED
  BY <1>1, <1>2, <1>3
     DEF Next, StartWalk, Descend, Retreat, EndWalk, StartOrdering, Climb, Emit,
         StartPrinting, PrintCommit, Finish

LEMMA DoneIsNotDoomed ==
  ASSUME IndInv, pc = "done"
  PROVE  ~ Doomed
<1> USE DEF IndInv
<1>1. heads # <<>> /\ listOfHashes = <<>> /\ Len(listOfHashes) = 0
  BY EmptySeq DEF BranchInv, Ordering
<1>2. DOMAIN heads = 1..Len(heads) /\ Len(heads) \in Nat
  BY HeadAssumption, LenProperties DEF TypeOK
<1>3. \A k \in DOMAIN heads : /\ Ancestry[heads[k]] \subseteq DOMAIN dictOfParentHashes
                              /\ heads[k] \in Anchored
  BY <1>1, <1>2 DEF AnchorInv, Walked
<1>4. Reached \subseteq DOMAIN dictOfParentHashes
  BY <1>3 DEF Reached, Heads, SeqRange
<1>5. Heads \subseteq DOMAIN nodes
  <2>1. Emitted = Anchored
    BY EmittedAtEnd DEF EmittedIsAnchored
  <2> QED
    BY <1>3, <2>1 DEF Heads, SeqRange
<1> SUFFICES ASSUME NEW h \in Heads, Parents(h) = {},
                    \A g \in Heads \ {h} : h \notin Ancestry[g]
             PROVE  FALSE
  BY <1>1, <1>4 DEF Doomed
<1>6. \A g \in Heads : g \in Commit
  BY AncestryOfHead DEF Heads, SeqRange
<1>7. nodes[h].parents = {} /\ nodes[h] = NodeOf(h)
  <2>1. nodes[h] = NodeOf(h)
    BY <1>5 DEF NodeOf
  <2>2. NodeOf(h).parents \subseteq Parents(h)
    BY <1>6, NodeOfType DEF GraphInv, EdgesMirrored, CommitNodes
  <2> QED
    BY <2>1, <2>2
<1>8. PICK d \in NodeOf(h).children : d \in Commit
  BY <1>5, <1>7, NodeOfType DEF GraphInv, CommitNodes
<1>9. h \in NodeOf(d).parents
  BY <1>6, <1>8 DEF GraphInv, EdgesMirrored
<1>10. d \in Reached /\ d \in DOMAIN dictOfParentHashes /\ h \in Parents(d)
  BY <1>6, <1>8, <1>9 DEF GraphInv, EdgesMirrored
<1>11. PICK g \in Heads : d \in Ancestry[g]
  BY <1>10 DEF Reached
<1>12. h \in Ancestry[g]
  BY <1>6, <1>10, <1>11, AncestryFacts
<1>13. d \in Ancestry[h]
  BY <1>11, <1>12
<1>14. Ancestry[h] \subseteq {h}
  <2>1. ClosedUnderParents({h})
    BY DEF ClosedUnderParents
  <2> QED
    BY <1>6, <2>1, AncestryFacts
<1> QED
  BY <1>10, <1>13, <1>14

(* The input stays doomed, or not.                                          *)
HadToDie == pc = "crash" => Doomed

LEMMA HadToDieStep == IndInv /\ HadToDie /\ [Next]_vars => HadToDie'
<1> SUFFICES ASSUME IndInv, HadToDie, [Next]_vars, pc' = "crash" PROVE Doomed'
  BY DEF HadToDie
<1>1. Doomed
  BY CrashIsDoomed DEF vars, HadToDie
<1>2. Doomed' = Doomed
  BY InputFixed DEF Doomed, Parents
<1> QED
  BY <1>1, <1>2

(* At any moment that is all there is to it.                                *)
LEMMA CrashesIfDoomed == IndInv /\ HadToDie => CrashesExactlyIfDoomed
  BY DoneIsNotDoomed DEF CrashesExactlyIfDoomed, HadToDie

(***************************************************************************)
(* An exception ends the script exactly on the inputs Doomed describes: no *)
(* branch (line 89), a missing hash (line 62) or a lone root (line 93).    *)
(***************************************************************************)
THEOREM CrashesExactly == Spec => []CrashesExactlyIfDoomed
<1>1. Init => HadToDie
  BY DEF Init, HadToDie
<1> QED
  BY Inductive, HadToDieStep, CrashesIfDoomed, <1>1, PTL DEF Spec

------------------------------------------------------------------------------
(* The refinement                                                           *)

LEMMA SortStep ==
  ASSUME IndInv, [Next]_vars
  PROVE  [Sort!Next]_<<[c \in Commit |-> NodeOf(c).children], orderedCommits>>
<1> USE DEF IndInv
<1> DEFINE children == [c \in Commit |-> NodeOf(c).children]
<1>1. CASE Descend
  <2>1. PICK c \in Commit, p \in Commit : nodes' = WithEdge(c, p)
    BY <1>1, DescendFacts
  <2>2. children' = [children EXCEPT ![p] = @ \cup {c}]
    <3>1. \A h, q : q \in NodeOf(h)'.children <=>
                      q \in NodeOf(h).children \/ (h = p /\ q = c)
      BY <2>1, WithEdgeNodes
    <3>2. \A h : NodeOf(h)'.children =
                  IF h = p THEN NodeOf(h).children \cup {c} ELSE NodeOf(h).children
      <4> TAKE h
      <4>1. CASE h = p
        <5>1. NodeOf(h)'.children = NodeOf(h).children \cup {c}
          BY <3>1, <4>1
        <5> QED
          BY <4>1, <5>1
      <4>2. CASE h # p
        <5>1. \A q : q \in NodeOf(h)'.children <=> q \in NodeOf(h).children
          BY <3>1, <4>2
        <5>2. NodeOf(h)'.children = NodeOf(h).children
          BY <5>1, Zenon
        <5> QED
          BY <4>2, <5>2
      <4> QED
        BY <4>1, <4>2
    <3> QED
      BY <3>2
  <2>3. orderedCommits = <<>> /\ orderedCommits' = orderedCommits
    BY <1>1 DEF Descend, GraphInv, Walking
  <2>4. Sort!Record(c, p)
    BY <2>2, <2>3 DEF Sort!Record
  <2> QED
    BY <2>4 DEF Sort!Next
<1>2. CASE Emit
  <2> DEFINE c == TopOf(commits)
  <2>1. /\ pc = "order" /\ commits # <<>>
        /\ c \in DOMAIN nodes
        /\ nodes[c].children \subseteq hasVisited
        /\ orderedCommits' = Append(orderedCommits, c)
        /\ nodes' = nodes
    BY <1>2 DEF Emit, Unemitted
  <2>2. c \in SeqRange(commits) /\ c \in Commit
    BY <2>1, CommitsTop DEF TypeOK
  <2>3. hasVisited = Emitted /\ c \notin Emitted /\ Emitted = Sort!Out
    BY <2>1, <2>2 DEF OrderInv, Ordering, Emitted, SeqRange, Sort!Out
  <2>4. children[c] \subseteq Sort!Out
    BY <2>1, <2>2, <2>3 DEF NodeOf
  <2>5. children' = children
    BY <2>1, NodesFixed
  <2>6. Sort!EmitCommit(c)
    BY <2>1, <2>3, <2>4, <2>5 DEF Sort!EmitCommit
  <2> QED
    BY <2>2, <2>6 DEF Sort!Next
<1>3. CASE nodes' = nodes /\ orderedCommits' = orderedCommits
  BY <1>3, NodesFixed
<1> QED
  BY <1>1, <1>2, <1>3
     DEF Next, vars, StartWalk, NoBranchError, UnknownHashError, Crash, Retreat,
         EndWalk, StartOrdering, NoNodeError, Climb, StartPrinting, PrintCommit,
         Finish

(***************************************************************************)
(* The script implements TopoSort: it fixes the recorded graph before the  *)
(* first commit is out, emits no commit twice, and none before a recorded  *)
(* child.                                                                  *)
(***************************************************************************)
THEOREM ImplementsTopoSort == Spec => RefinesTopoSort
<1>1. Init => Sort!Init
  BY DEF Init, Sort!Init, NodeOf, NewNode
<1>2. IndInv /\ [Next]_vars =>
        [Sort!Next]_<<[c \in Commit |-> NodeOf(c).children], orderedCommits>>
  BY SortStep
<1> QED
  BY Inductive, <1>1, <1>2, PTL DEF Spec, RefinesTopoSort, Sort!Spec

------------------------------------------------------------------------------
(* The printing: lines are put out one after the other.                     *)

(* What a line and the one below it must be, as StickyLinesPaired has it.   *)
Fits(above, below) ==
  /\ above.kind = "end" <=> below.kind = "start"
  /\ above.kind = "commit" /\ below.kind = "commit" =>
       below.commit \in Parents(above.commit)
  /\ above.kind # "end" /\ ~ (above.kind = "commit" /\ below.kind = "commit") =>
       above.commit = below.commit

AllFit(s)       == \A i \in 1..(Len(s) - 1) : Fits(s[i], s[i + 1])
CommitPlaces(s) == { i \in DOMAIN s : s[i].kind = "commit" }

(* There is a break below the i-th commit.                                  *)
Broken(i) == /\ i < Len(orderedCommits)
             /\ orderedCommits[i + 1] \notin nodes[orderedCommits[i]].parents

(* Lines fit so far, and the last one tells whether a break has begun.      *)
StickyAfter(n) ==
  /\ pc \notin {"print", "done"} => output = <<>>
  /\ AllFit(output)
  /\ n = 0 => output = <<>>
  /\ n > 0 => /\ n <= Len(orderedCommits)
              /\ output # <<>>
              /\ output[Len(output)].commit = orderedCommits[n]
              /\ output[Len(output)].kind = IF Broken(n) THEN "end" ELSE "commit"

StickyInv == StickyAfter(Cardinality(Printed))

(* One more line.                                                           *)
LEMMA OneMoreLine ==
  ASSUME NEW s \in Seq(Lines), NEW l \in Lines, AllFit(s),
         s # <<>> => Fits(s[Len(s)], l)
  PROVE  /\ s \o <<l>> \in Seq(Lines)
         /\ AllFit(s \o <<l>>)
         /\ s \o <<l>> # <<>>
         /\ (s \o <<l>>)[Len(s \o <<l>>)] = l
         /\ l.kind = "commit" =>
              Cardinality(CommitPlaces(s \o <<l>>)) = Cardinality(CommitPlaces(s)) + 1
         /\ l.kind # "commit" =>
              Cardinality(CommitPlaces(s \o <<l>>)) = Cardinality(CommitPlaces(s))
<1> DEFINE t == s \o <<l>>
<1>1. t = Append(s, l)
  BY AppendIsConcat
<1>2. /\ t \in Seq(Lines) /\ Len(s) \in Nat /\ Len(t) = Len(s) + 1
      /\ \A i \in 1..Len(s) : t[i] = s[i]
      /\ t[Len(s) + 1] = l
  BY <1>1, PushFacts
<1> HIDE DEF t
<1>3. t # <<>> /\ t[Len(t)] = l
  BY <1>2, EmptySeq
<1>4. AllFit(t)
  <2>1. ASSUME NEW i \in 1..(Len(t) - 1)  PROVE Fits(t[i], t[i + 1])
    <3>1. CASE i = Len(s)
      <4>1. s # <<>>
        BY <2>1, <3>1, <1>2, EmptySeq
      <4> QED
        BY <2>1, <3>1, <4>1, <1>2
    <3>2. CASE i # Len(s)
      <4>1. i \in 1..(Len(s) - 1) /\ i \in 1..Len(s) /\ i + 1 \in 1..Len(s)
        BY <2>1, <3>2, <1>2
      <4> QED
        BY <4>1, <1>2 DEF AllFit
    <3> QED
      BY <3>1, <3>2
  <2> QED
    BY <2>1 DEF AllFit
<1>5. DOMAIN t = DOMAIN s \cup {Len(s) + 1} /\ DOMAIN s = 1..Len(s)
  <2>1. DOMAIN t = 1..Len(t) /\ DOMAIN s = 1..Len(s)
    BY <1>2, LenProperties
  <2> QED
    BY <1>2, <2>1
<1>6. IsFiniteSet(CommitPlaces(s)) /\ Len(s) + 1 \notin CommitPlaces(s)
      /\ Cardinality(CommitPlaces(s)) \in Nat
  <2>1. CommitPlaces(s) \subseteq 1..Len(s)
    BY <1>5 DEF CommitPlaces
  <2>2. IsFiniteSet(1..Len(s))
    BY <1>2, FS_Interval
  <2> QED
    BY <1>2, <2>1, <2>2, FS_Subset, FS_CardinalityType
<1>7. ASSUME l.kind = "commit"
      PROVE  Cardinality(CommitPlaces(t)) = Cardinality(CommitPlaces(s)) + 1
  <2>1. CommitPlaces(t) = CommitPlaces(s) \cup {Len(s) + 1}
    BY <1>2, <1>5, <1>7 DEF CommitPlaces
  <2> QED
    BY <1>6, <2>1, FS_AddElement
<1>8. ASSUME l.kind # "commit"  PROVE CommitPlaces(t) = CommitPlaces(s)
  BY <1>2, <1>5, <1>8 DEF CommitPlaces
<1> QED
  BY <1>2, <1>3, <1>4, <1>7, <1>8 DEF t

(* The lines of one commit.                                                 *)
LEMMA StickyPrint ==
  ASSUME IndInv, StickyInv, PrintCommit
  PROVE  StickyInv'
<1>0. PICK n, k, c : n = Cardinality(Printed) /\ k = n + 1 /\ c = orderedCommits[k]
  OBVIOUS
<1> DEFINE S == Line("start", c, nodes[c].children)
           C == Line("commit", c, BranchesAt(c))
           E == Line("end", c, nodes[c].parents)
           starts == k > 1 /\ orderedCommits[k - 1] \notin nodes[c].children
           s0 == output
           s1 == IF starts THEN s0 \o <<S>> ELSE s0
           s2 == s1 \o <<C>>
           s3 == IF Broken(k) THEN s2 \o <<E>> ELSE s2
<1>1. /\ n \in Nat /\ k \in 1..Len(orderedCommits) /\ Len(orderedCommits) \in Nat
      /\ n > 0 => n \in 1..Len(orderedCommits)
  BY <1>0, PrintedCount, LenProperties DEF PrintCommit, IndInv, TypeOK
<1>2. \A i \in 1..Len(orderedCommits) :
        /\ orderedCommits[i] \in Commit
        /\ orderedCommits[i] \in DOMAIN nodes
        /\ nodes[orderedCommits[i]] \in CommitNodes
  BY ElementOfSeq, LenProperties DEF IndInv, TypeOK, Emitted, SeqRange
<1>3. /\ S \in Lines /\ C \in Lines /\ E \in Lines
      /\ S.kind = "start" /\ C.kind = "commit" /\ E.kind = "end"
      /\ S.commit = c /\ C.commit = c /\ E.commit = c
  <2>1. nodes[c].children \in SUBSET Commit /\ nodes[c].parents \in SUBSET Commit
        /\ c \in Commit
    BY <1>0, <1>1, <1>2 DEF CommitNodes
  <2> QED
    BY <2>1 DEF Line, Lines, BranchesAt
<1>4. s0 \in Seq(Lines) /\ AllFit(s0) /\ n = Cardinality(CommitPlaces(s0))
  BY <1>0 DEF IndInv, TypeOK, StickyInv, StickyAfter, Printed, CommitPlaces
<1>5. ASSUME n > 0
      PROVE  /\ starts <=> Broken(n)
             /\ ~ starts => c \in Parents(orderedCommits[n])
  <2> DEFINE b == orderedCommits[n]
  <2>1. /\ b \in Commit /\ c \in Commit /\ k - 1 = n /\ n + 1 = k /\ k > 1 /\ n < Len(orderedCommits)
        /\ NodeOf(b) = nodes[b] /\ NodeOf(c) = nodes[c]
    BY <1>0, <1>1, <1>2, <1>5 DEF NodeOf
  <2>2. /\ c \in NodeOf(b).parents <=> b \in NodeOf(c).children
        /\ c \in NodeOf(b).parents => c \in Parents(b)
    BY <2>1 DEF IndInv, GraphInv, EdgesMirrored
  <2>3. Broken(n) <=> c \notin nodes[b].parents
    BY <1>0, <2>1 DEF Broken
  <2> QED
    BY <2>1, <2>2, <2>3
<1>6. ASSUME n = 0  PROVE ~ starts /\ s0 = <<>>
  BY <1>0, <1>6 DEF StickyInv, StickyAfter
<1>7. s0 # <<>> => n > 0
  BY <1>1, <1>6
<1>8. n > 0 => /\ s0[Len(s0)].commit = orderedCommits[n]
               /\ s0[Len(s0)].kind = IF Broken(n) THEN "end" ELSE "commit"
  BY <1>0 DEF StickyInv, StickyAfter
<1>9. output' = s3
  <2> DEFINE A == IF starts THEN <<S>> ELSE <<>>
             B == IF Broken(k) THEN <<E>> ELSE <<>>
  <2>1. output' = output \o ((A \o <<C>>) \o B)
    BY <1>0, <1>1 DEF PrintCommit, LinesFor, Broken
  <2>2. A \in Seq(Lines) /\ B \in Seq(Lines) /\ <<C>> \in Seq(Lines) /\ output \in Seq(Lines)
    BY <1>3, <1>4
  <2>3. (A \o <<C>>) \in Seq(Lines) /\ (output \o A) \in Seq(Lines)
    BY <2>2, ConcatProperties
  <2> HIDE DEF A, B, C
  <2>4. output' = (output \o (A \o <<C>>)) \o B
    BY <2>1, <2>2, <2>3, ConcatAssociative
  <2>5. output \o (A \o <<C>>) = (output \o A) \o <<C>>
    BY <2>2, ConcatAssociative
  <2>6. output \o A = s1
    BY <2>2, ConcatEmptySeq DEF A
  <2>7. s2 \in Seq(Lines)
    BY <2>2, <2>3, <2>6, ConcatProperties
  <2>8. s2 \o B = s3
    BY <2>7, ConcatEmptySeq DEF B
  <2> HIDE DEF s1
  <2> QED
    BY <2>4, <2>5, <2>6, <2>8
<1> HIDE DEF S, C, E, starts, s0
<1>10. /\ s1 \in Seq(Lines) /\ AllFit(s1) /\ Cardinality(CommitPlaces(s1)) = n
       /\ s1 # <<>> => Fits(s1[Len(s1)], C)
  <2>1. CASE starts
    <3>1. n > 0 /\ Broken(n)
      BY <1>1, <1>5, <1>6, <2>1
    <3>2. Fits(s0[Len(s0)], S)
      BY <1>3, <1>8, <3>1 DEF Fits
    <3>3. s1 = s0 \o <<S>>
      BY <2>1
    <3>4. Fits(S, C)
      BY <1>3 DEF Fits
    <3> QED
      BY <1>3, <1>4, <3>2, <3>3, <3>4, OneMoreLine
  <2>2. CASE ~ starts
    <3>1. s1 = s0
      BY <2>2
    <3>2. ASSUME s0 # <<>>  PROVE Fits(s0[Len(s0)], C)
      <4>1. n > 0 /\ ~ Broken(n) /\ c \in Parents(orderedCommits[n])
        BY <1>5, <1>7, <2>2, <3>2
      <4> QED
        BY <1>3, <1>8, <4>1 DEF Fits
    <3> QED
      BY <1>4, <3>1, <3>2
  <2> QED
    BY <2>1, <2>2
<1> HIDE DEF s1
<1>11. /\ s2 \in Seq(Lines) /\ AllFit(s2) /\ Cardinality(CommitPlaces(s2)) = k
       /\ s2 # <<>> /\ s2[Len(s2)] = C
  BY <1>0, <1>3, <1>10, OneMoreLine
<1> HIDE DEF s2
<1>12. /\ s3 \in Seq(Lines) /\ AllFit(s3) /\ Cardinality(CommitPlaces(s3)) = k
       /\ s3 # <<>> /\ s3[Len(s3)].commit = c
       /\ s3[Len(s3)].kind = IF Broken(k) THEN "end" ELSE "commit"
  <2>1. CASE Broken(k)
    <3>1. Fits(C, E)
      BY <1>3 DEF Fits
    <3>2. s3 = s2 \o <<E>>
      BY <2>1
    <3> HIDE DEF s3
    <3> QED
      BY <1>3, <1>11, <2>1, <3>1, <3>2, OneMoreLine
  <2>2. CASE ~ Broken(k)
    BY <1>3, <1>11, <2>2
  <2> QED
    BY <2>1, <2>2
<1> HIDE DEF s3
<1>13. pc' = "print" /\ orderedCommits' = orderedCommits /\ nodes' = nodes
       /\ dictOfParentHashes' = dictOfParentHashes
  BY DEF PrintCommit, input
<1>14. Printed' = CommitPlaces(s3)
  BY <1>9 DEF Printed, CommitPlaces
<1>15. AllFit(output)'
  BY <1>9, <1>12, <1>13 DEF AllFit, Fits, Parents
<1>16. Broken(k)' <=> Broken(k)
  BY <1>13 DEF Broken
<1>17. StickyAfter(k)'
  BY <1>0, <1>1, <1>9, <1>12, <1>13, <1>15, <1>16 DEF StickyAfter
<1>18. Cardinality(Printed)' = k
  BY <1>12, <1>14
<1> QED
  BY <1>17, <1>18 DEF StickyInv

(* As long as there is no output, there is nothing to fit.                  *)
LEMMA StickyEmpty ==
  ASSUME output = <<>>
  PROVE  StickyInv
<1>1. Len(output) = 0 /\ DOMAIN output = {}
  OBVIOUS
<1>2. Printed = {}
  BY <1>1 DEF Printed
<1>3. Cardinality(Printed) = 0
  BY <1>2, FS_EmptySet
<1>4. AllFit(output)
  BY <1>1 DEF AllFit
<1> QED
  BY <1>3, <1>4 DEF StickyInv, StickyAfter

(* What each step keeps of the output.                                      *)
LEMMA StickyStep == IndInv /\ StickyInv /\ [Next]_vars => StickyInv'
<1> SUFFICES ASSUME IndInv, StickyInv, [Next]_vars PROVE StickyInv'
  OBVIOUS
<1>1. ASSUME output' = <<>>  PROVE StickyInv'
  <2>1. Len(output') = 0 /\ DOMAIN output' = {}
    BY <1>1
  <2>2. Printed' = {}
    BY <2>1 DEF Printed
  <2>3. Cardinality(Printed)' = 0
    BY <2>2, FS_EmptySet
  <2>4. AllFit(output)'
    BY <2>1 DEF AllFit
  <2> QED
    BY <1>1, <2>3, <2>4 DEF StickyInv, StickyAfter
<1>2. ASSUME pc \notin {"print", "done"}, output' = output  PROVE StickyInv'
  BY <1>1, <1>2 DEF StickyInv, StickyAfter
<1>3. ASSUME /\ pc' = pc \/ (pc = "print" /\ pc' = "done")
             /\ output' = output /\ nodes' = nodes /\ orderedCommits' = orderedCommits
             /\ dictOfParentHashes' = dictOfParentHashes
      PROVE  StickyInv'
  <2>1. Printed' = Printed
    BY <1>3 DEF Printed
  <2>2. AllFit(output)'
    BY <1>3 DEF StickyInv, StickyAfter, AllFit, Fits, Parents
  <2>3. \A i : Broken(i)' <=> Broken(i)
    BY <1>3 DEF Broken
  <2> QED
    BY <1>3, <2>1, <2>2, <2>3 DEF StickyInv, StickyAfter
<1>4. CASE StartWalk
  BY <1>2, <1>4 DEF StartWalk
<1>5. CASE NoBranchError \/ UnknownHashError \/ NoNodeError
  BY <1>2, <1>5 DEF NoBranchError, UnknownHashError, NoNodeError, Crash
<1>6. CASE Descend \/ Retreat \/ EndWalk
  BY <1>2, <1>6 DEF Descend, Retreat, EndWalk
<1>7. CASE StartOrdering \/ Climb \/ Emit
  BY <1>2, <1>7 DEF StartOrdering, Climb, Emit
<1>8. CASE StartPrinting
  BY <1>2, <1>8 DEF StartPrinting
<1>9. CASE Finish
  BY <1>3, <1>9 DEF Finish, input
<1>10. CASE UNCHANGED vars
  BY <1>3, <1>10 DEF vars, input
<1> QED
  BY <1>4, <1>5, <1>6, <1>7, <1>8, <1>9, <1>10, StickyPrint DEF Next

(***************************************************************************)
(* Neighbours in the output are child and parent unless a break is between *)
(* them, and breaks are pairs: what line 111 decides above a commit and    *)
(* line 123 below another always agrees, for every history.                *)
(***************************************************************************)
THEOREM PairsStickyLines == Spec => []StickyLinesPaired
<1>1. IndInv /\ StickyInv => StickyLinesPaired
  <2> SUFFICES ASSUME IndInv, StickyInv, NEW i \in 1..(Len(output) - 1)
               PROVE  LET above == output[i]
                          below == output[i + 1]
                      IN CASE above.kind = "end"    -> below.kind = "start"
                           [] below.kind = "start"  -> above.kind = "end"
                           [] above.kind = "commit" /\ below.kind = "commit" ->
                                below.commit \in Parents(above.commit)
                           [] OTHER                 -> above.commit = below.commit
    BY DEF StickyLinesPaired
  <2>1. Fits(output[i], output[i + 1])
    BY DEF StickyInv, StickyAfter, AllFit
  <2> QED
    BY <2>1 DEF Fits
<1>2. Init => StickyInv
  BY StickyEmpty DEF Init
<1> QED
  BY Inductive, StickyStep, <1>1, <1>2, PTL DEF Spec
------------------------------------------------------------------------------
(* Each commit that is out has one line of its own.                         *)

(* No commit is emitted twice, and each line for a commit so far is for one *)
(* of those, another than any other line, with the branches at it.          *)
Accounted ==
  /\ \A i, j \in DOMAIN orderedCommits : orderedCommits[i] = orderedCommits[j] => i = j
  /\ pc \notin {"print", "done"} => output = <<>>
  /\ pc = "done" => Cardinality(Printed) = Len(orderedCommits)
  /\ \A i \in Printed : \E j \in 1..Cardinality(Printed) :
       output[i] = Line("commit", orderedCommits[j], BranchesAt(orderedCommits[j]))
  /\ \A j \in 1..Cardinality(Printed) : \E i \in Printed : output[i].commit = orderedCommits[j]
  /\ \A i, k \in Printed : output[i].commit = output[k].commit => i = k

(* A branch is on one line, that of the commit it points at.                *)
OnOneLine ==
  pc = "done" =>
    \A b \in DOMAIN heads :
      \E i \in Printed :
        /\ { k \in Printed : b \in output[k].set } = {i}
        /\ output[i].commit = heads[b]

(* Of the lines for a commit one is for the commit itself.                  *)
LEMMA OneOfTheLines ==
  ASSUME NEW i
  PROVE  \E p \in DOMAIN LinesFor(i) :
           /\ LinesFor(i)[p] = Line("commit", orderedCommits[i], BranchesAt(orderedCommits[i]))
           /\ \A q \in DOMAIN LinesFor(i) : q # p => LinesFor(i)[q].kind # "commit"
<1> DEFINE c == orderedCommits[i]
           S == Line("start", c, nodes[c].children)
           C == Line("commit", c, BranchesAt(c))
           E == Line("end", c, nodes[c].parents)
<1>1. S.kind = "start" /\ E.kind = "end"
  BY DEF Line
<1>2. \/ LinesFor(i) = (<<>> \o <<C>>) \o <<>>
      \/ LinesFor(i) = (<<S>> \o <<C>>) \o <<>>
      \/ LinesFor(i) = (<<>> \o <<C>>) \o <<E>>
      \/ LinesFor(i) = (<<S>> \o <<C>>) \o <<E>>
  BY DEF LinesFor
<1> HIDE DEF S, C, E, c
<1>3. \/ LinesFor(i) = <<C>>
      \/ LinesFor(i) = <<S, C>>
      \/ LinesFor(i) = <<C, E>>
      \/ LinesFor(i) = <<S, C, E>>
  <2>1. PICK T : S \in T /\ C \in T /\ E \in T
    <3>1. S \in {S, C, E} /\ C \in {S, C, E} /\ E \in {S, C, E}
      OBVIOUS
    <3> QED
      BY <3>1
  <2>2. <<>> \in Seq(T) /\ <<S>> \in Seq(T) /\ <<C>> \in Seq(T) /\ <<S, C>> \in Seq(T)
    BY <2>1
  <2>3. <<>> \o <<C>> = <<C>> /\ <<C>> \o <<>> = <<C>> /\ <<S, C>> \o <<>> = <<S, C>>
    BY <2>2, ConcatEmptySeq
  <2>4. <<S>> \o <<C>> = <<S, C>> /\ <<C>> \o <<E>> = <<C, E>> /\ <<S, C>> \o <<E>> = <<S, C, E>>
    <3>0. <<C, E>> \in Seq(T) /\ <<S, C, E>> \in Seq(T)
      BY <2>1
    <3>1. Append(<<S>>, C) = <<S, C>>
      <4>1. /\ Append(<<S>>, C) \in Seq(T) /\ <<S, C>> \in Seq(T)
            /\ Len(Append(<<S>>, C)) = 2 /\ Len(<<S, C>>) = 2
        BY <2>1, <2>2, <3>0, PushFacts
      <4>2. \A n \in 1..2 : Append(<<S>>, C)[n] = <<S, C>>[n]
        BY <2>1, <2>2, PushFacts
      <4> QED
        BY <4>1, <4>2, SeqEqual
    <3>2. Append(<<C>>, E) = <<C, E>>
      <4>1. /\ Append(<<C>>, E) \in Seq(T) /\ <<C, E>> \in Seq(T)
            /\ Len(Append(<<C>>, E)) = 2 /\ Len(<<C, E>>) = 2
        BY <2>1, <2>2, <3>0, PushFacts
      <4>2. \A n \in 1..2 : Append(<<C>>, E)[n] = <<C, E>>[n]
        BY <2>1, <2>2, PushFacts
      <4> QED
        BY <4>1, <4>2, SeqEqual
    <3>3. Append(<<S, C>>, E) = <<S, C, E>>
      <4>1. /\ Append(<<S, C>>, E) \in Seq(T) /\ <<S, C, E>> \in Seq(T)
            /\ Len(Append(<<S, C>>, E)) = 3 /\ Len(<<S, C, E>>) = 3
        BY <2>1, <2>2, <3>0, PushFacts
      <4>2. \A n \in 1..3 : Append(<<S, C>>, E)[n] = <<S, C, E>>[n]
        BY <2>1, <2>2, PushFacts
      <4> QED
        BY <4>1, <4>2, SeqEqual
    <3> QED
      BY <2>1, <2>2, <3>1, <3>2, <3>3, AppendIsConcat
  <2> QED
    BY <1>2, <2>3, <2>4
<1>4. \E p \in DOMAIN LinesFor(i) :
        LinesFor(i)[p] = C /\ \A q \in DOMAIN LinesFor(i) : q # p => LinesFor(i)[q].kind # "commit"
  <2>1. CASE LinesFor(i) = <<C>>
    BY <2>1
  <2>2. CASE LinesFor(i) = <<S, C>>
    <3>1. DOMAIN LinesFor(i) = {1, 2} /\ LinesFor(i)[1] = S /\ LinesFor(i)[2] = C
      BY <2>2
    <3> QED
      BY <1>1, <3>1
  <2>3. CASE LinesFor(i) = <<C, E>>
    <3>1. DOMAIN LinesFor(i) = {1, 2} /\ LinesFor(i)[1] = C /\ LinesFor(i)[2] = E
      BY <2>3
    <3> QED
      BY <1>1, <3>1
  <2>4. CASE LinesFor(i) = <<S, C, E>>
    <3>1. /\ DOMAIN LinesFor(i) = {1, 2, 3}
          /\ LinesFor(i)[1] = S /\ LinesFor(i)[2] = C /\ LinesFor(i)[3] = E
      BY <2>4
    <3> QED
      BY <1>1, <3>1
  <2> QED
    BY <1>3, <2>1, <2>2, <2>3, <2>4
<1> QED
  BY <1>4 DEF C, c

(* The lines of one more commit                                             *)
LEMMA AccountedPrint ==
  ASSUME IndInv, Accounted, PrintCommit
  PROVE  Accounted'
<1>0. PICK n, k : n = Cardinality(Printed) /\ k = n + 1
  OBVIOUS
<1>1. n \in Nat /\ k \in 1..Len(orderedCommits) /\ Len(orderedCommits) \in Nat
      /\ DOMAIN orderedCommits = 1..Len(orderedCommits)
  BY <1>0, PrintedCount, LenProperties DEF PrintCommit, IndInv, TypeOK
<1>2. LinesFor(k) \in Seq(Lines) /\ output \in Seq(Lines)
  BY <1>1, LinesForType DEF IndInv, IndTypeOK, TypeOK
<1>3. PICK p \in DOMAIN LinesFor(k) :
        /\ LinesFor(k)[p] = Line("commit", orderedCommits[k], BranchesAt(orderedCommits[k]))
        /\ \A q \in DOMAIN LinesFor(k) : q # p => LinesFor(k)[q].kind # "commit"
  BY OneOfTheLines
<1>4. /\ output' = output \o LinesFor(k)
      /\ orderedCommits' = orderedCommits /\ heads' = heads /\ pc' = "print"
  BY <1>0 DEF PrintCommit, input
<1>5. PICK l, t : l = Len(output) /\ t = LinesFor(k)
  OBVIOUS
<1>6. /\ l \in Nat /\ Len(t) \in Nat /\ DOMAIN output = 1..l /\ DOMAIN t = 1..Len(t)
      /\ DOMAIN output' = 1..(l + Len(t))
      /\ \A i \in 1..l : output'[i] = output[i]
      /\ \A i \in (l + 1)..(l + Len(t)) : output'[i] = t[i - l]
  <2>1. l \in Nat /\ Len(t) \in Nat /\ DOMAIN output = 1..l /\ DOMAIN t = 1..Len(t)
    BY <1>2, <1>5, LenProperties
  <2>2. output' \in Seq(Lines) /\ Len(output') = l + Len(t)
        /\ \A i \in 1..(l + Len(t)) : output'[i] = IF i <= l THEN output[i] ELSE t[i - l]
    BY <1>2, <1>4, <1>5, ConcatProperties
  <2>3. DOMAIN output' = 1..(l + Len(t))
    BY <2>2, LenProperties
  <2> QED
    BY <2>1, <2>2, <2>3
<1>7. PICK at \in Nat : at = l + p
  BY <1>3, <1>5, <1>6
<1>8. /\ at \in DOMAIN output' /\ at \notin DOMAIN output
      /\ output'[at] = Line("commit", orderedCommits[k], BranchesAt(orderedCommits[k]))
  <2>1. at \in (l + 1)..(l + Len(t)) /\ at - l = p
    BY <1>3, <1>5, <1>6, <1>7
  <2> QED
    BY <1>3, <1>5, <1>6, <2>1
<1>9. ASSUME NEW i \in DOMAIN output', i \notin DOMAIN output, i # at
      PROVE  output'[i].kind # "commit"
  <2>1. i \in (l + 1)..(l + Len(t)) /\ i - l \in 1..Len(t) /\ i - l # p
    BY <1>3, <1>5, <1>6, <1>7, <1>9
  <2> QED
    BY <1>3, <1>5, <1>6, <2>1
<1>10. Printed' = Printed \cup {at} /\ at \notin Printed
  <2>1. output'[at].kind = "commit"
    BY <1>8 DEF Line
  <2>2. \A i \in DOMAIN output : i \in DOMAIN output' /\ output'[i] = output[i]
    BY <1>6
  <2> QED
    BY <1>8, <1>9, <2>1, <2>2 DEF Printed
<1>11. Cardinality(Printed') = k
  <2>1. IsFiniteSet(Printed)
    <3>1. IsFiniteSet(1..l)
      BY <1>6, FS_Interval
    <3>2. Printed \subseteq 1..l
      BY <1>6 DEF Printed
    <3> QED
      BY <3>1, <3>2, FS_Subset
  <2> QED
    BY <1>0, <1>10, <2>1, FS_AddElement
<1>12. \A i \in Printed : output'[i] = output[i]
  BY <1>6 DEF Printed
<1>13. \A c : BranchesAt(c)' = BranchesAt(c)
  BY <1>4 DEF BranchesAt
<1>14. \A j \in 1..k : j \in 1..n \/ j = k
  BY <1>0, <1>1
<1>15. 1..n \subseteq 1..k /\ k \in 1..k /\ k \notin 1..n /\ 1..k \subseteq DOMAIN orderedCommits
  BY <1>0, <1>1
<1>16. output'[at].commit = orderedCommits[k]
  BY <1>8 DEF Line
<1>17. \A i \in Printed' : \E j \in 1..k :
         output'[i] = Line("commit", orderedCommits[j], BranchesAt(orderedCommits[j]))
  BY <1>0, <1>8, <1>10, <1>12, <1>15 DEF Accounted
<1>18. \A j \in 1..k : \E i \in Printed' : output'[i].commit = orderedCommits[j]
  BY <1>0, <1>10, <1>12, <1>14, <1>16 DEF Accounted
<1>19. ASSUME NEW i \in Printed  PROVE output'[i].commit # orderedCommits[k]
  <2>1. PICK j \in 1..n : output[i] = Line("commit", orderedCommits[j], BranchesAt(orderedCommits[j]))
    BY <1>0 DEF Accounted
  <2>2. output'[i].commit = orderedCommits[j]
    BY <1>12, <2>1 DEF Line
  <2>3. orderedCommits[j] # orderedCommits[k]
    BY <1>15 DEF Accounted
  <2> QED
    BY <2>2, <2>3
<1>20. \A i, j \in Printed' : output'[i].commit = output'[j].commit => i = j
  BY <1>10, <1>12, <1>16, <1>19 DEF Accounted
<1>21. \A i \in Printed' : \E j \in 1..k :
         output'[i] = Line("commit", orderedCommits[j], BranchesAt(orderedCommits[j])')
  BY <1>4, <1>17 DEF BranchesAt
<1> QED
  BY <1>4, <1>11, <1>18, <1>20, <1>21 DEF Accounted, Line

(* Before the printing there is no line to account for.                     *)
LEMMA AccountedEmpty ==
  ASSUME output = <<>>, pc # "done",
         \A i, j \in DOMAIN orderedCommits : orderedCommits[i] = orderedCommits[j] => i = j
  PROVE  Accounted
<1>1. DOMAIN output = {}
  OBVIOUS
<1>2. Printed = {}
  BY <1>1 DEF Printed
<1>3. Cardinality(Printed) = 0 /\ 1..Cardinality(Printed) = {}
  BY <1>2, FS_EmptySet
<1> QED
  BY <1>2, <1>3 DEF Accounted

(* A commit that is emitted has not been before.                            *)
LEMMA AccountedEmit ==
  ASSUME IndInv, Accounted, Emit
  PROVE  \A i, j \in DOMAIN orderedCommits' : orderedCommits'[i] = orderedCommits'[j] => i = j
<1>1. /\ pc = "order" /\ commits # <<>>
      /\ orderedCommits' = Append(orderedCommits, TopOf(commits))
      /\ orderedCommits \in Seq(Commit)
  BY DEF Emit, IndInv, TypeOK
<1>2. TopOf(commits) \in SeqRange(commits) /\ TopOf(commits) \in Commit
  BY <1>1, CommitsTop, ElementOfSeq DEF IndInv, TypeOK
<1>3. TopOf(commits) \notin Emitted
  BY <1>1, <1>2 DEF IndInv, OrderInv, Ordering
<1>4. PICK n : n = Len(orderedCommits)
  OBVIOUS
<1>5. /\ n \in Nat /\ DOMAIN orderedCommits = 1..n /\ DOMAIN orderedCommits' = 1..(n + 1)
      /\ \A i \in 1..n : orderedCommits'[i] = orderedCommits[i]
      /\ orderedCommits'[n + 1] = TopOf(commits)
  BY <1>1, <1>2, <1>4, PushFacts, LenProperties
<1>6. \A i \in 1..n : orderedCommits'[i] # orderedCommits'[n + 1]
  BY <1>3, <1>5 DEF Emitted, SeqRange
<1>7. \A i \in 1..(n + 1) : i \in 1..n \/ i = n + 1
  BY <1>5
<1> QED
  BY <1>5, <1>6, <1>7 DEF Accounted

(* Each step leaves every line accounted for.                               *)
LEMMA AccountedStep == IndInv /\ Accounted /\ [Next]_vars => Accounted'
<1> SUFFICES ASSUME IndInv, Accounted, [Next]_vars PROVE Accounted'
  OBVIOUS
<1>1. ASSUME output' = <<>>, pc' # "done",
             \A i, j \in DOMAIN orderedCommits' : orderedCommits'[i] = orderedCommits'[j] => i = j
      PROVE  Accounted'
  <2>1. DOMAIN output' = {}
    BY <1>1
  <2>2. Printed' = {}
    BY <2>1 DEF Printed
  <2>3. Cardinality(Printed)' = 0 /\ 1..Cardinality(Printed)' = {}
    BY <2>2, FS_EmptySet
  <2> QED
    BY <1>1, <2>2, <2>3 DEF Accounted
<1>2. ASSUME pc \notin {"print", "done"}, pc' # "done", output' = output, orderedCommits' = orderedCommits
      PROVE  Accounted'
  BY <1>1, <1>2 DEF Accounted
<1>3. ASSUME /\ pc' = pc \/ (pc = "print" /\ pc' = "done" /\ Cardinality(Printed) = Len(orderedCommits))
             /\ output' = output /\ orderedCommits' = orderedCommits /\ heads' = heads
      PROVE  Accounted'
  <2>1. Printed' = Printed /\ Cardinality(Printed)' = Cardinality(Printed)
    BY <1>3 DEF Printed
  <2>2. \A j : Line("commit", orderedCommits[j], BranchesAt(orderedCommits[j]))' =
               Line("commit", orderedCommits[j], BranchesAt(orderedCommits[j]))
    BY <1>3 DEF Line, BranchesAt
  <2> QED
    BY <1>3, <2>1, <2>2 DEF Accounted
<1>4. CASE StartWalk
  BY <1>2, <1>4 DEF StartWalk
<1>5. CASE NoBranchError \/ UnknownHashError \/ NoNodeError
  BY <1>2, <1>5 DEF NoBranchError, UnknownHashError, NoNodeError, Crash
<1>6. CASE Descend \/ Retreat \/ EndWalk
  BY <1>2, <1>6 DEF Descend, Retreat, EndWalk
<1>7. CASE StartOrdering \/ Climb \/ StartPrinting
  BY <1>2, <1>7 DEF StartOrdering, Climb, StartPrinting
<1>8. CASE Emit
  <2>1. output' = <<>> /\ pc' # "done"
    BY <1>8 DEF Emit, Accounted
  <2> QED
    BY <1>1, <1>8, <2>1, AccountedEmit
<1>9. CASE Finish
  BY <1>3, <1>9 DEF Finish, input
<1>10. CASE UNCHANGED vars
  BY <1>3, <1>10 DEF vars, input
<1> QED
  BY <1>4, <1>5, <1>6, <1>7, <1>8, <1>9, <1>10, AccountedPrint DEF Next

(* At the end every head has been emitted, and so has its line.             *)
LEMMA AccountedLines ==
  ASSUME IndInv, Accounted
  PROVE  OnOneLine
<1> SUFFICES ASSUME pc = "done", NEW b \in DOMAIN heads
             PROVE  \E i \in Printed :
                      /\ { k \in Printed : b \in output[k].set } = {i}
                      /\ output[i].commit = heads[b]
  BY DEF OnOneLine
<1>1. heads[b] \in Emitted
  BY HeadsAtEnd DEF HeadsEmitted, Heads, SeqRange
<1>2. PICK j \in 1..Cardinality(Printed) : orderedCommits[j] = heads[b]
  <2>1. DOMAIN orderedCommits = 1..Cardinality(Printed)
    BY LenProperties DEF Accounted, IndInv, TypeOK
  <2> QED
    BY <1>1, <2>1 DEF Emitted, SeqRange
<1>3. PICK i \in Printed : output[i].commit = heads[b]
  BY <1>2 DEF Accounted
<1>4. \A k \in Printed : b \in output[k].set <=> output[k].commit = heads[b]
  <2> TAKE k \in Printed
  <2>1. PICK m \in 1..Cardinality(Printed) :
          output[k] = Line("commit", orderedCommits[m], BranchesAt(orderedCommits[m]))
    BY DEF Accounted
  <2>2. output[k].set = BranchesAt(orderedCommits[m]) /\ output[k].commit = orderedCommits[m]
    BY <2>1 DEF Line
  <2> QED
    BY <2>2 DEF BranchesAt
<1>5. \A k \in Printed : output[k].commit = heads[b] => k = i
  BY <1>3 DEF Accounted
<1> QED
  BY <1>3, <1>4, <1>5

(***************************************************************************)
(* Every branch is on exactly one line of the output, that of its commit,  *)
(* whatever the history and whichever branches share a commit (lines       *)
(* 115-122).                                                               *)
(***************************************************************************)
THEOREM PrintsEachBranchOnce == Spec => []OnOneLine
<1>1. Init => Accounted
  BY AccountedEmpty DEF Init
<1> QED
  BY Inductive, AccountedStep, AccountedLines, <1>1, PTL DEF Spec
==============================================================================
