----------------------------- MODULE ParallelSort -----------------------------
(***************************************************************************)
(* sort of GNU coreutils, the sort of one buffer by several threads        *)
(* (sortlines, mergelines_node, the queue of merge nodes).  The nodes of   *)
(* the merge tree are numbered as in a heap: the low child of n is 2 * n,  *)
(* the high child 2 * n + 1, the root 1 and its parent, MERGE_END, 0.      *)
(*                                                                         *)
(* The array of lines grows downwards from line.  An address is the        *)
(* distance from there: *--p reads p + 1 and leaves p there.  A line is    *)
(* the place it had in the buffer; compare looks at its key.  Which of the *)
(* nodes in the queue is popped first is left open.  A plain read of       *)
(* end_lo or end_hi that misses a value published without the lock is the  *)
(* same as one that comes before it: the publisher looks at the node again *)
(* with the lock.                                                          *)
(***************************************************************************)
EXTENDS Naturals, Sequences, FiniteSets

CONSTANTS
  NLines,      (* the lines of the buffer, total_lines                     *)
  NThreads,
  Heuristic,   (* SUBTHREAD_LINES_HEURISTIC                                *)
  MaxMerge,    (* MAX_MERGE, by level                                      *)
  Cases        (* the keys of the lines, and whether -u was given          *)

ASSUME SizeAssumption == NLines \in Nat /\ NThreads \in Nat \ {0} /\ Heuristic \in Nat
ASSUME EnoughLines == Heuristic >= 4 /\ NLines >= 2
ASSUME CaseAssumption == Cases \subseteq [1 .. NLines -> Nat] \X BOOLEAN

End == 0
Root == 1
Bound == 4 * NThreads       (* more than the largest number of a node *)
IsLo(n) == n % 2 = 0

(* init_node *)
Threads[n \in 1 .. Bound] ==
  IF n = Root THEN NThreads
  ELSE LET up == Threads[n \div 2] IN
       IF up <= 1 THEN 0 ELSE IF IsLo(n) THEN up \div 2 ELSE up - up \div 2

Node == { n \in 1 .. Bound : Threads[n] > 0 }

NTotal[n \in 1 .. Bound] ==
  IF n = Root THEN NLines
  ELSE LET up == NTotal[n \div 2] IN IF IsLo(n) THEN up \div 2 ELSE up - up \div 2

Lo(n) == NTotal[n] \div 2
Hi(n) == NTotal[n] - Lo(n)

NoOffset(n) == 0
Offset(n) == IF IsLo(n) THEN 0 ELSE Lo(n \div 2)

(* Where the lines of a node are in the buffer, and where they are merged from. *)
Lines[n \in 1 .. Bound] ==
  IF n = Root THEN 0 ELSE Lines[n \div 2] + Offset(n)

Level[n \in 0 .. Bound] == IF n = End THEN 0 ELSE Level[n \div 2] + 1

Place(n) == Lines[n] + Level[n] * NLines

(* MAX_MERGE is a size_t.                                                  *)
ASSUME MergeAssumption == \A n \in Node : MaxMerge[Level[n]] \in Nat

(* One array of lines for each level; a single thread needs half a second one. *)
Cells ==
  { a \in 1 .. NLines * Bound : a <= 2 * NLines \/ \E n \in Node : a <= NLines * Level[n] }

Free == 0         (* a lock that nobody holds *)
Junk == 0         (* what a cell holds that is not to be used *)
Thread == { n \in Node : n = Root \/ IsLo(n) }    (* by the node it starts with *)

VARIABLES
  input, unique,
  mem,                          (* the lines of the buffer and the space after them *)
  node, lock,                   (* the merge tree *)
  queue,                        (* how often a node is in the queue *)
  pc, at,                       (* for each thread, where it is, with which node *)
  reg,                          (* and what mergelines_node has in its variables *)
  joins,                        (* the threads it has created *)
  out

vars == <<input, unique, mem, node, lock, queue, pc, at, reg, joins, out>>
config == <<input, unique>>

MergeNode(lo, hi, end_lo, end_hi, nlo, nhi) ==
  [lo |-> lo, hi |-> hi, end_lo |-> end_lo, end_hi |-> end_hi,
   nlo |-> nlo, nhi |-> nhi, queued |-> FALSE]

Unset == [lo |-> 0, hi |-> 0, dest |-> 0, to_merge |-> 0]

Init ==
  /\ \E case \in Cases : input = case[1] /\ unique = case[2]
  /\ mem = [a \in Cells |-> IF a <= NLines THEN a ELSE Junk]
  /\ node = [n \in Node \cup {End} |->
       IF n = End
       THEN MergeNode(0, 0, 0, 0, NLines, NLines)
       ELSE MergeNode(Place(n), Place(n) + Lo(n), Place(n), Place(n) + Lo(n), Lo(n), Hi(n))]
  /\ lock = [n \in Node \cup {End} |-> Free]
  /\ queue = [n \in Node \cup {End} |-> 0]
  /\ pc = [t \in Thread |-> IF t = Root THEN "sortlines" ELSE "none"]
  /\ at = [t \in Thread |-> t]
  /\ reg = [t \in Thread |-> Unset]
  /\ joins = [t \in Thread |-> {}]
  /\ out = <<>>
------------------------------------------------------------------------------
Goto(t, place) == pc' = [pc EXCEPT ![t] = place]

(* pthread_cond_signal: one of those that wait, if any does. *)
GotoAndSignal(t, place) ==
  LET waiting == { w \in Thread : pc[w] = "wait" } IN
  \/ waiting = {} /\ Goto(t, place)
  \/ \E w \in waiting : pc' = [pc EXCEPT ![t] = place, ![w] = "pop"]

(* queue_insert, in one step under the mutex of the queue. *)
QueueInsert(t, n, place) ==
  /\ queue' = [queue EXCEPT ![n] = @ + 1]
  /\ node' = [node EXCEPT ![n].queued = TRUE]
  /\ GotoAndSignal(t, place)

Ready(n) ==
  LET lo_avail == node[n].lo # node[n].end_lo
      hi_avail == node[n].hi # node[n].end_hi IN
  \/ lo_avail /\ (hi_avail \/ node[n].nhi = 0)
  \/ ~lo_avail /\ hi_avail /\ node[n].nlo = 0

QueueCheckInsert(t, n, place) ==
  \/ ~node[n].queued /\ Ready(n) /\ QueueInsert(t, n, place)
  \/ (node[n].queued \/ ~Ready(n)) /\ Goto(t, place) /\ UNCHANGED <<queue, node>>
------------------------------------------------------------------------------
Splits(n) == Threads[n] > 1 /\ Heuristic <= NTotal[n]

CreateThread(t) ==
  LET n == at[t] IN
  /\ pc[t] = "sortlines" /\ Splits(n)
  /\ pc' = [pc EXCEPT ![2 * n] = "sortlines"]
  /\ at' = [at EXCEPT ![t] = 2 * n + 1]
  /\ joins' = [joins EXCEPT ![t] = @ \cup {2 * n}]
  /\ UNCHANGED <<config, mem, node, lock, queue, reg, out>>

(* What the two sequential sorts of a leaf use as temporary space. *)
Temp(n) ==
  { Lines[n] + NLines + i : i \in 1 .. Lo(n) \div 2 + (IF Hi(n) > 1 THEN Hi(n) \div 2 ELSE 0) }

(* A leaf, or pthread_create fails. *)
SortSequentially(t) ==
  /\ pc[t] = "sortlines"
  /\ mem' = [a \in Cells |-> IF a \in Temp(at[t]) THEN Junk ELSE mem[a]]
  /\ Goto(t, "sort")
  /\ UNCHANGED <<config, node, lock, queue, at, reg, joins, out>>

Before(i, j) == input[i] < input[j] \/ (input[i] = input[j] /\ i < j)

(* The cells from a + 1 to b, as sequential_sort leaves them. *)
SortedCells(a, b) ==
  [c \in a + 1 .. b |->
     CHOOSE i \in a + 1 .. b : c = a + 1 + Cardinality({ j \in a + 1 .. b : Before(j, i) })]

EndSort(t) ==
  LET n == at[t]
      from == Lines[n]
      mid == from + Lo(n)
      to == mid + Hi(n) IN
  /\ pc[t] = "sort"
  /\ \E lo \in {SortedCells(from, mid)}, hi \in {SortedCells(mid, to)} :
       mem' = [a \in Cells |->
                 IF a \in DOMAIN lo THEN lo[a] ELSE IF a \in DOMAIN hi THEN hi[a] ELSE mem[a]]
  /\ queue' = [queue EXCEPT ![n] = @ + 1]
  /\ node' = [node EXCEPT ![n] = [MergeNode(from, mid, mid, to, @.nlo, @.nhi) EXCEPT !.queued = TRUE]]
  /\ GotoAndSignal(t, "pop")
  /\ at' = [at EXCEPT ![t] = End]
  /\ UNCHANGED <<config, lock, reg, joins, out>>
------------------------------------------------------------------------------
QueuePopClears(t) ==
  /\ pc[t] = "pop"
  /\ \/ /\ \A n \in DOMAIN queue : queue[n] = 0
        /\ Goto(t, "wait")
        /\ UNCHANGED <<queue, at, node>>
     \/ \E n \in DOMAIN queue :
          /\ queue[n] > 0
          /\ queue' = [queue EXCEPT ![n] = @ - 1]
          /\ node' = [node EXCEPT ![n].queued = FALSE]
          /\ at' = [at EXCEPT ![t] = n]
          /\ Goto(t, "lock")
  /\ UNCHANGED <<config, mem, lock, reg, joins, out>>

QueuePop(t) ==
  /\ pc[t] = "pop"
  /\ \/ /\ \A n \in DOMAIN queue : queue[n] = 0
        /\ Goto(t, "wait")
        /\ UNCHANGED <<queue, at>>
     \/ \E n \in DOMAIN queue :
          /\ queue[n] > 0
          /\ queue' = [queue EXCEPT ![n] = @ - 1]
          /\ at' = [at EXCEPT ![t] = n]
          /\ Goto(t, "lock")
  /\ UNCHANGED <<config, mem, node, lock, reg, joins, out>>

SpuriousWakeup(t) ==
  /\ pc[t] = "wait"
  /\ Goto(t, "pop")
  /\ UNCHANGED <<config, mem, node, lock, queue, at, reg, joins, out>>

(* The field of the parent that says how far it may merge: *node->dest. *)
Dest(n) == IF IsLo(n) THEN node[n \div 2].end_lo ELSE node[n \div 2].end_hi

LockNode(t) ==
  LET n == at[t] IN
  /\ pc[t] = "lock" /\ lock[n] = Free
  /\ node' = [node EXCEPT ![n].queued = FALSE]
  /\ \/ n = End /\ Goto(t, "end") /\ UNCHANGED <<lock, reg>>
     \/ /\ n # End
        /\ lock' = [lock EXCEPT ![n] = t]
        /\ reg' = [reg EXCEPT ![t] =
                     [lo |-> node[n].lo, hi |-> node[n].hi,
                      dest |-> IF n = Root THEN 0 ELSE Dest(n),
                      to_merge |-> MaxMerge[Level[n]]]]
        /\ Goto(t, "merge")
  /\ UNCHANGED <<config, mem, queue, at, joins, out>>

(* MERGE_END is inserted again for the other threads. *)
KeepEnd(t) ==
  /\ pc[t] = "end"
  /\ Goto(t, "join")
  /\ UNCHANGED <<config, mem, node, lock, queue, at, reg, joins, out>>

ReinsertEnd(t) ==
  /\ pc[t] = "end"
  /\ QueueInsert(t, End, "join")
  /\ UNCHANGED <<config, mem, lock, at, reg, joins, out>>
------------------------------------------------------------------------------
MergedLo(t) == node[at[t]].lo - reg[t].lo
MergedHi(t) == node[at[t]].hi - reg[t].hi

(* One line goes to the destination, or is written. *)
Move(t, side) ==
  LET n == at[t]
      i == (IF side = "lo" THEN mem[node[n].lo + 1] ELSE mem[node[n].hi + 1]) IN
  /\ node' = IF side = "lo" THEN [node EXCEPT ![n].lo = @ + 1] ELSE [node EXCEPT ![n].hi = @ + 1]
  /\ \/ /\ n = Root
        /\ out' = IF unique /\ out # <<>> /\ input[out[Len(out)]] = input[i]
                  THEN out ELSE Append(out, i)
        /\ reg' = [reg EXCEPT ![t].to_merge = @ - 1]
        /\ UNCHANGED mem
     \/ /\ n # Root
        /\ mem' = [mem EXCEPT ![reg[t].dest + 1] = i]
        /\ reg' = [reg EXCEPT ![t].dest = @ + 1, ![t].to_merge = @ - 1]
        /\ UNCHANGED out
  /\ UNCHANGED <<config, lock, queue, pc, at, joins>>

BothAvailable(n) == node[n].lo # node[n].end_lo /\ node[n].hi # node[n].end_hi

IsLess(lo, hi) == input[lo] < input[hi]
GoesFirst(lo, hi) == input[lo] <= input[hi]

MergeBoth(t) ==
  LET n == at[t] IN
  /\ pc[t] = "merge" /\ BothAvailable(n) /\ reg[t].to_merge > 0
  /\ LET lo == mem[node[n].lo + 1]
         hi == mem[node[n].hi + 1] IN
     \/ GoesFirst(lo, hi) /\ Move(t, "lo")
     \/ ~GoesFirst(lo, hi) /\ Move(t, "hi")

(* If it is to_merge that ends the loop, it wraps around and is no limit   *)
(* from then on.                                                           *)
EndBoth(t) ==
  LET n == at[t] IN
  /\ pc[t] = "merge"
  /\ BothAvailable(n) => reg[t].to_merge = 0
  /\ reg' = IF BothAvailable(n) THEN [reg EXCEPT ![t].to_merge = NLines] ELSE reg
  /\ Goto(t, "rest")
  /\ UNCHANGED <<config, mem, node, lock, queue, at, joins, out>>

RestOfLo(t) ==
  LET n == at[t] IN node[n].nhi = MergedHi(t) /\ node[n].lo # node[n].end_lo
RestOfHi(t) ==
  LET n == at[t] IN
  node[n].nhi # MergedHi(t) /\ node[n].nlo = MergedLo(t) /\ node[n].hi # node[n].end_hi

MergeRest(t) ==
  /\ pc[t] = "rest" /\ reg[t].to_merge > 0
  /\ (RestOfLo(t) /\ Move(t, "lo")) \/ (RestOfHi(t) /\ Move(t, "hi"))

(* The parent may go on, as far as dest: this is not under its lock. *)
Publish(t) ==
  LET n == at[t]
      up == n \div 2
      own == [node EXCEPT ![n].nlo = @ - MergedLo(t), ![n].nhi = @ - MergedHi(t)] IN
  /\ pc[t] = "rest"
  /\ reg[t].to_merge = 0 \/ (~RestOfLo(t) /\ ~RestOfHi(t))
  /\ \/ n = Root /\ node' = own
     \/ n # Root /\ IsLo(n) /\ node' = [own EXCEPT ![up].end_lo = reg[t].dest]
     \/ n # Root /\ ~IsLo(n) /\ node' = [own EXCEPT ![up].end_hi = reg[t].dest]
  /\ reg' = [reg EXCEPT ![t] = Unset]
  /\ Goto(t, "check")
  /\ UNCHANGED <<config, mem, lock, queue, at, joins, out>>

CheckSelf(t) ==
  /\ pc[t] = "check"
  /\ QueueCheckInsert(t, at[t], "parent")
  /\ UNCHANGED <<config, mem, lock, at, reg, joins, out>>

CheckParent(t) ==
  LET n == at[t] IN
  /\ pc[t] = "parent"
  /\ \/ n # Root /\ lock[n \div 2] = Free /\ QueueCheckInsert(t, n \div 2, "unlock")
     \/ n = Root /\ node[n].nlo + node[n].nhi = 0 /\ QueueInsert(t, End, "unlock")
     \/ n = Root /\ node[n].nlo + node[n].nhi # 0 /\ Goto(t, "unlock") /\ UNCHANGED <<queue, node>>
  /\ UNCHANGED <<config, mem, lock, at, reg, joins, out>>

UnlockNode(t) ==
  /\ pc[t] = "unlock"
  /\ lock' = [lock EXCEPT ![at[t]] = Free]
  /\ at' = [at EXCEPT ![t] = End]
  /\ Goto(t, "pop")
  /\ UNCHANGED <<config, mem, node, queue, reg, joins, out>>

(* It returns when the threads it has created have. *)
Join(t) ==
  /\ pc[t] = "join"
  /\ \A u \in joins[t] : pc[u] = "done"
  /\ Goto(t, "done")
  /\ UNCHANGED <<config, mem, node, lock, queue, at, reg, joins, out>>
------------------------------------------------------------------------------
Merges(t) == MergeBoth(t) \/ EndBoth(t) \/ MergeRest(t) \/ Publish(t)

Step(t) ==
  \/ CreateThread(t) \/ SortSequentially(t) \/ EndSort(t)
  \/ QueuePop(t) \/ LockNode(t) \/ ReinsertEnd(t)
  \/ Merges(t)
  \/ CheckSelf(t) \/ CheckParent(t) \/ UnlockNode(t) \/ Join(t)

Next == \E t \in Thread : Step(t) \/ SpuriousWakeup(t)

Spec == Init /\ [][Next]_vars
FairSpec == Spec /\ \A t \in Thread : WF_vars(Step(t))
------------------------------------------------------------------------------
Sort == INSTANCE StableSort

(* The threads together write what a stable sort of the buffer writes,     *)
(* line by line.                                                           *)
ImplementsStableSort == Sort!Spec

(* The comment at the option's flag: with -u, "only the last of a sequence  *)
(* of equal lines will be output".  Expected to be violated: write_unique  *)
(* writes the first.                                                       *)
OnlyTheLastOfEqualLines ==
  pc[Root] = "done" /\ unique =>
    \A k \in DOMAIN out, i \in DOMAIN input : input[i] = input[out[k]] => i <= out[k]

(* A node is in the queue once, or with the one thread that has popped it  *)
(* and waits for its lock; and once MERGE_END is there, no other node is   *)
(* (queue_pop clears queued late, after it has the lock).                  *)
QueuedOnce ==
  \A n \in DOMAIN queue :
    /\ queue[n] + Cardinality({ t \in Thread : pc[t] = "lock" /\ at[t] = n }) <= 1
    /\ queue[End] > 0 => n = End \/ queue[n] = 0

(* The space that a leaf sorts in overlaps the array that its parent merges *)
(* into: nobody else writes there while it is in use.                       *)
SortsInOwnSpace ==
  \A t \in Thread : pc[t] = "sort" => \A a \in Temp(at[t]) : mem[a] = Junk

(* All threads come to an end, which is when everything is out.            *)
Finishes == <>(/\ \A t \in Thread : pc[t] \in {"none", "done"}
               /\ Sort!Complete)
===============================================================================
