-------------------------------- MODULE Tsort --------------------------------
(***************************************************************************)
(* tsort of GNU coreutils: Knuth's topological sort, and the search for a  *)
(* loop when no item without a predecessor is left.  Strings are numbers,  *)
(* ordered as strcmp orders them; a successor of the linked list top is    *)
(* the position of the token that named it.  The field qlink serves two    *)
(* purposes in turn: the queue of items to write, and the trail of the     *)
(* search for a loop.                                                      *)
(***************************************************************************)
EXTENDS Naturals, Sequences, FiniteSets

CONSTANTS
  Item,    (* the strings                *)
  Inputs   (* the sequences of tokens    *)

Null == 0

ASSUME ItemAssumption == Item \subseteq Nat \ {Null} /\ IsFiniteSet(Item)
ASSUME InputAssumption == Inputs \subseteq Seq(Item)

VARIABLES
  pc,
  input, pos,        (* the tokens, the next one                             *)
  j,                 (* the first token of a pair that is not complete       *)
  known,             (* the items of the tree                                *)
  count, top, qlink, (* the fields of the items                              *)
  head, zeros,       (* the ends of the queue                                *)
  loop,              (* the item the search for a loop has come to           *)
  n_strings,
  walk,              (* the items that a walk of the tree has still to visit *)
  p,                 (* the successors of head that are still to be erased   *)
  written,           (* the output; the items in it have no str any more     *)
  ok

fields == <<count, top, qlink>>
queue == <<head, zeros>>
result == <<written, n_strings, ok>>
vars == <<pc, input, pos, j, known, fields, queue, loop, walk, p, result>>

Printed == { written[i] : i \in DOMAIN written }

Init ==
  /\ pc = "read"
  /\ input \in Inputs /\ pos = 1
  /\ j = Null
  /\ known = {}
  /\ count = [x \in Item |-> 0]
  /\ top = [x \in Item |-> <<>>]
  /\ qlink = [x \in Item |-> Null]
  /\ head = Null /\ zeros = Null /\ loop = Null
  /\ n_strings = 0
  /\ walk = {} /\ p = <<>>
  /\ written = <<>> /\ ok = TRUE
------------------------------------------------------------------------------
(* The first token of a pair. *)
ReadFirst ==
  /\ pc = "read" /\ pos <= Len(input) /\ j = Null
  /\ pos' = pos + 1
  /\ known' = known \cup {input[pos]}
  /\ j' = input[pos]
  /\ UNCHANGED <<pc, input, fields, queue, loop, walk, p, result>>

(* The second: the first precedes it, unless they are the same. *)
AnyPair(k) == TRUE
IsRelation(k) == j # k

RecordRelation ==
  /\ pc = "read" /\ pos <= Len(input) /\ j # Null
  /\ LET k == input[pos] IN
     /\ known' = known \cup {k}
     /\ \/ /\ IsRelation(k)
           /\ count' = [count EXCEPT ![k] = @ + 1]
           /\ top' = [top EXCEPT ![j] = <<pos>> \o @]
        \/ ~IsRelation(k) /\ UNCHANGED <<count, top>>
  /\ pos' = pos + 1
  /\ j' = Null
  /\ UNCHANGED <<pc, input, qlink, queue, loop, walk, p, result>>

OddNumberOfTokens ==
  /\ pc = "read" /\ pos > Len(input) /\ j # Null
  /\ pc' = "failed"
  /\ UNCHANGED <<input, pos, j, known, fields, queue, loop, walk, p, result>>

CountItems ==
  /\ pc = "read" /\ pos > Len(input) /\ j = Null
  /\ n_strings' = Cardinality(known)
  /\ pc' = IF known = {} THEN "done" ELSE "scan"
  /\ walk' = known
  /\ UNCHANGED <<input, pos, j, known, fields, queue, loop, p, written, ok>>
------------------------------------------------------------------------------
Visits(k) == k \in walk /\ \A x \in walk : k <= x

(* scan_zeros: whatever has no predecessor and is not out yet is queued. *)
IsZero(k) == count[k] = 0 /\ k \notin Printed

Scan(k) ==
  /\ pc = "scan" /\ Visits(k)
  /\ walk' = walk \ {k}
  /\ \/ /\ IsZero(k)
        /\ \/ head = Null /\ head' = k /\ UNCHANGED qlink
           \/ head # Null /\ qlink' = [qlink EXCEPT ![zeros] = k] /\ UNCHANGED head
        /\ zeros' = k
     \/ ~IsZero(k) /\ UNCHANGED <<qlink, queue>>
  /\ UNCHANGED <<pc, input, pos, j, known, count, top, loop, p, result>>

EndScan ==
  /\ pc = "scan" /\ walk = {}
  /\ pc' = "queue"
  /\ UNCHANGED <<input, pos, j, known, fields, queue, loop, walk, p, result>>

Output ==
  /\ pc = "queue" /\ head # Null
  /\ written' = Append(written, head)
  /\ n_strings' = n_strings - 1
  /\ p' = top[head]
  /\ pc' = "erase"
  /\ UNCHANGED <<input, pos, j, known, fields, queue, loop, walk, ok>>

LastButOne(k) == count[k] \in {1, 2}
IsLast(k) == count[k] = 1

EraseRelation ==
  /\ pc = "erase" /\ p # <<>>
  /\ LET k == input[Head(p)] IN
     /\ count' = [count EXCEPT ![k] = @ - 1]
     /\ \/ /\ IsLast(k)
           /\ qlink' = [qlink EXCEPT ![zeros] = k]
           /\ zeros' = k
        \/ ~IsLast(k) /\ UNCHANGED <<qlink, zeros>>
  /\ p' = Tail(p)
  /\ UNCHANGED <<pc, input, pos, j, known, top, head, loop, walk, result>>

RemoveFromQueue ==
  /\ pc = "erase" /\ p = <<>>
  /\ head' = qlink[head]
  /\ pc' = "queue"
  /\ UNCHANGED <<input, pos, j, known, fields, zeros, loop, walk, p, result>>

EndOfProcess ==
  /\ pc = "queue" /\ head = Null
  /\ \/ n_strings = 0 /\ pc' = "done" /\ UNCHANGED <<walk, ok>>
     \/ n_strings > 0 /\ pc' = "detect" /\ walk' = known /\ ok' = FALSE
  /\ UNCHANGED <<input, pos, j, known, fields, queue, loop, p, written, n_strings>>
------------------------------------------------------------------------------
(* detect_loop: start somewhere with a predecessor, and go back from item *)
(* to predecessor until one comes up that has been met before.            *)
Leads(k, x) == { i \in DOMAIN top[k] : input[top[k][i]] = x }

StartTrail(k) ==
  /\ count[k] > 0 /\ loop = Null
  /\ loop' = k
  /\ walk' = walk \ {k}
  /\ UNCHANGED <<pc, fields>>

ExtendTrail(k) ==
  /\ count[k] > 0 /\ loop # Null
  /\ Leads(k, loop) # {} /\ qlink[k] = Null
  /\ qlink' = [qlink EXCEPT ![k] = loop]
  /\ loop' = k
  /\ walk' = walk \ {k}
  /\ UNCHANGED <<pc, count, top>>

Pass(k) ==
  /\ count[k] = 0 \/ (loop # Null /\ Leads(k, loop) = {})
  /\ walk' = walk \ {k}
  /\ UNCHANGED <<pc, fields, loop>>

(* The items that the trail leads to from loop. *)
Trail ==
  { x \in known : \A S \in SUBSET known :
      loop \in S /\ (\A y \in S : qlink[y] # Null => qlink[y] \in S) => x \in S }

Untidied == qlink
TidiedUp == [x \in Item |-> IF x \in Trail THEN Null ELSE qlink[x]]

(* Retracing the trail until k comes up again removes the relation; what is *)
(* left of the trail is tidied up in any case.                              *)
BreakLoop(k) ==
  /\ count[k] > 0 /\ loop # Null
  /\ Leads(k, loop) # {} /\ qlink[k] # Null
  /\ \/ /\ k \in Trail
        /\ \E i \in Leads(k, loop) :
             /\ \A i2 \in Leads(k, loop) : i <= i2
             /\ top' = [top EXCEPT ![k] = SubSeq(@, 1, i - 1) \o SubSeq(@, i + 1, Len(@))]
        /\ count' = [count EXCEPT ![loop] = @ - 1]
     \/ k \notin Trail /\ UNCHANGED <<count, top>>
  /\ qlink' = TidiedUp
  /\ loop' = Null
  /\ walk' = known
  /\ pc' = "scan"

Detect(k) ==
  /\ pc = "detect" /\ Visits(k)
  /\ StartTrail(k) \/ ExtendTrail(k) \/ Pass(k) \/ BreakLoop(k)
  /\ UNCHANGED <<input, pos, j, known, queue, p, result>>

EndWalk ==
  /\ pc = "detect" /\ walk = {}
  /\ walk' = known
  /\ pc' = IF loop = Null THEN "scan" ELSE "detect"
  /\ UNCHANGED <<input, pos, j, known, fields, queue, loop, p, result>>
------------------------------------------------------------------------------
Next ==
  \/ ReadFirst \/ RecordRelation \/ OddNumberOfTokens \/ CountItems
  \/ \E k \in Item : Scan(k) \/ Detect(k)
  \/ EndScan \/ Output \/ EraseRelation \/ RemoveFromQueue \/ EndOfProcess \/ EndWalk

Spec == Init /\ [][Next]_vars
FairSpec == Spec /\ WF_vars(Next)
------------------------------------------------------------------------------
(* The relations of the code, as the abstract specification has them. *)
Relation ==
  UNION { { [before |-> x, after |-> input[top[x][i]], id |-> top[x][i]] :
              i \in DOMAIN top[x] } : x \in Item }

Order == INSTANCE TotalOrder WITH Id <- Nat, relation <- Relation

(* Items are written in an order that every relation agrees with, and a    *)
(* relation is only dropped to break a cycle it is part of (record_relation, *)
(* T4 to T7, detect_loop).                                                 *)
ImplementsTotalOrder == Order!Spec

(* Each pair of the input that is not the same token twice. *)
Given == { i \in DOMAIN input : i % 2 = 0 /\ input[i - 1] # input[i] }

Acyclic ==
  \E rank \in [known -> 1 .. Cardinality(known)] :
    \A i \in Given : rank[input[i - 1]] < rank[input[i]]

(* When tsort ends, every string of the input is out, once; and it reports *)
(* success exactly for input without a loop, failure otherwise.  If there  *)
(* is a loop, some relation was given up.                                  *)
EndsWithAll ==
  pc = "done" =>
    /\ Len(written) = Cardinality(known) /\ Printed = known
    /\ ok <=> Acyclic
    /\ ok => Cardinality(Relation) = Cardinality(Given)

(* The search for loops comes to an end, and every loop broken brings the  *)
(* sort nearer to its end: tsort terminates on every input.                *)
Terminates == <>(pc \in {"done", "failed"})
===============================================================================
