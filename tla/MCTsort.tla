------------------------------- MODULE MCTsort -------------------------------
(***************************************************************************)
(* tsort with the tree it keeps its items in: each token that is read goes *)
(* through search_item, and the walks visit the tree in its own order.     *)
(***************************************************************************)
EXTENDS Tsort, TLC

VARIABLE tree

Tree == INSTANCE SearchTree WITH Node <- Item

TreeInit == Init /\ tree = Tree!EmptyTree

TreeNext ==
  /\ Next
  /\ IF pos' # pos THEN Tree!search_item(input[pos]) ELSE UNCHANGED tree

TreeSpec == TreeInit /\ [][TreeNext]_<<vars, tree>> /\ WF_<<vars, tree>>(TreeNext)

(* Whatever the order in which strings are read, the tree holds each of    *)
(* them once, in order, and stays balanced: so a string is found again     *)
(* when it is read again, and a walk visits the items in ascending order,  *)
(* as Visits has it (search_item, recurse_tree).                           *)
TreeInOrder ==
  LET items == Tree!InOrder(tree.root) IN
  /\ { items[i] : i \in DOMAIN items } = known
  /\ \A i \in DOMAIN items : i > 1 => items[i - 1] < items[i]
  /\ Tree!IsBalanced(known)
------------------------------------------------------------------------------
(* Small instances. *)
MCItem == 1 .. 7    (* the tokens of one input come from 1 .. 4, or are all of them *)

(* Four different relations between the four items, in any order. *)
Pairs == { e \in (1 .. 4) \X (1 .. 4) : e[1] # e[2] }
Tokens(r) == [ i \in 1 .. 8 |-> r[(i + 1) \div 2][2 - (i % 2)] ]
FourRelations ==
  { Tokens(r) : r \in { s \in [1 .. 4 -> Pairs] :
                          \A a, b \in 1 .. 4 : s[a] = s[b] => a = b } }

MCInputs ==
  UNION { [1 .. n -> 1 .. 4] : n \in 0 .. 5 } \cup [1 .. 6 -> 1 .. 3]
    \cup FourRelations \cup Permutations(MCItem)
===============================================================================
