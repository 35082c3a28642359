------------------------------ MODULE SearchTree ------------------------------
(***************************************************************************)
(* search_item of tsort: Knuth's algorithm A, a balanced tree in which a   *)
(* string that is looked for is inserted when it is not found.  Only what  *)
(* an insertion makes of the tree is kept, not the order of the walk down. *)
(***************************************************************************)
EXTENDS Integers, Sequences, FiniteSets

CONSTANT Node   (* the strings, positive numbers *)

VARIABLE tree   (* the root; the kids and the balance of every node *)

None == 0
Low == -1
High == 1

EmptyTree ==
  [ root |-> None, kid |-> [x \in Node |-> [a \in {Low, High} |-> None]],
    balance |-> [x \in Node |-> 0] ]

Side(str, x) == IF str < x THEN Low ELSE High
Holds(str) == str = tree.root \/ \E x \in Node : \E a \in {Low, High} : tree.kid[x][a] = str

(* A2 to A4: the nodes from x down to where str has to be linked. *)
RECURSIVE Path(_, _)
Path(str, x) == IF x = None THEN <<>> ELSE <<x>> \o Path(str, tree.kid[x][Side(str, x)])

(* The last node of the path that is not in balance, else the root. *)
Pivot(path) ==
  CHOOSE i \in DOMAIN path :
    /\ i > 1 => tree.balance[path[i]] # 0
    /\ \A n \in DOMAIN path : n > i => tree.balance[path[n]] = 0

Link(kid, x, a, y) == [kid EXCEPT ![x][a] = y]

(* A8, A9: the kids after the subtree at s with its kid r on side a has    *)
(* been rotated, and the node that is now on its top.                      *)
SingleRotation(kid, s, r, a) ==
  [ top |-> r, kid |-> Link(Link(kid, s, a, kid[r][-a]), r, -a, s) ]

DoubleRotation(kid, s, r, a) ==
  LET p == kid[r][-a] IN
  [ top |-> p,
    kid |-> Link(Link(Link(Link(kid, r, -a, kid[p][a]), p, a, r), s, a, kid[p][-a]), p, -a, s) ]

SidesExchanged(balance, s, r, p, a) ==
  [ balance EXCEPT ![p] = 0,
                   ![s] = IF balance[p] = a /\ p # r THEN a ELSE 0,
                   ![r] = IF balance[p] = -a /\ p # r THEN -a ELSE 0 ]

RotatedBalance(balance, s, r, p, a) ==
  [ balance EXCEPT ![p] = 0,
                   ![s] = IF balance[p] = a /\ p # r THEN -a ELSE 0,
                   ![r] = IF balance[p] = -a /\ p # r THEN a ELSE 0 ]

(* A5 to A10: link str in; where that leaves the pivot with a side that is *)
(* too high by two, rotate.                                                *)
Adjust(path, i, s, a, kid, balance) ==
  LET r == kid[s][a] IN
  \/ /\ balance[s] \in {0, -a}
     /\ tree' = [tree EXCEPT !.kid = kid, !.balance = [balance EXCEPT ![s] = @ + a]]
  \/ /\ balance[s] = a
     /\ \E turned \in { IF balance[r] = a THEN SingleRotation(kid, s, r, a)
                                          ELSE DoubleRotation(kid, s, r, a) } :
          tree' =
            [ root |-> IF i = 1 THEN turned.top ELSE tree.root,
              kid |-> IF i = 1 THEN turned.kid
                      ELSE Link(turned.kid, path[i - 1], Side(s, path[i - 1]), turned.top),
              balance |-> RotatedBalance(balance, s, r, turned.top, a) ]

Insert(str) ==
  \E path \in { Path(str, tree.root) } : \E i \in { Pivot(path) } :
    LET leaf == path[Len(path)]
        below == { path[n] : n \in (i + 1) .. Len(path) }
    IN \E kid \in { Link(tree.kid, leaf, Side(str, leaf), str) } :
       \E balance \in { [ x \in Node |->
                            IF x \in below THEN Side(str, x) ELSE tree.balance[x] ] } :
         Adjust(path, i, path[i], Side(str, path[i]), kid, balance)

search_item(str) ==
  \/ tree.root = None /\ tree' = [tree EXCEPT !.root = str]
  \/ Holds(str) /\ UNCHANGED tree
  \/ tree.root # None /\ ~Holds(str) /\ Insert(str)
------------------------------------------------------------------------------
(* recurse_tree visits left, node, right. *)
RECURSIVE InOrder(_)
InOrder(x) ==
  IF x = None THEN <<>>
  ELSE InOrder(tree.kid[x][Low]) \o <<x>> \o InOrder(tree.kid[x][High])

RECURSIVE Height(_)
Height(x) ==
  IF x = None THEN 0
  ELSE LET l == Height(tree.kid[x][Low])
           h == Height(tree.kid[x][High])
       IN 1 + IF l > h THEN l ELSE h

IsBalanced(S) ==
  \A x \in S :
    LET b == Height(tree.kid[x][High]) - Height(tree.kid[x][Low]) IN
    b = tree.balance[x] /\ b \in {-1, 0, 1}
===============================================================================
