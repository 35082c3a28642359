---------------------------- MODULE MCParallelSort ----------------------------
(***************************************************************************)
(* An instance of ParallelSort: three threads, of which the first sorts    *)
(* half the lines and the others a quarter each, so that the tree has      *)
(* three levels; and sequential_sort for all arrays up to a length.        *)
(***************************************************************************)
EXTENDS ParallelSort, SequentialSort

CONSTANTS Keys, MaxLines    (* Bound: the length of an array. *)

MCMaxMerge == <<2, 1, 2>>
MCKeys == <<2, 1, 1, 2, 1, 3, 2>>
MCCases == {MCKeys} \X BOOLEAN

(* Equal lines on both sides of the root, with -u. *)
MCEqualLines == { <<<<2, 1, 1, 3>>, TRUE>> }

(* Sorting in place puts the lines in order, the equal ones as they were,  *)
(* and uses no more than half as much space; sorting to the temporary      *)
(* space puts them there (sequential_sort, mergelines).  It is looked at   *)
(* once, before the threads start.                                         *)
SequentialSortSorts ==
  pc[Root] = "sortlines" /\ at[Root] = Root =>
    \A n \in 2 .. MaxLines : \A key \in [0 .. n -> Keys] :
      LET in_place == Sorted(key, Fresh(n), 0, n, n, FALSE)
          to_temp == Sorted(key, Fresh(n), 0, n, n, TRUE) IN
      key[0] = 1 =>
        /\ InOrder(key, in_place, 0, n)
        /\ \A a \in n + n \div 2 + 1 .. 2 * n : in_place[a] = 0
        /\ InOrder(key, to_temp, n, n)
===============================================================================
