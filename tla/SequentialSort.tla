---------------------------- MODULE SequentialSort ----------------------------
(***************************************************************************)
(* The sort of an array by one thread of sort of GNU coreutils             *)
(* (sequential_sort, mergelines).  Addresses are as in ParallelSort: the   *)
(* array after the pointer p has the cells p + 1, p + 2 and so on.  What a *)
(* cell holds is a line, whose key compare looks at.                       *)
(***************************************************************************)
EXTENDS Naturals

RECURSIVE MergeLines(_, _, _, _, _, _, _)
MergeLines(key, mem, t, lo, nlo, hi, nhi) ==
  IF key[mem[lo + 1]] <= key[mem[hi + 1]]
  THEN LET m == [mem EXCEPT ![t + 1] = mem[lo + 1]] IN
       IF nlo = 1 THEN m ELSE MergeLines(key, m, t + 1, lo + 1, nlo - 1, hi, nhi)
  ELSE LET m == [mem EXCEPT ![t + 1] = mem[hi + 1]] IN
       IF nhi = 1
       THEN [a \in DOMAIN m |-> IF a \in t + 2 .. t + 1 + nlo THEN m[lo + a - (t + 1)] ELSE m[a]]
       ELSE MergeLines(key, m, t + 1, lo, nlo, hi + 1, nhi - 1)

NotLess(a, b) == a >= b
Greater(a, b) == a > b

SortTwo(key, mem, lines, temp, to_temp) ==
  LET swap == (IF Greater(key[mem[lines + 1]], key[mem[lines + 2]]) THEN 1 ELSE 0) IN
  IF to_temp
  THEN [mem EXCEPT ![temp + 1] = mem[lines + 1 + swap], ![temp + 2] = mem[lines + 2 - swap]]
  ELSE IF swap = 0 THEN mem
  ELSE [mem EXCEPT ![temp + 1] = mem[lines + 1],
                   ![lines + 1] = mem[lines + 2], ![lines + 2] = mem[lines + 1]]

RECURSIVE Sorted(_, _, _, _, _, _)
Sorted(key, mem, lines, nlines, temp, to_temp) ==
  IF nlines = 2 THEN SortTwo(key, mem, lines, temp, to_temp)
  ELSE
    LET nlo == nlines \div 2
        nhi == nlines - nlo
        m1 == Sorted(key, mem, lines + nlo, nhi, IF to_temp THEN temp + nlo ELSE temp, to_temp)
        m2 == IF nlo > 1 THEN Sorted(key, m1, lines, nlo, temp, ~to_temp)
              ELSE IF ~to_temp THEN [m1 EXCEPT ![temp + 1] = m1[lines + 1]]
              ELSE m1
        dest == (IF to_temp THEN temp ELSE lines)
        lo == (IF to_temp THEN lines ELSE temp) IN
    MergeLines(key, m2, dest, lo, nlo, dest + nlo, nhi)

(* n lines, and as much space again that holds 0. *)
Fresh(n) == [a \in 1 .. 2 * n |-> IF a <= n THEN a ELSE 0]

InOrder(key, mem, from, n) ==
  /\ \A a \in from + 1 .. from + n - 1 :
       key[mem[a]] < key[mem[a + 1]] \/ (key[mem[a]] = key[mem[a + 1]] /\ mem[a] < mem[a + 1])
  /\ { mem[a] : a \in from + 1 .. from + n } = 1 .. n
===============================================================================
