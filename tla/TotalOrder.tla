------------------------------ MODULE TotalOrder ------------------------------
(***************************************************************************)
(* What tsort promises ("totally ordered list consistent with the partial  *)
(* ordering"): relations are recorded first; then an item is written once  *)
(* all items before it are, and a relation may be dropped only if it is    *)
(* part of a cycle.                                                        *)
(***************************************************************************)
EXTENDS Sequences

CONSTANTS Item, Id

VARIABLES
  relation,  (* the relations that count: [before, after, id] *)
  written    (* the items written so far, in order            *)

Done == { written[i] : i \in DOMAIN written }

(* What the relations lead to from x, in the way a prover can use: a member *)
(* of every set that has x and is closed under them.                        *)
Closed(S) == \A e \in relation : e.before \in S => e.after \in S
LeadsTo(x, y) == \A S \in SUBSET Item : x \in S /\ Closed(S) => y \in S
OnCycle(e) == LeadsTo(e.after, e.before)

Init == relation = {} /\ written = <<>>

Record ==
  /\ written = <<>>
  /\ relation \subseteq relation'
  /\ relation' \subseteq [before : Item, after : Item, id : Id]
  /\ UNCHANGED written

Write(x) ==
  /\ written' = Append(written, x)
  /\ x \notin Done
  /\ \A e \in relation : e.after = x => e.before \in Done
  /\ UNCHANGED relation

Drop(e) ==
  /\ relation' = relation \ {e}
  /\ OnCycle(e)
  /\ UNCHANGED written

Next ==
  \/ Record
  \/ \E x \in Item : Write(x)
  \/ \E e \in relation : Drop(e)

Spec == Init /\ [][Next]_<<relation, written>>
===============================================================================
