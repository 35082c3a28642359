------------------------------- MODULE TopoSort -------------------------------
(***************************************************************************)
(* What the ordering of topo_order_commits.py promises, whatever walks it  *)
(* makes: a graph of child edges is recorded first; once the first commit  *)
(* is out the graph is fixed, and from then on a commit is emitted at most *)
(* once and only after every child recorded for it.                        *)
(***************************************************************************)
EXTENDS Sequences

CONSTANT Commit

VARIABLES
  children,  (* the children recorded for each commit *)
  emitted    (* the commits put out so far, in order  *)

Out == { emitted[i] : i \in DOMAIN emitted }

Init ==
  /\ children = [c \in Commit |-> {}]
  /\ emitted = <<>>

Record(child, parent) ==
  /\ emitted = <<>>
  /\ children' = [children EXCEPT ![parent] = @ \cup {child}]
  /\ UNCHANGED emitted

EmitCommit(c) ==
  /\ c \notin Out
  /\ children[c] \subseteq Out
  /\ emitted' = Append(emitted, c)
  /\ UNCHANGED children

Next ==
  \/ \E child, parent \in Commit : Record(child, parent)
  \/ \E c \in Commit : EmitCommit(c)

Spec == Init /\ [][Next]_<<children, emitted>>
===============================================================================
