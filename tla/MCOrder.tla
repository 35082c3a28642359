------------------------------- MODULE MCOrder -------------------------------
(***************************************************************************)
(* Instances of CommitOrder: all acyclic histories over four hashes, and   *)
(* every table over three of them that may miss some.                      *)
(***************************************************************************)
EXTENDS CommitOrder

CONSTANTS
  MaxParents, (* Bound: the parents of a commit.                            *)
  MaxHeads,   (* Bound: the branches.                                       *)
  Spare       (* The hash that the partial tables never describe.           *)

ParentLists(S) ==
  { l \in UNION { [1..n -> S] : n \in 0..MaxParents } :
      \A i, j \in DOMAIN l : i # j => l[i] # l[j] }

CompleteHistories == { t \in [Commit -> ParentLists(Commit)] : Acyclic(t) }

PartialHistories ==
  LET C == Commit \ {Spare}
  IN  { t \in UNION { [D -> ParentLists(C)] : D \in SUBSET C } : Acyclic(t) }

MCHistories == CompleteHistories \cup PartialHistories

MCHeadLists == UNION { [1..n -> Commit] : n \in 0..MaxHeads }
==============================================================================
