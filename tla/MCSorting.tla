------------------------------ MODULE MCSorting -------------------------------
(***************************************************************************)
(* An instance of two parts of coreutils that share no state, SortMerge    *)
(* and Timespec: sort has to do with its temporary files, or ls -t         *)
(* compares two files.  What the other one has does not change.            *)
(***************************************************************************)
EXTENDS SortMerge, Timespec

VARIABLE program

(* Up to seven files, a file given twice. *)
MCGivens ==
  { SubSeq(<<1, 2, 3, 4, 5, 6, 7>>, 1, k) : k \in 0 .. 7 } \cup { <<1, 2, 1, 3, 1>> }

(* With an int of four bits: seconds on both sides of what fits. *)
MCSeconds == {-9, -8, -7, -1, 0, 1, 7, 8, 9}

AnyFile == CHOOSE f \in Files : TRUE
LsIdle == a = AnyFile /\ b = AnyFile

SortIdle ==
  /\ given = <<>> /\ mergeonly = FALSE /\ nmerge = 2 /\ same = {}
  /\ pc = "idle" /\ purpose = "none"
  /\ files = <<>> /\ ntemps = 0 /\ in = 0 /\ out = 0 /\ nopened = 0
  /\ window = <<>> /\ zap = {} /\ temp = None /\ tempcopy = None
  /\ temphead = <<>> /\ disk = {} /\ blocked = FALSE
  /\ parts = <<>> /\ fresh = NFiles + 1 /\ written = <<>>

MCInit ==
  \/ program = "sort" /\ Init /\ LsIdle
  \/ program = "ls" /\ AnyTwo /\ SortIdle

SortSteps == program = "sort" /\ Steps /\ UNCHANGED <<program, pair>>

MCNext ==
  \/ SortSteps
  \/ program = "sort" /\ Signal /\ UNCHANGED <<program, pair>>
  \/ program = "ls" /\ Swap /\ UNCHANGED <<program, vars>>

MCVars == <<program, vars, pair>>
MCSpec == MCInit /\ [][MCNext]_MCVars /\ WF_MCVars(SortSteps)
------------------------------------------------------------------------------
(* Wherever and however often it fails to open a file, sort comes to an    *)
(* end (merge).                                                            *)
SortEnds == program = "sort" => Ends
===============================================================================
