------------------------------- MODULE SortMerge -------------------------------
(***************************************************************************)
(* sort of GNU coreutils, the temporary files: created for each buffer     *)
(* that is sorted, merged into fewer as long as there are more than nmerge *)
(* files, removed when they have been read, and removed by exit_cleanup or *)
(* by the handler of a signal if they have not.                            *)
(*                                                                         *)
(* What is in a file is told by the files given, or the buffers, whose     *)
(* lines it has, in the order that lines which compare equal have there    *)
(* (mergefps is stable).  The names of temporary files are numbers that    *)
(* are larger than those of the files given.  Files are not compressed.    *)
(***************************************************************************)
EXTENDS Naturals, Sequences, FiniteSets

CONSTANTS
  NFiles,     (* files given, or buffers sorted, have names up to this *)
  Givens,     (* the lists of them                            *)
  Merging,    (* whether sort has been given -m               *)
  NMerges     (* the values of nmerge                         *)

Name == 1 .. NFiles

ASSUME NFilesAssumption == NFiles \in Nat
ASSUME GivenAssumption == Givens \subseteq Seq(Name) /\ Merging \subseteq BOOLEAN
ASSUME NMergeAssumption == NMerges \subseteq Nat \ {0, 1}    (* specify_nmerge *)

VARIABLES
  given, mergeonly, nmerge,
  same,               (* the file given that is the output file, if one is   *)
  pc,
  purpose,            (* what a temporary file is created for, or merged into *)
  files, ntemps,      (* the files to merge, of which the first are temporary *)
  in, out,
  nopened,
  window,             (* the files that are being merged                      *)
  zap,                (* those of them that will be removed once read         *)
  temp,               (* the temporary file being written                     *)
  tempcopy,
  temphead,           (* the list of the temporary files                      *)
  disk,               (* those that exist                                     *)
  blocked,            (* whether signals are: in a critical section           *)
  parts,              (* what is in the files                                 *)
  fresh,              (* the next name that mkostemp makes                    *)
  written             (* what is in the output file                           *)

options == <<given, mergeonly, nmerge, same>>
work == <<purpose, files, ntemps, in, out, nopened, window, zap, temp, tempcopy>>
store == <<temphead, disk, blocked, parts, fresh>>
vars == <<options, pc, work, store, written>>

None == 0
Elements(s) == { s[i] : i \in DOMAIN s }
Minimum(a, b) == IF a <= b THEN a ELSE b
Concat(s) ==
  LET c[k \in 0 .. Len(s)] == IF k = 0 THEN <<>> ELSE c[k - 1] \o parts[s[k]]
  IN c[Len(s)]

Init ==
  /\ given \in Givens /\ mergeonly \in Merging /\ nmerge \in NMerges
  /\ same \in {{}} \cup { {x} : x \in IF mergeonly THEN Elements(given) ELSE {} }
  /\ pc = IF mergeonly THEN "loop" ELSE "sort"
  /\ purpose = "none"
  /\ files = IF mergeonly THEN given ELSE <<>>
  /\ ntemps = 0 /\ in = 0 /\ out = 0 /\ nopened = 0
  /\ window = <<>> /\ zap = {} /\ temp = None /\ tempcopy = None
  /\ temphead = <<>> /\ disk = {} /\ blocked = FALSE
  /\ parts = [x \in Elements(given) |-> <<x>>]
  /\ fresh = NFiles + 1
  /\ written = <<>>
------------------------------------------------------------------------------
cs_nothing == blocked' = FALSE
cs_enter == blocked' = TRUE
cs_leave == blocked' = FALSE

(* create_temp_file: from mkostemp on until the file is in the list, no    *)
(* signal is taken.                                                        *)
Create(what) == pc' = "create" /\ purpose' = what

(* Without a descriptor for it, one more file is closed; it dies of any     *)
(* other error.                                                            *)
SurvivesExhaustion == purpose = "retreat" /\ nopened > 2

CreateTemp ==
  /\ pc = "create"
  /\ \/ /\ disk' = disk \cup {fresh}
        /\ temp' = fresh /\ fresh' = fresh + 1
        /\ cs_enter
        /\ pc' = "link"
     \/ /\ pc' = "die" \/ (SurvivesExhaustion /\ pc' = "retreat")
        /\ UNCHANGED <<disk, temp, fresh, blocked>>
  /\ UNCHANGED <<options, purpose, files, ntemps, in, out, nopened, window, zap, tempcopy,
                 temphead, parts, written>>

(* The first of the files that are merged, up to ntemps, are zapped. *)
Merge(from, number, temporary) ==
  /\ window' = SubSeq(files, from + 1, from + number)
  /\ zap' = Elements(SubSeq(files, from + 1, from + Minimum(temporary, number)))
  /\ pc' = "merge"

LinkTemp ==
  /\ pc = "link"
  /\ temphead' = Append(temphead, temp)
  /\ cs_leave
  /\ \/ purpose = "buffer" /\ pc' = "write" /\ UNCHANGED <<window, zap>>
     \/ purpose \in {"full", "short", "copy"} /\ pc' = "open" /\ UNCHANGED <<window, zap>>
     \/ purpose = "retreat" /\ Merge(0, nopened, ntemps)
  /\ UNCHANGED <<options, purpose, files, ntemps, in, out, nopened, temp, tempcopy,
                 disk, parts, fresh, written>>
------------------------------------------------------------------------------
(* sort: a buffer that holds everything is written to the output at once, *)
(* unless there is another file to come, which turns out to be empty.      *)
SortBuffer ==
  /\ pc = "sort"
  /\ \/ /\ Len(given) = 1 /\ temphead = <<>>
        /\ written' = given
        /\ pc' = "exit"
        /\ UNCHANGED work
     \/ /\ Len(temphead) < Len(given)
        /\ Create("buffer")
        /\ UNCHANGED <<files, ntemps, in, out, nopened, window, zap, temp, tempcopy, written>>
     \/ /\ Len(temphead) = Len(given)
        /\ files' = temphead /\ ntemps' = Len(temphead)
        /\ pc' = "loop"
        /\ UNCHANGED <<purpose, in, out, nopened, window, zap, temp, tempcopy, written>>
  /\ UNCHANGED <<options, store>>

Holds(x, what) == parts' = [y \in DOMAIN parts \cup {x} |-> IF y = x THEN what ELSE parts[y]]

WriteBuffer ==
  /\ pc = "write"
  /\ Holds(temp, <<given[Len(temphead)]>>)
  /\ pc' = "sort"
  /\ UNCHANGED <<options, work, temphead, disk, blocked, fresh, written>>
------------------------------------------------------------------------------
(* merge: passes over the files until there are at most nmerge. *)
Pass ==
  /\ pc = "loop"
  /\ \/ /\ nmerge < Len(files)
        /\ in' = 0 /\ out' = 0
        /\ pc' = "full"
     \/ /\ nmerge >= Len(files)
        /\ in' = ntemps
        /\ pc' = "avoid"
        /\ UNCHANGED out
  /\ UNCHANGED <<options, purpose, files, ntemps, nopened, window, zap, temp, tempcopy,
                 store, written>>

Remainder == Len(files) - in
CheapSlots == nmerge - (out % nmerge)

FullMerge ==
  /\ pc = "full" /\ nmerge <= Len(files) - in
  /\ Create("full")
  /\ UNCHANGED <<options, files, ntemps, in, out, nopened, window, zap, temp, tempcopy,
                 store, written>>

ShortMerge ==
  /\ pc = "full" /\ nmerge > Len(files) - in
  /\ CheapSlots < Remainder
  /\ Create("short")
  /\ UNCHANGED <<options, files, ntemps, in, out, nopened, window, zap, temp, tempcopy,
                 store, written>>

EndPass ==
  /\ \/ pc = "full" /\ nmerge > Len(files) - in /\ CheapSlots >= Remainder
     \/ pc = "slide"
  /\ files' = SubSeq(files, 1, out) \o SubSeq(files, in + 1, Len(files))
  /\ ntemps' = ntemps + out
  /\ pc' = "loop"
  /\ UNCHANGED <<options, purpose, in, out, nopened, window, zap, temp, tempcopy,
                 store, written>>

(* mergefiles: with fewer files than wanted, if not all can be opened. *)
Wanted ==
  CASE purpose = "full" -> nmerge
    [] purpose = "short" -> Remainder - CheapSlots + 1
    [] purpose = "copy" -> 1

MergeFiles ==
  /\ pc = "open"
  /\ \E k \in 0 .. Wanted :
       /\ nopened' = k
       /\ \/ k < Wanted /\ k < 2 /\ pc' = "die" /\ UNCHANGED <<window, zap>>
          \/ /\ k = Wanted \/ k >= 2
             /\ Merge(in, k, IF purpose = "copy" THEN 0 ELSE ntemps)
  /\ UNCHANGED <<options, purpose, files, ntemps, in, out, temp, tempcopy, store, written>>
------------------------------------------------------------------------------
(* mergefps: each file comes to its end when its lines have been written;  *)
(* zaptemp unlinks it and takes it out of the list in a critical section.  *)
UnlinkTemp ==
  /\ pc = "merge"
  /\ \E x \in zap : disk' = disk \ {x}
  /\ cs_enter
  /\ pc' = "unlink"
  /\ UNCHANGED <<options, work, temphead, parts, fresh, written>>

UnlistTemp ==
  /\ pc = "unlink"
  /\ \E x \in zap \ disk, k \in DOMAIN temphead :
       /\ temphead[k] = x
       /\ temphead' = SubSeq(temphead, 1, k - 1) \o SubSeq(temphead, k + 1, Len(temphead))
       /\ zap' = zap \ {x}
  /\ cs_leave
  /\ pc' = "merge"
  /\ UNCHANGED <<options, purpose, files, ntemps, in, out, nopened, window, temp, tempcopy,
                 disk, parts, fresh, written>>

Merged == pc = "merge" /\ zap = {}

(* Back in merge, which has the temporary file for those it was made from. *)
EndMerge ==
  /\ Merged /\ purpose \in {"full", "short"}
  /\ Holds(temp, Concat(window))
  /\ ntemps' = ntemps - Minimum(ntemps, nopened)
  /\ files' = [files EXCEPT ![out + 1] = temp]
  /\ out' = out + 1 /\ in' = in + nopened
  /\ pc' = IF purpose = "full" THEN "full" ELSE "slide"
  /\ UNCHANGED <<options, purpose, nopened, window, zap, temp, tempcopy,
                 temphead, disk, blocked, fresh, written>>

(* avoid_trashing_input *)
IsSameName(x) == FALSE
IsOutput(x) == x \in same

Avoid ==
  /\ pc = "avoid"
  /\ \/ /\ in >= Len(files)
        /\ pc' = "final"
        /\ UNCHANGED <<purpose, files, in>>
     \/ /\ in < Len(files) /\ ~IsOutput(files[in + 1])
        /\ in' = in + 1
        /\ UNCHANGED <<pc, purpose, files>>
     \/ /\ in < Len(files) /\ IsOutput(files[in + 1])
        /\ tempcopy # None
        /\ files' = [files EXCEPT ![in + 1] = tempcopy]
        /\ in' = in + 1
        /\ UNCHANGED <<pc, purpose>>
     \/ /\ in < Len(files) /\ IsOutput(files[in + 1])
        /\ tempcopy = None
        /\ Create("copy")
        /\ UNCHANGED <<files, in>>
  /\ UNCHANGED <<options, ntemps, out, nopened, window, zap, temp, tempcopy, store, written>>

EndCopy ==
  /\ Merged /\ purpose = "copy"
  /\ Holds(temp, Concat(window))
  /\ tempcopy' = temp
  /\ files' = [files EXCEPT ![in + 1] = temp]
  /\ in' = in + 1
  /\ pc' = "avoid"
  /\ UNCHANGED <<options, purpose, ntemps, out, nopened, window, zap, temp,
                 temphead, disk, blocked, fresh, written>>
------------------------------------------------------------------------------
(* The last merge, if all files can be opened: that truncates the output. *)
MergeToOutput ==
  /\ pc = "final"
  /\ Merge(0, Len(files), ntemps)
  /\ purpose' = "output"
  /\ nopened' = Len(files)
  /\ parts' = [x \in DOMAIN parts |-> IF x \in same THEN <<>> ELSE parts[x]]
  /\ UNCHANGED <<options, files, ntemps, in, out, temp, tempcopy, temphead, disk, blocked,
                 fresh, written>>

NotAllOpen ==
  /\ pc = "final"
  /\ nopened' \in 0 .. Len(files) - 1
  /\ pc' = IF nopened' <= 2 THEN "die" ELSE "retreat"
  /\ UNCHANGED <<options, purpose, files, ntemps, in, out, window, zap, temp, tempcopy,
                 store, written>>

AsMany == nopened
OneFewer == nopened - 1

CloseOne ==
  /\ pc = "retreat"
  /\ nopened' = OneFewer
  /\ Create("retreat")
  /\ UNCHANGED <<options, files, ntemps, in, out, window, zap, temp, tempcopy, store, written>>

EndRetreat ==
  /\ Merged /\ purpose = "retreat"
  /\ Holds(temp, Concat(window))
  /\ ntemps' = ntemps - Minimum(ntemps, nopened) + 1
  /\ files' = <<temp>> \o SubSeq(files, nopened + 1, Len(files))
  /\ pc' = "final"
  /\ UNCHANGED <<options, purpose, in, out, nopened, window, zap, temp, tempcopy,
                 temphead, disk, blocked, fresh, written>>

EndOutput ==
  /\ Merged /\ purpose = "output"
  /\ written' = Concat(window)
  /\ pc' = "exit"
  /\ UNCHANGED <<options, work, store>>
------------------------------------------------------------------------------
(* Reading or writing fails. *)
Fail ==
  /\ pc \in {"sort", "write", "merge"}
  /\ pc' = "die"
  /\ UNCHANGED <<options, work, store, written>>

Cleanup == disk' = disk \ Elements(temphead) /\ temphead' = <<>>

ExitCleanup ==
  /\ pc \in {"exit", "die"}
  /\ Cleanup
  /\ pc' = IF pc = "exit" THEN "done" ELSE "failed"
  /\ UNCHANGED <<options, work, blocked, parts, fresh, written>>

Ended == pc \in {"done", "failed", "killed"}

Signal ==
  /\ ~Ended /\ ~blocked
  /\ Cleanup
  /\ pc' = "killed"
  /\ UNCHANGED <<options, work, blocked, parts, fresh, written>>

Steps ==
  \/ CreateTemp \/ LinkTemp
  \/ SortBuffer \/ WriteBuffer
  \/ Pass \/ FullMerge \/ ShortMerge \/ EndPass \/ MergeFiles
  \/ UnlinkTemp \/ UnlistTemp \/ EndMerge
  \/ Avoid \/ EndCopy
  \/ MergeToOutput \/ NotAllOpen \/ CloseOne \/ EndRetreat \/ EndOutput
  \/ Fail \/ ExitCleanup

Next == Steps \/ Signal

Spec == Init /\ [][Next]_vars
FairSpec == Spec /\ WF_vars(Steps)
------------------------------------------------------------------------------
(* However sort ends, no temporary file is left: not by a signal either,   *)
(* whenever it comes (create_temp_file, zaptemp, cleanup).                 *)
LeavesNoTemporaryFile == Ended => disk = {}

(* If sort succeeds, everything given is in the output, in the order that  *)
(* was given for lines that compare equal, once; even if a file given is   *)
(* the output file itself.                                                 *)
KeepsEverythingInOrder == pc = "done" => written = given

(* It comes to an end however few files can be opened. *)
Ends == <>Ended
===============================================================================
