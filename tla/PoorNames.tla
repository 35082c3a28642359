------------------------------ MODULE PoorNames ------------------------------
(***************************************************************************)
(* poornames.sh, run several times, perhaps at once and perhaps killed: a  *)
(* listing of the badly named files of a directory, collected in the file  *)
(* ~/output.txt that all runs share.  A directory does not change while it *)
(* is listed.                                                              *)
(***************************************************************************)
EXTENDS Naturals, Sequences, FiniteSets, Bags

CONSTANTS
  Runs,
  Operands,   (* sequences of operands                                     *)
  Dash,        (* an operand that starts with a dash                        *)
  Root, Here,  (* "/" and the directory the script is started in            *)
  TargetOf,    (* operand -> the directory that it names with a slash added *)
  NoDir, NoFile,
  Listing,     (* directory -> the names that ls -a prints                  *)
  Owned,       (* directories the user may chmod                            *)
  Readable,    (* directories that can be listed                            *)
  Enterable    (* directories that cd can enter                             *)

(***************************************************************************)
(* Of a name counts what the filters see: how it starts (".x" and "..x"    *)
(* are one and two dots and another character), whether it has a character *)
(* that is not allowed, whether it is longer than 14, and what it is in    *)
(* lower case.                                                             *)
(***************************************************************************)
Names ==
  [ start : {"x", "-", ".x", "..x", "...", "dots only"}, odd : BOOLEAN,
    long : BOOLEAN, lower : STRING ]

ASSUME ListingAssumption == \A d \in DOMAIN Listing : Listing[d] \subseteq Names

VARIABLES
  home,      (* the lines of ~/output.txt, or NoFile                        *)
  readable,  (* the directories that can be listed now                      *)
  run        (* of every run: pc, args, cwd; the next filter; appending,    *)
             (* whether the file it has open is still ~/output.txt; edited, *)
             (* what sed will put there; printed; alone, whether it started *)
             (* without a file and no other run was beside it (history)     *)

vars == <<home, readable, run>>

Ended == {"done", "failed", "killed"}

Init ==
  /\ home = NoFile
  /\ readable = Readable
  /\ \E a \in [Runs -> Operands] :
       run = [r \in Runs |->
                [pc |-> "idle", args |-> a[r], cwd |-> Here, filter |-> 1,
                 appending |-> FALSE, edited |-> EmptyBag, printed |-> {}, alone |-> FALSE]]

At(r, p) == run[r].pc = p
Active(r) == run[r].pc \notin {"idle"} \cup Ended
Path(r) == IF run[r].args = <<>> THEN Root ELSE Head(run[r].args)
Goto(r, p) == run' = [run EXCEPT ![r].pc = p]
------------------------------------------------------------------------------
Start(r) ==
  /\ At(r, "idle")
  /\ run' = [q \in Runs |->
       IF q = r
       THEN [run[r] EXCEPT !.pc = "check",
                           !.alone = home = NoFile /\ ~ \E p \in Runs : Active(p)]
       ELSE [run[q] EXCEPT !.alone = @ /\ ~ Active(q)]]
  /\ UNCHANGED <<home, readable>>

Refused(r) ==
  \/ Len(run[r].args) > 2
  \/ Path(r) = Dash
  \/ TargetOf[Path(r)] = NoDir

Reject(r) ==
  /\ At(r, "check")
  /\ Refused(r)
  /\ Goto(r, "failed")
  /\ UNCHANGED <<home, readable>>

(* chmod, if it is needed, and cd: whether either fails is not looked at.   *)
Enter(r) ==
  LET d == TargetOf[Path(r)]
  IN  /\ At(r, "check")
      /\ ~ Refused(r)
      /\ readable' = readable \cup ({d} \cap Owned)
      /\ run' = [run EXCEPT ![r].pc = "touch", ![r].cwd = IF d \in Enterable THEN d ELSE @]
      /\ UNCHANGED home

Truncated == EmptyBag
Created == IF home = NoFile THEN EmptyBag ELSE home

Touch(r) ==
  /\ At(r, "touch")
  /\ home' = Created
  /\ Goto(r, "open")
  /\ UNCHANGED readable
------------------------------------------------------------------------------
FitsLength(n) == ~ n.long
TooLong(n) == n.long

(* The names that filter number i lists; the last one is uniq -iD, in a     *)
(* locale that sorts names that differ only in case together.               *)
Listed(i, names) ==
  CASE i = 1 -> { n \in names : n.odd }
    [] i = 2 -> { n \in names : n.start = "-" }
    [] i = 3 -> { n \in names : n.start = ".x" }
    [] i = 4 -> { n \in names : n.start = "..x" }
    [] i = 5 -> { n \in names : TooLong(n) }
    [] i = 6 -> { n \in names : \E m \in names \ {n} : m.lower = n.lower }

LastFilter == 6

(* The shell opens the file for a filter ...                                *)
Open(r) ==
  /\ At(r, "open")
  /\ home' = Created
  /\ run' = [run EXCEPT ![r].pc = "append", ![r].appending = TRUE]
  /\ UNCHANGED readable

Line(name) == [under |-> <<>>, name |-> name]

(* ... and the filter writes what it lists, be it to a file that is no      *)
(* longer there.                                                            *)
AppendListed(r) ==
  LET names == IF run[r].cwd \in readable THEN Listing[run[r].cwd] ELSE {}
  IN  /\ At(r, "append")
      /\ home' = IF run[r].appending
                 THEN home (+) SetToBag({ Line(n) : n \in Listed(run[r].filter, names) })
                 ELSE home
      /\ run' = [run EXCEPT ![r].appending = FALSE,
                            ![r].filter = @ + 1,
                            ![r].pc = IF run[r].filter < LastFilter THEN "open" ELSE "sed"]
      /\ UNCHANGED readable

Under(path, line) == [line EXCEPT !.under = <<path>> \o @]

(* No two lines of a file become one under the same path.                   *)
Prefixed(path, file) ==
  [ l \in { Under(path, line) : line \in BagToSet(file) } |->
      file[CHOOSE line \in BagToSet(file) : Under(path, line) = l] ]

SedReads(r) ==
  /\ At(r, "sed")
  /\ IF home = NoFile
     THEN Goto(r, "sort")
     ELSE run' = [run EXCEPT ![r].pc = "rename", ![r].edited = Prefixed(Path(r), home)]
  /\ UNCHANGED <<home, readable>>

(* The file that was there is there no longer, whoever had it open.         *)
Detached == [q \in Runs |-> [run[q] EXCEPT !.appending = FALSE]]

SedRenames(r) ==
  /\ At(r, "rename")
  /\ home' = run[r].edited
  /\ run' = [Detached EXCEPT ![r].pc = "sort", ![r].edited = EmptyBag]
  /\ UNCHANGED readable

Sort(r) ==
  /\ At(r, "sort")
  /\ run' = [run EXCEPT ![r].pc = "rm", ![r].printed =
       IF home = NoFile THEN {} ELSE { l \in BagToSet(home) : home[l] = 1 }]
  /\ UNCHANGED <<home, readable>>

KeptIfNothingPrinted(r) == IF run[r].printed = {} THEN home ELSE NoFile
Removed(r) == NoFile

RemoveFile(r) ==
  /\ At(r, "rm")
  /\ home' = Removed(r)
  /\ run' = [Detached EXCEPT ![r].pc = "done"]
  /\ UNCHANGED readable

Kill(r) ==
  /\ Active(r)
  /\ run' = [run EXCEPT ![r].pc = "killed", ![r].appending = FALSE]
  /\ UNCHANGED <<home, readable>>

Step(r) ==
  \/ Reject(r) \/ Enter(r) \/ Touch(r) \/ Open(r) \/ AppendListed(r)
  \/ SedReads(r) \/ SedRenames(r) \/ Sort(r) \/ RemoveFile(r)

Next == \E r \in Runs : Start(r) \/ Step(r) \/ Kill(r)

Spec == Init /\ [][Next]_vars
------------------------------------------------------------------------------
(* How many filters list n, which is one of names                           *)
Faults(n, names) == Cardinality({ i \in 1..6 : n \in Listed(i, names) })

(***************************************************************************)
(* What a run that starts without a file and has no other run beside it    *)
(* has printed when it comes to rm is, of the directory it is in, the      *)
(* names that exactly one filter lists, under its operand.                 *)
(***************************************************************************)
PrintsWhatOneFilterLists ==
  \A r \in Runs :
    At(r, "rm") /\ run[r].alone =>
      run[r].printed =
        { Under(Path(r), Line(n)) :
            n \in { m \in Listing[run[r].cwd] : run[r].cwd \in readable
                                            /\ Faults(m, Listing[run[r].cwd]) = 1 } }

(* The guidelines of the assignment that n breaks                           *)
Breaks(n, names) ==
  { g \in {"characters", "dash", "dot", "length", "case"} :
      CASE g = "characters" -> n.odd
        [] g = "dash" -> n.start = "-"
        [] g = "dot" -> n.start \in {".x", "..x", "..."}
        [] g = "length" -> n.long
        [] g = "case" -> \E m \in names : m # n /\ m.lower = n.lower }

(***************************************************************************)
(* However runs overlap or are killed, what is printed is the name of a    *)
(* file that breaks a guideline in the directory of some run.              *)
(***************************************************************************)
PrintsOnlyPoorNames ==
  \A r \in Runs : \A line \in run[r].printed :
    \E q \in Runs : line.name \in Listing[run[q].cwd] /\ Breaks(line.name, Listing[run[q].cwd]) # {}

(* When all runs have ended, and none was killed, no file is left.          *)
LeavesNoFile ==
  (\A r \in Runs : run[r].pc \in {"idle", "done", "failed"}) => home = NoFile

(***************************************************************************)
(* site_html.txt: a line is printed for a file "if and only if" its name   *)
(* does not follow the guidelines.  Expected to be violated: uniq -u drops *)
(* the names that two filters list.                                        *)
(***************************************************************************)
PrintsThePoorNames ==
  \A r \in Runs :
    At(r, "done") /\ run[r].alone /\ run[r].cwd \in readable /\ run[r].cwd \in Enterable =>
      { line.name : line \in run[r].printed } =
        { n \in Listing[run[r].cwd] : Breaks(n, Listing[run[r].cwd]) # {} }
==============================================================================
