----------------------------- MODULE FindGitRepo -----------------------------
(***************************************************************************)
(* find_git_repo() of topo_order_commits.py (lines 128-143): from the      *)
(* working directory upwards to the first directory with an entry ".git".  *)
(* A directory is its depth below "/", which has depth 0.                  *)
(***************************************************************************)
EXTENDS Naturals

CONSTANTS
  MaxDepth, (* Bound: the depth of the deepest working directory.           *)
  Kinds     (* What ".git" can be in a directory: "none", "directory", or   *)
            (* "file" (a linked worktree or a submodule).                   *)

ASSUME DepthAssumption == MaxDepth \in Nat

VARIABLES
  searching, (* "yes" in the loop, then "found" or "exit"                   *)
  cwd,       (* os.getcwd()                                                 *)
  start,     (* the directory the script was started in (history)           *)
  entries    (* depth -> what ".git" is there; "/" itself does not matter   *)

searchVars == <<searching, cwd, start, entries>>

SearchInit ==
  /\ searching = "yes"
  /\ cwd \in 0..MaxDepth
  /\ start = cwd
  /\ entries \in [1..MaxDepth -> Kinds]

(* One of the entries is '.git', whatever it is.                            *)
IsRepository(d) == entries[d] = "directory"
HasEntry(d) == entries[d] # "none"

(* os.chdir('..')                                                           *)
Above(d) == d - 1

Find ==
  /\ searching = "yes"
  /\ cwd # 0
  /\ HasEntry(cwd)
  /\ searching' = "found"
  /\ UNCHANGED <<cwd, start, entries>>

GoUp ==
  /\ searching = "yes"
  /\ cwd # 0
  /\ ~ HasEntry(cwd)
  /\ cwd' = Above(cwd)
  /\ UNCHANGED <<searching, start, entries>>

(* sys.exit: the loop stops at "/" without looking there                    *)
GiveUp ==
  /\ searching = "yes"
  /\ cwd = 0
  /\ searching' = "exit"
  /\ UNCHANGED <<cwd, start, entries>>

SearchNext == Find \/ GoUp \/ GiveUp
------------------------------------------------------------------------------
(***************************************************************************)
(* The search ends in the innermost directory below "/" that has an entry  *)
(* ".git", and gives up only if there is none.                             *)
(***************************************************************************)
FindsInnermost ==
  /\ \A d \in (cwd + 1)..start : entries[d] = "none"
  /\ searching = "found" => cwd > 0 /\ entries[cwd] # "none"
  /\ searching = "exit"  => cwd = 0
==============================================================================
