--------------------------- MODULE TopoOrderCommits ---------------------------
(***************************************************************************)
(* The whole script: find_git_repo, the reading of branches and objects,   *)
(* and the ordering and printing, with git at work until the last object   *)
(* is read.  dict_of_parent_hashes, list_of_hashes and the heads are what  *)
(* the two halves share.                                                   *)
(***************************************************************************)
EXTENDS CommitLoader, FindGitRepo

VARIABLES
  pc, stack, hasVisited, nodes, rootsFound, commits,
  orderedCommits, output                                 (* CommitOrder     *)

(* CommitOrder starts with nothing read.                                    *)
AnyHash == Hash \cup {NoHash, Foreign}

Order == INSTANCE CommitOrder WITH
           Commit    <- AnyHash,
           Histories <- {[h \in {} |-> <<>>]},
           HeadLists <- {<<>>}

orderVars  == <<pc, stack, hasVisited, nodes, rootsFound, commits,
                orderedCommits, output>>
allVars    == <<loaderVars, searchVars, orderVars>>

Init ==
  /\ SearchInit
  /\ LoaderInit
  /\ Order!Init
------------------------------------------------------------------------------
FindRepository ==
  /\ SearchNext
  /\ UNCHANGED <<loaderVars, orderVars>>

(* os.listdir('.git/refs/heads') raises if .git is a file.                  *)
NoRefsError ==
  /\ searching = "found"
  /\ entries[cwd] = "file"
  /\ stage = "listRefs"
  /\ stage' = "noRefs"
  /\ UNCHANGED <<git, refsTodo, names, heads, listOfHashes, dirsTodo, directory,
                 filesTodo, dictOfParentHashes, searchVars, orderVars>>

LoadHistory ==
  /\ searching = "found"
  /\ entries[cwd] = "directory"
  /\ LoaderNext
  /\ UNCHANGED <<searchVars, orderVars>>

OrderAndPrint ==
  /\ stage = "loaded"
  /\ Order!Next
  /\ UNCHANGED <<git, stage, refsTodo, names, dirsTodo, directory, filesTodo,
                 searchVars>>

ScriptNext == FindRepository \/ NoRefsError \/ LoadHistory \/ OrderAndPrint

GitAtWork ==
  /\ searching # "exit"
  /\ Reading
  /\ GitNext
  /\ UNCHANGED <<loader, searchVars, orderVars>>

Next == ScriptNext \/ GitAtWork

Spec == Init /\ [][Next]_allVars /\ WF_allVars(ScriptNext)
------------------------------------------------------------------------------
(***************************************************************************)
(* What the script takes for the parents of a commit, and what it can      *)
(* reach that way from the branches as they were at the start.             *)
(***************************************************************************)
SeenParents(h) ==
  IF h \in DOMAIN repo.objects /\ repo.objects[h].kind = "commit"
  THEN Covered(repo.objects[h])
  ELSE {}

SeenAncestry(h) ==
  { c \in AnyHash :
      \A S \in SUBSET AnyHash :
        h \in S /\ (\A d \in S : SeenParents(d) \subseteq S) => c \in S }

OriginalHeads == { original[b] : b \in DOMAIN original }
SeenCommits   == UNION { SeenAncestry(h) : h \in OriginalHeads }

ReadableCommits == { h \in DOMAIN repo.objects : repo.objects[h].kind = "commit" }

LoneRoot ==
  \E h \in OriginalHeads :
    /\ SeenParents(h) = {}
    /\ \A g \in OriginalHeads \ {h} : h \notin SeenAncestry(g)

(***************************************************************************)
(* If git only writes objects meanwhile, the second half dies exactly when *)
(* the repository has no branch in refs/heads, a commit mentions something *)
(* that is not one of its commits, or a root commit is a branch of its own.*)
(***************************************************************************)
DiesOnlyOf ==
  /\ pc = "crash" /\ happened \subseteq {"write"} =>
       \/ OriginalHeads = {}
       \/ ~ (SeenCommits \subseteq ReadableCommits)
       \/ LoneRoot
  /\ pc = "done" /\ happened \subseteq {"write"} =>
       /\ OriginalHeads # {}
       /\ SeenCommits \subseteq ReadableCommits
       /\ ~ LoneRoot

(***************************************************************************)
(* A branch that is there all the time is on exactly one line of the       *)
(* output, next to the hash it had unless branches were changed meanwhile. *)
(***************************************************************************)
LinesNaming(b) ==
  { i \in Order!Printed : \E n \in output[i].set : names[n] = <<"branch", b>> }

BranchesPrinted ==
  pc = "done" /\ happened \cap {"delete", "gc"} = {} =>
    \A b \in DOMAIN original :
      \E i \in Order!Printed :
        /\ LinesNaming(b) = {i}
        /\ "update" \notin happened => output[i].commit = original[b]

(* The script stops, whatever git does meanwhile.                           *)
Ended ==
  \/ searching = "exit"
  \/ stage \in {"noRefs", "refsError", "objectsError"}
  \/ pc \in {"done", "crash"}

Ends == <>Ended
==============================================================================
