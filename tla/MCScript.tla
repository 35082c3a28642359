------------------------------- MODULE MCScript -------------------------------
(***************************************************************************)
(* Instances of TopoOrderCommits: small repositories read while git works. *)
(***************************************************************************)
EXTENDS TopoOrderCommits

CONSTANT FewGitSteps   (* Bound: git's steps but in the busy repository.    *)

MCDirOf == [h \in Hash |-> IF h = 2 THEN "d2" ELSE "d1"]

Commit(p, m) == [kind |-> "commit", parents |-> p, mentions |-> m]
Blob == [kind |-> "other", parents |-> <<>>, mentions |-> <<>>]
Root == Commit(<<>>, <<>>)
Latin1 == [kind |-> "commit, not UTF-8", parents |-> <<1>>, mentions |-> <<>>]

CommitsOf(objects) == { h \in DOMAIN objects : objects[h].kind = "commit" }

RepositoriesWith(objects) ==
  { [objects |-> objects, refs |-> r, nested |-> FALSE, packs |-> FALSE] :
      r \in {[b \in {} |-> 0]} \cup [Branch -> CommitsOf(objects)] }

ManyRepositories ==
  UNION { RepositoriesWith(o) :
            o \in { <<Root, Commit(<<1>>, <<>>)>>,
                    <<Root, Commit(<<>>, <<1>>)>>,
                    <<Root, Commit(<<1>>, <<Foreign>>)>>,
                    <<Root, Blob, Commit(<<1>>, <<2>>)>>,
                    <<Root, Commit(<<1>>, <<>>), Commit(<<2, 1>>, <<>>)>>,
                    <<Root, Root, Commit(<<1, 2>>, <<>>)>> } }

(* No branch, a branch a/b, an old pack, no object, a commit that is not    *)
(* UTF-8.                                                                   *)
OddRepositories ==
  { [objects |-> <<Root, Latin1>>, refs |-> r, nested |-> n, packs |-> p] :
      r \in {<<>>, <<1>>}, n \in BOOLEAN, p \in BOOLEAN }
  \cup { [objects |-> <<>>, refs |-> <<>>, nested |-> FALSE, packs |-> FALSE] }

(* One branch on two commits: here git has the time to write a commit, point *)
(* the branch at it, and pack or delete what is there.                      *)
BusyRepository ==
  [objects |-> <<Root, Commit(<<1>>, <<>>)>>, refs |-> <<2>>, nested |-> FALSE,
   packs |-> FALSE]

MCRepositories == ManyRepositories \cup OddRepositories \cup {BusyRepository}

MCContents == { Commit(<<2>>, <<>>), Blob }

(* Every repository with a search that ends at once; every search with the  *)
(* repository that holds nothing.                                           *)
MCInit ==
  /\ Init
  /\ repo.objects # <<>> =>
       start = 1 /\ entries = [d \in 1..MaxDepth |-> "directory"]

(* Git goes on in the busy repository, with commits and its one branch.     *)
MCNext ==
  /\ Next
  /\ gitSteps' > FewGitSteps =>
       /\ original = BusyRepository.refs
       /\ DOMAIN repo'.refs \cup DOMAIN repo'.locks \subseteq {1}
       /\ \A h \in DOMAIN repo'.objects : repo'.objects[h].kind = "commit"

MCSpec == MCInit /\ [][MCNext]_allVars /\ WF_allVars(ScriptNext)
===============================================================================
