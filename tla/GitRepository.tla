---------------------------- MODULE GitRepository ----------------------------
(***************************************************************************)
(* The repository topo_order_commits.py reads, and git at work in it.  Git *)
(* is not part of src/: this module keeps what the script's system calls   *)
(* can tell apart, and the steps of git that change it while they run:     *)
(* writing an object, updating or deleting a branch, and gc.               *)
(***************************************************************************)
EXTENDS Naturals, Sequences, FiniteSets

CONSTANTS
  Hash,         (* The hashes of the objects the repository may hold.       *)
  Foreign,      (* A hash that names no object of the repository.           *)
  DirOf,        (* hash -> the fan-out directory of its loose object.       *)
  Branch,       (* The branch names.                                        *)
  Repositories, (* What the repository can be when the script starts.       *)
  Contents,     (* What an object written meanwhile can hold.               *)
  MaxGitSteps   (* Bound: the steps git takes while the script reads.       *)

NoHash == 0     (* an empty file where a hash should be                     *)

(* A hash is a number, as in CommitOrder.                                   *)
ASSUME HashAssumption ==
  /\ Hash \subseteq Nat /\ IsFiniteSet(Hash)
  /\ Foreign \in Nat \ Hash
  /\ NoHash \notin Hash \cup {Foreign}

ObjectKinds == {"commit", "commit, not UTF-8", "other"}

(* What the hash of an object is computed from: its parents, and whatever   *)
(* its message mentions                                                     *)
Covered(object) ==
  { object.parents[i] : i \in DOMAIN object.parents }
    \cup { object.mentions[i] : i \in DOMAIN object.mentions }

(* A repository is sound: the parents of its objects and the branches are   *)
(* commits it holds.  A hash that is mentioned is of an object it holds, or *)
(* of none at all, and no object covers itself, be it through others: its   *)
(* hash would have to be known before it.  No fan-out directory has the     *)
(* name of the packs'.                                                      *)
ASSUME RepositoryAssumption ==
  /\ \A h \in Hash : DirOf[h] # "pack"
  /\ \A content \in Contents :
       /\ content.kind \in ObjectKinds
       /\ content.parents \in Seq(Hash)
       /\ content.mentions \in Seq(Hash \cup {Foreign})
  /\ \A r \in Repositories :
       LET commits == { h \in DOMAIN r.objects : r.objects[h].kind # "other" }
       IN /\ DOMAIN r.objects \subseteq Hash
          /\ \A h \in DOMAIN r.objects :
               /\ r.objects[h].kind \in ObjectKinds
               /\ r.objects[h].parents \in Seq(commits)
               /\ r.objects[h].mentions \in Seq(DOMAIN r.objects \cup {Foreign})
          /\ \A S \in SUBSET DOMAIN r.objects :
               S # {} => \E h \in S : Covered(r.objects[h]) \cap S = {}
          /\ DOMAIN r.refs \subseteq Branch
          /\ \A b \in DOMAIN r.refs : r.refs[b] \in commits

VARIABLES
  repo,         (* what is on disk                                          *)
  original,     (* repo.refs as it was at the start (history)               *)
  happened,     (* the kinds of steps git has taken since then (history)    *)
  gitSteps      (* how many                                                 *)

git == <<repo, original, happened, gitSteps>>

(***************************************************************************)
(* repo.objects : every object ever written, hash -> [kind, parents,       *)
(*                mentions]; mentions are what a commit message has in the *)
(*                form "parent <40 digits>"                                *)
(* repo.loose   : the hashes whose loose file exists                       *)
(* repo.dirs    : the fan-out directories that exist                       *)
(* repo.temp    : temporary files, hash -> "partial" or "complete"         *)
(* repo.packs   : whether objects/pack or objects/info holds a file        *)
(* repo.packed  : the hashes in packs                                      *)
(* repo.refs    : the files in refs/heads, branch -> hash                  *)
(* repo.locks   : the .lock files next to them, branch -> hash or NoHash   *)
(* repo.nested  : whether refs/heads has a subdirectory (a branch a/b)     *)
(***************************************************************************)
Without(f, x) == [y \in DOMAIN f \ {x} |-> f[y]]
With(f, x, v) == [y \in DOMAIN f \cup {x} |-> IF y = x THEN v ELSE f[y]]

GitInit ==
  /\ \E r \in Repositories :
       repo = [objects |-> r.objects,
               loose   |-> DOMAIN r.objects,
               dirs    |-> { DirOf[h] : h \in DOMAIN r.objects },
               temp    |-> [h \in {} |-> "none"],
               packs   |-> r.packs,
               packed  |-> {},
               refs    |-> r.refs,
               locks   |-> [b \in {} |-> NoHash],
               nested  |-> r.nested]
  /\ original = repo.refs
  /\ happened = {}
  /\ gitSteps = 0

Commits == { h \in repo.loose \cup repo.packed : repo.objects[h].kind # "other" }

Step(kind) ==
  /\ gitSteps < MaxGitSteps
  /\ gitSteps' = gitSteps + 1
  /\ happened' = happened \cup {kind}
  /\ UNCHANGED original
------------------------------------------------------------------------------
(* An object is written to a temporary file that is renamed when complete.  *)
CreateObject(h) ==
  /\ h \notin DOMAIN repo.objects
  /\ \E content \in Contents :
       /\ { content.parents[i] : i \in DOMAIN content.parents } \subseteq Commits
       /\ { content.mentions[i] : i \in DOMAIN content.mentions }
            \subseteq Commits \cup {Foreign}
       /\ repo' = [repo EXCEPT !.objects = With(@, h, content),
                               !.temp    = With(@, h, "partial"),
                               !.dirs    = @ \cup {DirOf[h]}]
  /\ Step("write")

CompleteObject(h) ==
  /\ h \in DOMAIN repo.temp
  /\ repo.temp[h] = "partial"
  /\ repo' = [repo EXCEPT !.temp[h] = "complete"]
  /\ Step("write")

RenameObject(h) ==
  /\ h \in DOMAIN repo.temp
  /\ repo.temp[h] = "complete"
  /\ repo' = [repo EXCEPT !.temp  = Without(@, h),
                          !.loose = @ \cup {h}]
  /\ Step("write")

(* A branch is changed by writing its lock file and renaming it.            *)
LockBranch(b) ==
  /\ b \notin DOMAIN repo.locks
  /\ repo' = [repo EXCEPT !.locks = With(@, b, NoHash)]
  /\ Step("update")

WriteLock(b, h) ==
  /\ b \in DOMAIN repo.locks
  /\ repo.locks[b] = NoHash
  /\ h \in Commits
  /\ repo' = [repo EXCEPT !.locks[b] = h]
  /\ Step("update")

RenameLock(b) ==
  /\ b \in DOMAIN repo.locks
  /\ repo.locks[b] # NoHash
  /\ repo' = [repo EXCEPT !.refs  = With(@, b, repo.locks[b]),
                          !.locks = Without(@, b)]
  /\ Step("update")

(* A branch is deleted under its lock, which is then dropped.               *)
DeleteBranch(b) ==
  /\ b \in DOMAIN repo.locks \cap DOMAIN repo.refs
  /\ repo.locks[b] = NoHash
  /\ repo' = [repo EXCEPT !.refs = Without(@, b)]
  /\ Step("delete")

DropLock(b) ==
  /\ b \in DOMAIN repo.locks
  /\ repo' = [repo EXCEPT !.locks = Without(@, b)]
  /\ Step("update")

(* gc moves branches to packed-refs and loose objects to a pack, and        *)
(* removes the directories it has emptied.                                  *)
PackBranch(b) ==
  /\ b \in DOMAIN repo.refs \ DOMAIN repo.locks
  /\ repo' = [repo EXCEPT !.refs = Without(@, b)]
  /\ Step("gc")

PackObjects ==
  /\ repo' = [repo EXCEPT !.packs = TRUE, !.packed = @ \cup repo.loose]
  /\ Step("gc")

PruneObject(h) ==
  /\ h \in repo.loose \cap repo.packed
  /\ repo' = [repo EXCEPT !.loose = @ \ {h}]
  /\ Step("gc")

RemoveDirectory(d) ==
  /\ d \in repo.dirs
  /\ \A h \in repo.loose \cup DOMAIN repo.temp : DirOf[h] # d
  /\ repo' = [repo EXCEPT !.dirs = @ \ {d}]
  /\ Step("gc")

GitNext ==
  \/ \E h \in Hash : \/ CreateObject(h) \/ CompleteObject(h) \/ RenameObject(h)
                     \/ PruneObject(h)
  \/ \E b \in Branch : \/ LockBranch(b) \/ RenameLock(b) \/ DeleteBranch(b)
                       \/ DropLock(b) \/ PackBranch(b)
                       \/ \E h \in Hash : WriteLock(b, h)
  \/ PackObjects
  \/ \E d \in repo.dirs : RemoveDirectory(d)
------------------------------------------------------------------------------
(* What the system calls of the script see.                                 *)

(* os.listdir of refs/heads, and the first line of an entry                 *)
RefEntries ==
  { <<"branch", b>> : b \in DOMAIN repo.refs }
    \cup { <<"lock", b>> : b \in DOMAIN repo.locks }
    \cup (IF repo.nested THEN {<<"directory", 0>>} ELSE {})

FirstLine(entry) ==
  IF entry[1] = "branch" THEN repo.refs[entry[2]] ELSE repo.locks[entry[2]]

(* os.listdir of objects; "pack" stands for pack and info, which always     *)
(* exist and never hold a loose object                                      *)
ObjectDirs == repo.dirs \cup {"pack"}

FilesIn(d) ==
  IF d = "pack"
  THEN IF repo.packs THEN {<<"pack", 0>>} ELSE {}
  ELSE { <<"object", h>> : h \in { l \in repo.loose : DirOf[l] = d } }
         \cup { <<"temp", h>> : h \in { w \in DOMAIN repo.temp : DirOf[w] = d } }

ContentOf(file) == repo.objects[file[2]]

(* zlib.decompress: neither a pack nor a half-written file is a zlib stream *)
Decompresses(file) ==
  /\ file[1] # "pack"
  /\ file[1] = "temp" => repo.temp[file[2]] = "complete"
==============================================================================
