----------------------------- MODULE CommitLoader -----------------------------
(***************************************************************************)
(* The reading half of topo_order_commits.py (lines 17-49): the branches   *)
(* in .git/refs/heads, then every file below .git/objects, while git may   *)
(* be at work in the same repository.                                      *)
(*                                                                         *)
(* The script lists a directory once and opens the listed files afterwards *)
(* one by one, in whatever order os.listdir gave.  Every listing and every *)
(* opening is a step of its own; git may take steps in between.            *)
(***************************************************************************)
EXTENDS GitRepository

VARIABLES
  stage,              (* where the script is                                *)
  refsTodo,           (* listed entries of refs/heads, not opened yet       *)
  names,              (* the branch names, in the order they were read      *)
  heads,              (* their hashes: with names, what                     *)
                      (* dict_of_branch_hashes holds                        *)
  listOfHashes,       (* list_of_hashes                                     *)
  dirsTodo,           (* listed entries of objects, not listed themselves   *)
  directory,          (* directory                                          *)
  filesTodo,          (* its listed entries, not opened yet                 *)
  dictOfParentHashes  (* dict_of_parent_hashes                              *)

loader == <<stage, refsTodo, names, heads, listOfHashes, dirsTodo, directory,
            filesTodo, dictOfParentHashes>>
loaderVars == <<loader, git>>

(* The branches are read before the objects.                                *)
ObjectsBeforeRefs ==
  [start |-> "listObjects", refs |-> "loaded", objects |-> "listRefs"]
Following ==
  [start |-> "listRefs", refs |-> "listObjects", objects |-> "loaded"]

LoaderInit ==
  /\ GitInit
  /\ stage = Following.start
  /\ refsTodo = {}
  /\ names = <<>>
  /\ heads = <<>>
  /\ listOfHashes = <<>>
  /\ dirsTodo = {}
  /\ directory = "pack"
  /\ filesTodo = {}
  /\ dictOfParentHashes = [h \in {} |-> <<>>]
------------------------------------------------------------------------------
(* for curr_branch in os.listdir(path_of_refs)                              *)
ListRefs ==
  /\ stage = "listRefs"
  /\ refsTodo' = RefEntries
  /\ stage' = "readRefs"
  /\ UNCHANGED <<git, names, heads, listOfHashes, dirsTodo, directory,
                 filesTodo, dictOfParentHashes>>

ReadOff(entry) == refsTodo \ {entry}

(* open(...).readline(): a lock file is read like a branch                  *)
ReadRef ==
  /\ stage = "readRefs"
  /\ \E entry \in refsTodo :
       /\ entry \in RefEntries
       /\ entry[1] # "directory"
       /\ refsTodo' = ReadOff(entry)
       /\ names' = Append(names, entry)
       /\ heads' = Append(heads, FirstLine(entry))
       /\ listOfHashes' = Append(listOfHashes, FirstLine(entry))
  /\ UNCHANGED <<git, stage, dirsTodo, directory, filesTodo,
                 dictOfParentHashes>>

(* open raises: the file is gone, or it is a directory                      *)
RefsError ==
  /\ stage = "readRefs"
  /\ \E entry \in refsTodo : entry \notin RefEntries \/ entry[1] = "directory"
  /\ stage' = "refsError"
  /\ UNCHANGED <<git, refsTodo, names, heads, listOfHashes, dirsTodo, directory,
                 filesTodo, dictOfParentHashes>>

EndRefs ==
  /\ stage = "readRefs"
  /\ refsTodo = {}
  /\ stage' = Following.refs
  /\ UNCHANGED <<git, refsTodo, names, heads, listOfHashes, dirsTodo, directory,
                 filesTodo, dictOfParentHashes>>

(* for directory in os.listdir(path_of_objects)                             *)
ListObjects ==
  /\ stage = "listObjects"
  /\ dirsTodo' = ObjectDirs
  /\ stage' = "listFiles"
  /\ UNCHANGED <<git, refsTodo, names, heads, listOfHashes, directory,
                 filesTodo, dictOfParentHashes>>

DirsLeft(d) == dirsTodo \ {d}

(* for curr_hash in os.listdir(os.path.join(path_of_objects, directory))    *)
ListFiles ==
  /\ stage = "listFiles"
  /\ \E d \in dirsTodo :
       /\ d \in ObjectDirs
       /\ directory' = d
       /\ filesTodo' = FilesIn(d)
       /\ dirsTodo' = DirsLeft(d)
  /\ stage' = "readFiles"
  /\ UNCHANGED <<git, refsTodo, names, heads, listOfHashes, dictOfParentHashes>>

(* open of the path built from the directory and the file name              *)
OpensWithoutDirectory(file) == file \in { <<d, 0>> : d \in ObjectDirs }
Opens(file) == file \in FilesIn(directory)

(* decompressed.decode() fails on a commit that is not UTF-8; other objects *)
(* are not decoded.                                                         *)
Parses(file) ==
  Decompresses(file) /\ ContentOf(file).kind # "commit, not UTF-8"

(* re.findall(r'parent\s\w{40}', ...) finds the parents, and after them     *)
(* whatever the message has in that form; the last 40 characters of each    *)
(* match are the hash.                                                      *)
ParentsList(file) == ContentOf(file).parents \o ContentOf(file).mentions

(* A temporary file is read under a name that is no hash: nobody asks for   *)
(* its entry.                                                               *)
IsCommit(file) == file[1] = "object" /\ ContentOf(file).kind = "commit"

(* directory + curr_hash                                                    *)
Key(file) == file[2]

ReadFile ==
  /\ stage = "readFiles"
  /\ \E file \in filesTodo :
       /\ Opens(file)
       /\ Parses(file)
       /\ filesTodo' = filesTodo \ {file}
       /\ dictOfParentHashes' =
            IF IsCommit(file)
            THEN With(dictOfParentHashes, Key(file), ParentsList(file))
            ELSE dictOfParentHashes
  /\ UNCHANGED <<git, stage, refsTodo, names, heads, listOfHashes, dirsTodo,
                 directory>>

EndFiles ==
  /\ stage = "readFiles"
  /\ filesTodo = {}
  /\ stage' = "listFiles"
  /\ UNCHANGED <<git, refsTodo, names, heads, listOfHashes, dirsTodo, directory,
                 filesTodo, dictOfParentHashes>>

(* os.listdir or open raises because it is gone, or the file does not parse *)
ObjectsError ==
  /\ \/ stage = "listFiles" /\ ~ (dirsTodo \subseteq ObjectDirs)
     \/ /\ stage = "readFiles"
        /\ \E file \in filesTodo : ~ (Opens(file) /\ Parses(file))
  /\ stage' = "objectsError"
  /\ UNCHANGED <<git, refsTodo, names, heads, listOfHashes, dirsTodo, directory,
                 filesTodo, dictOfParentHashes>>

EndObjects ==
  /\ stage = "listFiles"
  /\ dirsTodo = {}
  /\ stage' = Following.objects
  /\ UNCHANGED <<git, refsTodo, names, heads, listOfHashes, dirsTodo, directory,
                 filesTodo, dictOfParentHashes>>

LoaderNext ==
  \/ ListRefs \/ ReadRef \/ RefsError \/ EndRefs
  \/ ListObjects \/ ListFiles \/ ReadFile \/ EndFiles \/ ObjectsError
  \/ EndObjects

Reading == stage \notin {"loaded", "noRefs", "refsError", "objectsError"}

LoaderSpec ==
  LoaderInit /\ [][LoaderNext \/ (Reading /\ GitNext /\ UNCHANGED loader)]_loaderVars
------------------------------------------------------------------------------
(* The commits a hash stands for: itself, its parents, and so on.           *)
RealParents(h) ==
  { repo.objects[h].parents[i] : i \in DOMAIN repo.objects[h].parents }

RealAncestry(h) ==
  { c \in Hash :
      \A S \in SUBSET DOMAIN repo.objects :
        h \in S /\ (\A d \in S : RealParents(d) \subseteq S) => c \in S }

(***************************************************************************)
(* Git writes an object before it points a branch at it, and the script    *)
(* reads the branches before the objects; so, however commits and branch   *)
(* updates interleave with the reading, every commit of every branch it    *)
(* has read is in the table.  Only gc takes objects away.                  *)
(***************************************************************************)
TableCoversHeads ==
  stage = "loaded" /\ "gc" \notin happened =>
    \A i \in DOMAIN heads :
      heads[i] # NoHash => RealAncestry(heads[i]) \subseteq DOMAIN dictOfParentHashes

(***************************************************************************)
(* Reading fails only for a reason: branches because of a branch in a      *)
(* subdirectory, or of git changing branches meanwhile; objects because of *)
(* packs, of a commit that is not UTF-8, or of git writing objects or      *)
(* collecting garbage meanwhile.  Git only reading, nothing can go wrong.  *)
(***************************************************************************)
ErrorsHaveCauses ==
  /\ stage = "refsError" =>
       repo.nested \/ happened \cap {"update", "delete", "gc"} # {}
  /\ stage = "objectsError" =>
       \/ repo.packs
       \/ \E h \in DOMAIN repo.objects : repo.objects[h].kind = "commit, not UTF-8"
       \/ happened \cap {"write", "gc"} # {}
==============================================================================
