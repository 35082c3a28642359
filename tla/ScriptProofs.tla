----------------------------- MODULE ScriptProofs -----------------------------
(***************************************************************************)
(* Theorems about the whole script, for every sound repository, and        *)
(* however git's steps and the script's interleave: where the search ends, *)
(* what the table holds when the reading is over, why the reading may      *)
(* fail, and, with the theorems about the ordering, why the rest may die   *)
(* and where it prints a branch.                                           *)
(***************************************************************************)
EXTENDS TopoOrderCommits, SequenceTheorems, FiniteSetTheorems, TLAPS

------------------------------------------------------------------------------
(* The search.  No other step touches its variables.                        *)
SearchInv ==
  /\ cwd \in Nat /\ start \in Nat
  /\ cwd <= start
  /\ FindsInnermost

(* A step of the search keeps that.                                         *)
LEMMA SearchStep ==
  ASSUME SearchInv, SearchNext
  PROVE  SearchInv'
<1>1. CASE Find
  BY <1>1 DEF Find, HasEntry, SearchInv, FindsInnermost
<1>2. CASE GiveUp
  BY <1>2 DEF GiveUp, SearchInv, FindsInnermost
<1>3. CASE GoUp
  <2>1. /\ cwd' = cwd - 1 /\ cwd' \in Nat /\ cwd' < start
        /\ searching' = "yes" /\ start' = start /\ entries' = entries
        /\ entries[cwd] = "none"
    BY <1>3 DEF GoUp, Above, HasEntry, SearchInv
  <2>2. ASSUME NEW d \in (cwd' + 1)..start  PROVE entries[d] = "none"
    <3>1. d = cwd \/ d \in (cwd + 1)..start
      BY <2>1, <2>2 DEF SearchInv
    <3> QED
      BY <2>1, <3>1 DEF SearchInv, FindsInnermost
  <2> QED
    BY <2>1, <2>2 DEF SearchInv, FindsInnermost
<1> QED
  BY <1>1, <1>2, <1>3 DEF SearchNext

(* Only the search moves the search.                                        *)
LEMMA SearchOnly == [Next]_allVars => SearchNext \/ UNCHANGED searchVars
  BY DEF Next, ScriptNext, FindRepository, NoRefsError, LoadHistory, OrderAndPrint,
         GitAtWork, allVars, searchVars

(***************************************************************************)
(* The search stops at the innermost directory with an entry .git, at any  *)
(* depth, and gives up only at "/" (lines 128-143).                        *)
(***************************************************************************)
THEOREM AlwaysFindsInnermost == Spec => []FindsInnermost
<1>1. Init => SearchInv
  BY DepthAssumption DEF Init, SearchInit, SearchInv, FindsInnermost
<1>2. SearchInv /\ [Next]_allVars => SearchInv'
  <2>1. SearchInv /\ UNCHANGED searchVars => SearchInv'
    BY DEF SearchInv, FindsInnermost, searchVars
  <2> QED
    BY <2>1, SearchStep, SearchOnly
<1>3. SearchInv => FindsInnermost
  BY DEF SearchInv
<1> QED
  BY <1>1, <1>2, <1>3, PTL DEF Spec

------------------------------------------------------------------------------
(* The disk, as git leaves it at every moment.                              *)

RepoFields ==
  {"objects", "loose", "dirs", "temp", "packs", "packed", "refs", "locks", "nested"}

(* What happened is not forgotten.                                          *)
Remembers(kind) == happened' = happened \cup {kind}

(* Git's steps by kind: each kind touches a part of the disk only.          *)
Writes(h) == CreateObject(h) \/ CompleteObject(h) \/ RenameObject(h)

Updates(b) ==
  \/ LockBranch(b) \/ RenameLock(b) \/ DropLock(b) \/ \E h \in Hash : WriteLock(b, h)

Collects ==
  \/ \E h \in Hash : PruneObject(h)
  \/ \E b \in Branch : PackBranch(b)
  \/ PackObjects
  \/ \E d \in repo.dirs : RemoveDirectory(d)

(* There is no other kind.                                                  *)
LEMMA GitKinds ==
  ASSUME GitNext
  PROVE  \/ \E h \in Hash : Writes(h)
         \/ \E b \in Branch : Updates(b) \/ DeleteBranch(b)
         \/ Collects
  BY DEF GitNext, Writes, Updates, Collects

(* Writing an object leaves the branches and the packs.                     *)
LEMMA WritesFacts ==
  ASSUME DOMAIN repo = RepoFields, NEW h \in Hash, Writes(h)
  PROVE  /\ Remembers("write")
         /\ DOMAIN repo' = RepoFields
         /\ repo'.refs = repo.refs /\ repo'.locks = repo.locks
         /\ repo'.nested = repo.nested /\ repo'.packs = repo.packs
         /\ repo'.packed = repo.packed
<1>1. CASE CreateObject(h)
  BY <1>1 DEF CreateObject, Step, Remembers, RepoFields
<1>2. CASE CompleteObject(h)
  BY <1>2 DEF CompleteObject, Step, Remembers, RepoFields
<1>3. CASE RenameObject(h)
  BY <1>3 DEF RenameObject, Step, Remembers, RepoFields
<1> QED
  BY <1>1, <1>2, <1>3 DEF Writes

(* What a step on branches leaves.                                          *)
ObjectsStay ==
  /\ DOMAIN repo' = RepoFields
  /\ repo'.objects = repo.objects /\ repo'.loose = repo.loose
  /\ repo'.dirs = repo.dirs /\ repo'.temp = repo.temp
  /\ repo'.packs = repo.packs /\ repo'.packed = repo.packed
  /\ repo'.nested = repo.nested

(* Updating a branch does, and is remembered;                               *)
LEMMA UpdatesFacts ==
  ASSUME DOMAIN repo = RepoFields, NEW b \in Branch, Updates(b)
  PROVE  Remembers("update") /\ ObjectsStay
<1>1. CASE LockBranch(b)
  BY <1>1 DEF LockBranch, Step, Remembers, RepoFields, ObjectsStay
<1>2. CASE RenameLock(b)
  BY <1>2 DEF RenameLock, Step, Remembers, RepoFields, ObjectsStay
<1>3. CASE DropLock(b)
  BY <1>3 DEF DropLock, Step, Remembers, RepoFields, ObjectsStay
<1>4. ASSUME NEW h \in Hash, WriteLock(b, h)  PROVE Remembers("update") /\ ObjectsStay
  BY <1>4 DEF WriteLock, Step, Remembers, RepoFields, ObjectsStay
<1> QED
  BY <1>1, <1>2, <1>3, <1>4 DEF Updates

(* so does deleting one;                                                    *)
LEMMA DeleteFacts ==
  ASSUME DOMAIN repo = RepoFields, NEW b \in Branch, DeleteBranch(b)
  PROVE  Remembers("delete") /\ ObjectsStay
  BY DEF DeleteBranch, Step, Remembers, RepoFields, ObjectsStay

(* gc may touch everything, and is remembered.                              *)
LEMMA CollectsFacts ==
  ASSUME DOMAIN repo = RepoFields, Collects
  PROVE  Remembers("gc") /\ DOMAIN repo' = RepoFields
<1>1. ASSUME NEW h \in Hash, PruneObject(h)  PROVE Remembers("gc") /\ DOMAIN repo' = RepoFields
  BY <1>1 DEF PruneObject, Step, Remembers, RepoFields
<1>2. ASSUME NEW b \in Branch, PackBranch(b)  PROVE Remembers("gc") /\ DOMAIN repo' = RepoFields
  BY <1>2 DEF PackBranch, Step, Remembers, RepoFields
<1>3. ASSUME PackObjects  PROVE Remembers("gc") /\ DOMAIN repo' = RepoFields
  BY <1>3 DEF PackObjects, Step, Remembers, RepoFields
<1>4. ASSUME NEW d \in repo.dirs, RemoveDirectory(d)  PROVE Remembers("gc") /\ DOMAIN repo' = RepoFields
  BY <1>4 DEF RemoveDirectory, Step, Remembers, RepoFields
<1> QED
  BY <1>1, <1>2, <1>3, <1>4 DEF Collects

(* Without gc, every loose object is where it can be found, and whatever    *)
(* names a commit names a loose one.                                        *)
DiskInv ==
  /\ DOMAIN repo = RepoFields
  /\ repo.packed = {}
  /\ DOMAIN repo.objects \subseteq Hash
  /\ repo.loose \subseteq DOMAIN repo.objects
  /\ DOMAIN repo.temp \subseteq DOMAIN repo.objects
  /\ \A h \in repo.loose \cup DOMAIN repo.temp : DirOf[h] \in repo.dirs
  /\ \A h \in DOMAIN repo.objects :
       /\ repo.objects[h].kind \in ObjectKinds
       /\ RealParents(h) \subseteq Commits
  /\ \A b \in DOMAIN repo.refs : repo.refs[b] \in Commits
  /\ \A b \in DOMAIN repo.locks : repo.locks[b] \in Commits \cup {NoHash}

(* Nothing is lost: objects are only added.                                 *)
Grows ==
  /\ repo.loose \subseteq repo'.loose
  /\ \A h \in DOMAIN repo.objects :
       h \in DOMAIN repo'.objects /\ repo'.objects[h] = repo.objects[h]

(* Then commits remain commits.                                             *)
LEMMA CommitsGrow ==
  ASSUME DiskInv, Grows, repo'.packed = {}
  PROVE  Commits \subseteq Commits'
  BY DEF DiskInv, Grows, Commits

(* A new object, whose parents are commits already.                         *)
LEMMA CreateGrows ==
  ASSUME DiskInv, NEW h \in Hash, CreateObject(h)
  PROVE  DiskInv' /\ Grows
<1>1. PICK content \in Contents :
        /\ { content.parents[i] : i \in DOMAIN content.parents } \subseteq Commits
        /\ repo' = [repo EXCEPT !.objects = With(@, h, content),
                                !.temp    = With(@, h, "partial"),
                                !.dirs    = @ \cup {DirOf[h]}]
  BY DEF CreateObject
<1>2. /\ DOMAIN repo' = RepoFields
      /\ repo'.objects = With(repo.objects, h, content)
      /\ repo'.temp = With(repo.temp, h, "partial")
      /\ repo'.dirs = repo.dirs \cup {DirOf[h]}
      /\ repo'.loose = repo.loose /\ repo'.packed = repo.packed
      /\ repo'.refs = repo.refs /\ repo'.locks = repo.locks
  BY <1>1 DEF DiskInv, RepoFields
<1>3. /\ DOMAIN repo'.objects = DOMAIN repo.objects \cup {h}
      /\ repo'.objects[h] = content
      /\ \A g \in DOMAIN repo.objects : g # h /\ repo'.objects[g] = repo.objects[g]
      /\ DOMAIN repo'.temp = DOMAIN repo.temp \cup {h}
  BY <1>2 DEF CreateObject, With
<1>4. Grows
  BY <1>2, <1>3 DEF Grows
<1>5. Commits \subseteq Commits'
  BY <1>2, <1>4, CommitsGrow DEF DiskInv
<1>6. \A g \in DOMAIN repo.objects : RealParents(g)' = RealParents(g)
  BY <1>3 DEF RealParents
<1>7. RealParents(h)' \subseteq Commits
  BY <1>1, <1>3 DEF RealParents
<1>8. content.kind \in ObjectKinds
  BY RepositoryAssumption
<1>9. ASSUME NEW g \in DOMAIN repo'.objects
      PROVE  repo'.objects[g].kind \in ObjectKinds /\ RealParents(g)' \subseteq Commits'
  <2>1. CASE g = h
    BY <1>3, <1>5, <1>7, <1>8, <2>1
  <2>2. CASE g # h
    <3>1. g \in DOMAIN repo.objects
      BY <1>3, <1>9, <2>2
    <3> QED
      BY <1>3, <1>5, <1>6, <3>1 DEF DiskInv
  <2> QED
    BY <2>1, <2>2
<1> QED
  BY <1>2, <1>3, <1>4, <1>5, <1>9 DEF DiskInv

(* The rest of its writing.                                                 *)
LEMMA WriteGrows ==
  ASSUME DiskInv, NEW h \in Hash, CompleteObject(h) \/ RenameObject(h)
  PROVE  DiskInv' /\ Grows
<1>1. /\ DOMAIN repo' = RepoFields
      /\ repo'.objects = repo.objects /\ repo'.dirs = repo.dirs
      /\ repo'.packed = repo.packed
      /\ repo'.refs = repo.refs /\ repo'.locks = repo.locks
  BY DEF DiskInv, RepoFields, CompleteObject, RenameObject
<1>2. /\ DOMAIN repo'.temp \subseteq DOMAIN repo.temp
      /\ repo.loose \subseteq repo'.loose
      /\ repo'.loose \subseteq repo.loose \cup {h} /\ h \in DOMAIN repo.temp
  <2>1. CASE CompleteObject(h)
    BY <2>1 DEF DiskInv, RepoFields, CompleteObject
  <2>2. CASE RenameObject(h)
    <3>1. repo'.temp = Without(repo.temp, h) /\ repo'.loose = repo.loose \cup {h}
          /\ h \in DOMAIN repo.temp
      BY <2>2 DEF DiskInv, RepoFields, RenameObject
    <3> QED
      BY <3>1 DEF Without
  <2> QED
    BY <2>1, <2>2
<1>3. Grows
  BY <1>1, <1>2 DEF Grows
<1>4. Commits \subseteq Commits'
  BY <1>1, <1>3, CommitsGrow DEF DiskInv
<1>5. \A g : RealParents(g)' = RealParents(g)
  BY <1>1 DEF RealParents
<1>6. \A g \in repo'.loose : g \in DOMAIN repo.objects /\ DirOf[g] \in repo.dirs
  BY <1>2 DEF DiskInv
<1> QED
  BY <1>1, <1>2, <1>3, <1>4, <1>5, <1>6 DEF DiskInv

(* Branches and locks get commits, or nothing.                              *)
LEMMA UpdateGrows ==
  ASSUME DiskInv, NEW b \in Branch, Updates(b) \/ DeleteBranch(b)
  PROVE  DiskInv' /\ Grows
<1>1. ObjectsStay
  BY UpdatesFacts, DeleteFacts DEF DiskInv
<1>2. Grows
  BY <1>1 DEF Grows, ObjectsStay
<1>3. Commits' = Commits /\ \A h : RealParents(h)' = RealParents(h)
  BY <1>1 DEF ObjectsStay, Commits, RealParents
<1>4. /\ \A a \in DOMAIN repo'.refs : repo'.refs[a] \in Commits
      /\ \A a \in DOMAIN repo'.locks : repo'.locks[a] \in Commits \cup {NoHash}
  <2>1. CASE LockBranch(b)
    <3>1. repo'.refs = repo.refs /\ repo'.locks = With(repo.locks, b, NoHash)
      BY <2>1 DEF LockBranch, DiskInv, RepoFields
    <3> QED
      BY <3>1 DEF With, DiskInv
  <2>2. CASE RenameLock(b)
    <3>1. /\ repo'.refs = With(repo.refs, b, repo.locks[b])
          /\ repo'.locks = Without(repo.locks, b)
          /\ b \in DOMAIN repo.locks /\ repo.locks[b] # NoHash
      BY <2>2 DEF RenameLock, DiskInv, RepoFields
    <3> QED
      BY <3>1 DEF With, Without, DiskInv
  <2>3. CASE DropLock(b)
    <3>1. repo'.refs = repo.refs /\ repo'.locks = Without(repo.locks, b)
      BY <2>3 DEF DropLock, DiskInv, RepoFields
    <3> QED
      BY <3>1 DEF Without, DiskInv
  <2>4. ASSUME NEW h \in Hash, WriteLock(b, h)
        PROVE  /\ \A a \in DOMAIN repo'.refs : repo'.refs[a] \in Commits
               /\ \A a \in DOMAIN repo'.locks : repo'.locks[a] \in Commits \cup {NoHash}
    <3>1. repo'.refs = repo.refs /\ repo'.locks = [repo.locks EXCEPT ![b] = h] /\ h \in Commits
      BY <2>4 DEF WriteLock, DiskInv, RepoFields
    <3> QED
      BY <3>1 DEF DiskInv
  <2>5. CASE DeleteBranch(b)
    <3>1. repo'.locks = repo.locks /\ repo'.refs = Without(repo.refs, b)
      BY <2>5 DEF DeleteBranch, DiskInv, RepoFields
    <3> QED
      BY <3>1 DEF Without, DiskInv
  <2> QED
    BY <2>1, <2>2, <2>3, <2>4, <2>5 DEF Updates
<1> QED
  BY <1>1, <1>2, <1>3, <1>4 DEF DiskInv, ObjectsStay

(* The disk at the start.                                                   *)
LEMMA InitDisk ==
  ASSUME GitInit
  PROVE  DiskInv /\ DOMAIN repo.temp = {}
<1>1. PICK r \in Repositories :
        repo = [objects |-> r.objects,
                loose   |-> DOMAIN r.objects,
                dirs    |-> { DirOf[h] : h \in DOMAIN r.objects },
                temp    |-> [h \in {} |-> "none"],
                packs   |-> r.packs,
                packed  |-> {},
                refs    |-> r.refs,
                locks   |-> [b \in {} |-> NoHash],
                nested  |-> r.nested]
  BY DEF GitInit
<1>2. /\ DOMAIN repo = RepoFields /\ repo.packed = {}
      /\ repo.objects = r.objects /\ repo.loose = DOMAIN r.objects
      /\ repo.dirs = { DirOf[h] : h \in DOMAIN r.objects }
      /\ DOMAIN repo.temp = {} /\ repo.refs = r.refs /\ DOMAIN repo.locks = {}
  BY <1>1 DEF RepoFields
<1>3. Commits = { h \in DOMAIN r.objects : r.objects[h].kind # "other" }
  BY <1>2 DEF Commits
<1>4. /\ DOMAIN r.objects \subseteq Hash
      /\ \A h \in DOMAIN r.objects :
           /\ r.objects[h].kind \in ObjectKinds
           /\ r.objects[h].parents \in Seq(Commits)
      /\ \A b \in DOMAIN r.refs : r.refs[b] \in Commits
  BY <1>3, RepositoryAssumption
<1>5. \A h \in DOMAIN repo.objects : RealParents(h) \subseteq Commits
  BY <1>2, <1>4, ElementOfSeq, LenProperties DEF RealParents
<1> QED
  BY <1>2, <1>4, <1>5 DEF DiskInv
------------------------------------------------------------------------------
(* The reading.  Once the objects are being read, there is a set of commits *)
(* with all their parents and all the heads, each of which is in the table, *)
(* in a directory that is still to be listed, or among the listed files.    *)
Awaited(h) ==
  \/ h \in DOMAIN dictOfParentHashes
  \/ stage \in {"listFiles", "readFiles"} /\ DirOf[h] \in dirsTodo
  \/ stage = "readFiles" /\ DirOf[h] = directory /\ <<"object", h>> \in filesTodo

Covers(K) ==
  /\ K \subseteq Commits
  /\ \A h \in K : RealParents(h) \subseteq K
  /\ \A i \in DOMAIN heads : heads[i] \in K \cup {NoHash}
  /\ \A h \in K : Awaited(h)

HeadsInv ==
  /\ heads \in Seq(Hash \cup {NoHash})
  /\ \A i \in DOMAIN heads : heads[i] \in Commits \cup {NoHash}

ReadInv ==
  stage \in {"listFiles", "readFiles", "loaded"} => \E K \in SUBSET Hash : Covers(K)

CoverInv == "gc" \notin happened => DiskInv /\ HeadsInv /\ ReadInv

(* Git only adds to what is awaited.                                        *)
LEMMA GitCovers ==
  ASSUME DOMAIN repo = RepoFields, CoverInv, GitNext, UNCHANGED loader
  PROVE  CoverInv'
<1>1. CASE Collects
  BY <1>1, CollectsFacts DEF CoverInv, Remembers
<1>2. ASSUME "gc" \notin happened',
             \/ \E h \in Hash : Writes(h)
             \/ \E b \in Branch : Updates(b) \/ DeleteBranch(b)
      PROVE  DiskInv' /\ HeadsInv' /\ ReadInv'
  <2>1. "gc" \notin happened
    BY <1>2, WritesFacts, UpdatesFacts, DeleteFacts DEF Remembers
  <2>2. DiskInv /\ HeadsInv /\ ReadInv
    BY <2>1 DEF CoverInv
  <2>3. DiskInv' /\ Grows
    BY <1>2, <2>2, CreateGrows, WriteGrows, UpdateGrows DEF Writes
  <2>4. Commits \subseteq Commits'
    BY <2>2, <2>3, CommitsGrow DEF DiskInv
  <2>5. /\ stage' = stage /\ heads' = heads /\ dirsTodo' = dirsTodo
        /\ directory' = directory /\ filesTodo' = filesTodo
        /\ dictOfParentHashes' = dictOfParentHashes
    BY DEF loader
  <2>6. HeadsInv'
    BY <2>2, <2>4, <2>5 DEF HeadsInv
  <2>7. ASSUME NEW K \in SUBSET Hash, Covers(K)  PROVE Covers(K)'
    <3>1. K \subseteq Commits /\ Commits \subseteq DOMAIN repo.objects
      BY <2>2, <2>7 DEF Covers, Commits, DiskInv
    <3>2. \A h \in K : RealParents(h)' = RealParents(h)
      BY <2>3, <3>1 DEF Grows, RealParents
    <3>3. \A h \in K : Awaited(h)'
      BY <2>5, <2>7 DEF Covers, Awaited
    <3> QED
      BY <2>4, <2>5, <2>7, <3>1, <3>2, <3>3 DEF Covers
  <2> QED
    BY <2>2, <2>3, <2>5, <2>6, <2>7 DEF ReadInv
<1> QED
  BY <1>1, <1>2, GitKinds DEF CoverInv

(* What is read of a branch or a lock is a commit, or nothing.              *)
LEMMA RefsAreCommits ==
  ASSUME DiskInv, NEW entry \in RefEntries, entry[1] # "directory"
  PROVE  FirstLine(entry) \in Commits \cup {NoHash}
<1>1. CASE \E b \in DOMAIN repo.refs : entry = <<"branch", b>>
  BY <1>1 DEF DiskInv, FirstLine
<1>2. CASE \E b \in DOMAIN repo.locks : entry = <<"lock", b>>
  BY <1>2 DEF DiskInv, FirstLine
<1>3. CASE entry = <<"directory", 0>>
  BY <1>3
<1> QED
  BY <1>1, <1>2, <1>3 DEF RefEntries

(* No step of the reading drops a commit that is awaited, and when it lists *)
(* the directories it awaits them all.                                      *)
LEMMA LoaderAwaits ==
  ASSUME DiskInv, LoaderNext, stage' \in {"listFiles", "readFiles", "loaded"}
  PROVE  /\ heads' = heads
         /\ \/ \A h \in Commits : Awaited(h)'
            \/ /\ stage \in {"listFiles", "readFiles"}
               /\ \A h \in Commits : Awaited(h) => Awaited(h)'
<1> USE DEF Following
<1>1. CASE ListRefs \/ ReadRef \/ RefsError \/ EndRefs \/ ObjectsError
  BY <1>1 DEF ListRefs, ReadRef, RefsError, EndRefs, ObjectsError
<1>2. CASE ListObjects
  <2>1. /\ heads' = heads /\ stage' = "listFiles" /\ dirsTodo' = repo.dirs \cup {"pack"}
    BY <1>2 DEF ListObjects, ObjectDirs
  <2>2. Commits \subseteq repo.loose
    BY DEF Commits, DiskInv
  <2> QED
    BY <2>1, <2>2 DEF DiskInv, Awaited
<1>3. CASE ListFiles
  <2>1. PICK d \in dirsTodo : /\ directory' = d /\ filesTodo' = FilesIn(d)
                              /\ dirsTodo' = dirsTodo \ {d}
    BY <1>3 DEF ListFiles, DirsLeft
  <2>2. /\ stage = "listFiles" /\ stage' = "readFiles" /\ heads' = heads
        /\ dictOfParentHashes' = dictOfParentHashes
    BY <1>3 DEF ListFiles
  <2>3. ASSUME NEW h \in Commits, DirOf[h] = d  PROVE <<"object", h>> \in FilesIn(d)
    <3>1. h \in repo.loose /\ h \in Hash
      BY DEF Commits, DiskInv
    <3>2. d # "pack"
      BY <2>3, <3>1, RepositoryAssumption
    <3> QED
      BY <2>3, <3>1, <3>2 DEF FilesIn
  <2>4. \A h \in Commits : Awaited(h) => Awaited(h)'
    BY <2>1, <2>2, <2>3 DEF Awaited
  <2> QED
    BY <2>2, <2>4
<1>4. CASE ReadFile
  <2>1. PICK file \in filesTodo :
          /\ Parses(file)
          /\ filesTodo' = filesTodo \ {file}
          /\ dictOfParentHashes' = IF IsCommit(file)
                                   THEN With(dictOfParentHashes, Key(file), ParentsList(file))
                                   ELSE dictOfParentHashes
    BY <1>4 DEF ReadFile
  <2>2. /\ stage = "readFiles" /\ stage' = stage /\ heads' = heads
        /\ dirsTodo' = dirsTodo /\ directory' = directory
    BY <1>4 DEF ReadFile
  <2>3. DOMAIN dictOfParentHashes \subseteq DOMAIN dictOfParentHashes'
    BY <2>1 DEF With
  <2>4. ASSUME NEW h \in Commits, file = <<"object", h>>  PROVE h \in DOMAIN dictOfParentHashes'
    <3>1. /\ repo.objects[h].kind \in ObjectKinds
          /\ repo.objects[h].kind # "other"
          /\ repo.objects[h].kind # "commit, not UTF-8"
      BY <2>1, <2>4 DEF Commits, DiskInv, Parses, ContentOf
    <3>2. IsCommit(file) /\ Key(file) = h
      BY <2>4, <3>1 DEF IsCommit, Key, ContentOf, ObjectKinds
    <3> QED
      BY <2>1, <3>2 DEF With
  <2>5. \A h \in Commits : Awaited(h) => Awaited(h)'
    BY <2>1, <2>2, <2>3, <2>4 DEF Awaited
  <2> QED
    BY <2>2, <2>5
<1>5. CASE EndFiles
  <2>1. /\ stage = "readFiles" /\ stage' = "listFiles" /\ heads' = heads /\ filesTodo = {}
        /\ dirsTodo' = dirsTodo /\ dictOfParentHashes' = dictOfParentHashes
    BY <1>5 DEF EndFiles
  <2> QED
    BY <2>1 DEF Awaited
<1>6. CASE EndObjects
  <2>1. /\ stage = "listFiles" /\ dirsTodo = {} /\ heads' = heads
        /\ dictOfParentHashes' = dictOfParentHashes
    BY <1>6 DEF EndObjects
  <2> QED
    BY <2>1 DEF Awaited
<1> QED
  BY <1>1, <1>2, <1>3, <1>4, <1>5, <1>6 DEF LoaderNext

(* The steps of the reading keep the set covered.                           *)
LEMMA LoaderCovers ==
  ASSUME DiskInv, HeadsInv, ReadInv, LoaderNext
  PROVE  HeadsInv' /\ ReadInv'
<1> USE DEF Following
<1>1. /\ repo' = repo
      /\ Commits' = Commits
      /\ \A h : RealParents(h)' = RealParents(h)
  BY DEF LoaderNext, ListRefs, ReadRef, RefsError, EndRefs, ListObjects, ListFiles,
         ReadFile, EndFiles, ObjectsError, EndObjects, git, Commits, RealParents
<1>2. CASE ListRefs \/ RefsError \/ EndRefs \/ ObjectsError
  <2>1. heads' = heads /\ stage' \in {"readRefs", "refsError", "listObjects", "objectsError"}
    BY <1>2 DEF ListRefs, RefsError, EndRefs, ObjectsError
  <2> QED
    BY <1>1, <2>1 DEF HeadsInv, ReadInv
<1>3. CASE ReadRef
  <2>1. PICK entry \in RefEntries :
          entry[1] # "directory" /\ heads' = Append(heads, FirstLine(entry)) /\ stage' = "readRefs"
    BY <1>3 DEF ReadRef
  <2>2. FirstLine(entry) \in Commits \cup {NoHash}
    BY <2>1, RefsAreCommits
  <2>3. Commits \subseteq Hash
    BY DEF Commits, DiskInv
  <2>4. /\ heads' \in Seq(Hash \cup {NoHash})
        /\ \A i \in DOMAIN heads' : \/ i \in DOMAIN heads /\ heads'[i] = heads[i]
                                    \/ heads'[i] = FirstLine(entry)
    BY <2>1, <2>2, <2>3 DEF HeadsInv
  <2> QED
    BY <1>1, <2>1, <2>2, <2>4 DEF HeadsInv, ReadInv
<1>4. CASE stage' \in {"listFiles", "readFiles", "loaded"}
  <2>1. heads' = heads
    BY <1>4, LoaderAwaits
  <2>2. CASE \A h \in Commits : Awaited(h)'
    <3>1. Commits \subseteq Hash /\ \A h \in Commits : RealParents(h) \subseteq Commits
      BY DEF Commits, DiskInv
    <3>2. Covers(Commits)'
      BY <1>1, <2>1, <2>2, <3>1 DEF Covers, HeadsInv
    <3> QED
      BY <1>1, <2>1, <3>1, <3>2 DEF HeadsInv, ReadInv
  <2>3. CASE /\ stage \in {"listFiles", "readFiles"}
             /\ \A h \in Commits : Awaited(h) => Awaited(h)'
    <3>1. \A K \in SUBSET Hash : Covers(K) => Covers(K)'
      BY <1>1, <2>1, <2>3 DEF Covers
    <3> QED
      BY <1>1, <2>1, <2>3, <3>1 DEF HeadsInv, ReadInv
  <2> QED
    BY <1>4, <2>2, <2>3, LoaderAwaits
<1> QED
  <2>1. stage' \in {"listFiles", "readFiles", "loaded"} \/ ListRefs \/ RefsError \/ EndRefs
          \/ ObjectsError \/ ReadRef
    BY DEF LoaderNext, ListObjects, ListFiles, ReadFile, EndFiles, EndObjects
  <2> QED
    BY <1>2, <1>3, <1>4, <2>1

(* The ordering only looks at what was read.                                *)
LEMMA OrderReads ==
  ASSUME OrderAndPrint
  PROVE  UNCHANGED <<git, stage, heads, dirsTodo, directory, filesTodo, dictOfParentHashes>>
<1>1. heads' = heads /\ dictOfParentHashes' = dictOfParentHashes
  BY DEF OrderAndPrint, Order!Next, Order!StartWalk, Order!NoBranchError,
         Order!UnknownHashError, Order!Descend, Order!Retreat, Order!EndWalk,
         Order!StartOrdering, Order!NoNodeError, Order!Climb, Order!Emit,
         Order!StartPrinting, Order!PrintCommit, Order!Finish, Order!Crash, Order!input
<1> QED
  BY <1>1 DEF OrderAndPrint

(* Outside the reading nothing changes that it has to do with.              *)
LEMMA ElsewhereCovers ==
  ASSUME CoverInv, git' = git, heads' = heads,
         \/ stage' = "noRefs"
         \/ UNCHANGED <<stage, dirsTodo, directory, filesTodo, dictOfParentHashes>>
  PROVE  CoverInv'
<1>1. repo' = repo /\ happened' = happened
  BY DEF git
<1>2. DiskInv => DiskInv'
  BY <1>1 DEF DiskInv, Commits, RealParents
<1>3. HeadsInv => HeadsInv'
  BY <1>1 DEF HeadsInv, Commits
<1>4. ASSUME UNCHANGED <<stage, dirsTodo, directory, filesTodo, dictOfParentHashes>>
      PROVE  ReadInv => ReadInv'
  <2>1. \A K \in SUBSET Hash : Covers(K) => Covers(K)'
    BY <1>1, <1>4 DEF Covers, Awaited, Commits, RealParents
  <2> QED
    BY <1>4, <2>1 DEF ReadInv
<1>5. stage' = "noRefs" => ReadInv'
  BY DEF ReadInv
<1> QED
  BY <1>1, <1>2, <1>3, <1>4, <1>5 DEF CoverInv

(* The disk keeps its fields, whatever happens.                             *)
LEMMA FieldsStay ==
  ASSUME DOMAIN repo = RepoFields, [Next]_allVars
  PROVE  DOMAIN repo' = RepoFields
<1>1. GitNext => DOMAIN repo' = RepoFields
  BY GitKinds, WritesFacts, UpdatesFacts, DeleteFacts, CollectsFacts DEF ObjectsStay
<1>2. repo' = repo \/ GitNext
  <2>1. LoadHistory => repo' = repo
    BY DEF LoadHistory, LoaderNext, ListRefs, ReadRef, RefsError, EndRefs, ListObjects,
           ListFiles, ReadFile, EndFiles, ObjectsError, EndObjects, git
  <2>2. FindRepository \/ NoRefsError \/ OrderAndPrint \/ UNCHANGED allVars => repo' = repo
    BY OrderReads DEF FindRepository, NoRefsError, allVars, loaderVars, git
  <2> QED
    BY <2>1, <2>2 DEF Next, ScriptNext, GitAtWork
<1> QED
  BY <1>1, <1>2

(* A set of commits that holds the heads and all parents holds the          *)
(* ancestries, so when it is in the table, they are.                        *)
LEMMA CoveredTable == CoverInv => TableCoversHeads
<1> SUFFICES ASSUME CoverInv, stage = "loaded", "gc" \notin happened,
                    NEW i \in DOMAIN heads, heads[i] # NoHash
             PROVE  RealAncestry(heads[i]) \subseteq DOMAIN dictOfParentHashes
  BY DEF TableCoversHeads
<1>1. DiskInv
  BY DEF CoverInv
<1>2. PICK K \in SUBSET Hash : Covers(K)
  BY DEF CoverInv, ReadInv
<1>3. K \subseteq DOMAIN repo.objects /\ K \subseteq DOMAIN dictOfParentHashes
  BY <1>1, <1>2 DEF Covers, Awaited, Commits, DiskInv
<1>4. heads[i] \in K /\ \A d \in K : RealParents(d) \subseteq K
  BY <1>2 DEF Covers
<1> QED
  BY <1>3, <1>4 DEF RealAncestry

(* It holds at the start,                                                   *)
LEMMA InitCovers == Init => CoverInv
<1> SUFFICES ASSUME Init PROVE CoverInv
  OBVIOUS
<1>1. DiskInv
  BY InitDisk DEF Init, LoaderInit
<1>2. HeadsInv /\ ReadInv
  BY DEF Init, LoaderInit, HeadsInv, ReadInv, Following
<1> QED
  BY <1>1, <1>2 DEF CoverInv

(* and each step keeps it.                                                  *)
LEMMA CoverStep ==
  ASSUME DOMAIN repo = RepoFields, CoverInv, [Next]_allVars
  PROVE  CoverInv'
<1>1. DOMAIN repo' = RepoFields
  BY FieldsStay
<1>2. CASE FindRepository
  BY <1>1, <1>2, ElsewhereCovers DEF FindRepository, loaderVars, loader
<1>3. CASE NoRefsError
  BY <1>1, <1>3, ElsewhereCovers DEF NoRefsError
<1>4. CASE LoadHistory
  <2>1. LoaderNext /\ git' = git
    BY <1>4 DEF LoadHistory, LoaderNext, ListRefs, ReadRef, RefsError, EndRefs, ListObjects,
                ListFiles, ReadFile, EndFiles, ObjectsError, EndObjects
  <2>2. repo' = repo /\ happened' = happened
    BY <2>1 DEF git
  <2>3. DiskInv => DiskInv'
    BY <2>2 DEF DiskInv, Commits, RealParents
  <2> QED
    BY <1>1, <2>1, <2>2, <2>3, LoaderCovers DEF CoverInv
<1>5. CASE OrderAndPrint
  BY <1>1, <1>5, OrderReads, ElsewhereCovers
<1>6. CASE GitAtWork
  BY <1>1, <1>6, GitCovers DEF GitAtWork
<1>7. CASE UNCHANGED allVars
  BY <1>1, <1>7, ElsewhereCovers DEF allVars, loaderVars, loader
<1> QED
  BY <1>1, <1>2, <1>3, <1>4, <1>5, <1>6, <1>7 DEF Next, ScriptNext

(***************************************************************************)
(* However git's commits and branch updates interleave with the reading,   *)
(* the table holds every commit of every branch that was read, for all     *)
(* repositories and any number of steps (lines 17-49); only gc can take    *)
(* one away.                                                               *)
(***************************************************************************)
THEOREM AlwaysCoversHeads == Spec => []TableCoversHeads
<1>1. Init => DOMAIN repo = RepoFields
  BY InitDisk DEF Init, LoaderInit, DiskInv
<1>2. DOMAIN repo = RepoFields /\ [Next]_allVars => (DOMAIN repo = RepoFields)'
  BY FieldsStay
<1>3. DOMAIN repo = RepoFields /\ CoverInv /\ [Next]_allVars => CoverInv'
  BY CoverStep
<1> QED
  BY <1>1, <1>2, <1>3, InitCovers, CoveredTable, PTL DEF Spec
------------------------------------------------------------------------------
(* The errors.  As long as nothing has happened to the branches, or to the  *)
(* objects, what was listed is still there.                                 *)
RefsKept    == happened \cap {"update", "delete", "gc"} = {}
ObjectsKept == happened \cap {"write", "gc"} = {}

ListedInv ==
  /\ RefsKept /\ stage = "readRefs" => refsTodo \subseteq RefEntries
  /\ ObjectsKept =>
       /\ DOMAIN repo.temp = {}
       /\ repo.loose \subseteq DOMAIN repo.objects
       /\ stage \in {"listFiles", "readFiles"} => dirsTodo \subseteq ObjectDirs
       /\ stage = "readFiles" => filesTodo \subseteq FilesIn(directory)

ErrorInv == DOMAIN repo = RepoFields /\ ListedInv /\ ErrorsHaveCauses

(* Git at work: it stops when the script has failed.                        *)
LEMMA GitErrors ==
  ASSUME ErrorInv, GitNext, Reading, UNCHANGED loader
  PROVE  ListedInv' /\ ErrorsHaveCauses'
<1>1. stage \notin {"refsError", "objectsError"} /\ UNCHANGED <<stage, refsTodo, dirsTodo, directory, filesTodo>>
  BY DEF Reading, loader
<1>2. ErrorsHaveCauses'
  BY <1>1 DEF ErrorsHaveCauses
<1>3. CASE \E h \in Hash : Writes(h)
  <2>1. /\ "write" \in happened' /\ happened \subseteq happened'
        /\ RefEntries' = RefEntries
    BY <1>3, WritesFacts DEF ErrorInv, Remembers, RefEntries
  <2> QED
    BY <1>1, <1>2, <2>1 DEF ErrorInv, ListedInv, RefsKept, ObjectsKept
<1>4. CASE \E b \in Branch : Updates(b) \/ DeleteBranch(b)
  <2>1. happened' \cap {"update", "delete"} # {} /\ happened \subseteq happened' /\ ObjectsStay
    BY <1>4, UpdatesFacts, DeleteFacts DEF ErrorInv, Remembers
  <2>2. ObjectDirs' = ObjectDirs /\ \A d : FilesIn(d)' = FilesIn(d)
    BY <2>1 DEF ObjectsStay, ObjectDirs, FilesIn
  <2> QED
    BY <1>1, <1>2, <2>1, <2>2 DEF ErrorInv, ListedInv, RefsKept, ObjectsKept, ObjectsStay
<1>5. CASE Collects
  <2>1. "gc" \in happened'
    BY <1>5, CollectsFacts DEF ErrorInv, Remembers
  <2> QED
    BY <1>2, <2>1 DEF ListedInv, RefsKept, ObjectsKept
<1> QED
  BY <1>2, <1>3, <1>4, <1>5, GitKinds

(* What parses, as long as only old objects are there.                      *)
LEMMA ListedParses ==
  ASSUME DOMAIN repo.temp = {}, repo.loose \subseteq DOMAIN repo.objects, ~ repo.packs,
         \A h \in DOMAIN repo.objects : repo.objects[h].kind # "commit, not UTF-8",
         NEW d, NEW file \in FilesIn(d)
  PROVE  Parses(file)
<1>1. PICK h \in repo.loose : file = <<"object", h>>
  BY DEF FilesIn
<1> QED
  BY <1>1 DEF Parses, Decompresses, ContentOf

(* The reading itself.                                                      *)
LEMMA LoaderErrors ==
  ASSUME ErrorInv, LoaderNext
  PROVE  ListedInv' /\ ErrorsHaveCauses'
<1> USE DEF Following
<1>1. /\ git' = git /\ repo' = repo /\ happened' = happened
      /\ RefEntries' = RefEntries /\ ObjectDirs' = ObjectDirs
      /\ \A d : FilesIn(d)' = FilesIn(d)
      /\ (RefsKept' <=> RefsKept) /\ (ObjectsKept' <=> ObjectsKept)
  BY DEF LoaderNext, ListRefs, ReadRef, RefsError, EndRefs, ListObjects, ListFiles,
         ReadFile, EndFiles, ObjectsError, EndObjects, git, RefEntries, ObjectDirs, FilesIn,
         RefsKept, ObjectsKept
<1>2. CASE RefsError
  <2>1. PICK entry \in refsTodo : entry \notin RefEntries \/ entry[1] = "directory"
    BY <1>2 DEF RefsError
  <2>2. stage = "readRefs" /\ stage' = "refsError"
    BY <1>2 DEF RefsError
  <2>3. ASSUME entry \in RefEntries, entry[1] = "directory"  PROVE repo.nested
    BY <2>3 DEF RefEntries
  <2>4. RefsKept => repo.nested
    BY <2>1, <2>2, <2>3 DEF ErrorInv, ListedInv
  <2> QED
    BY <1>1, <2>2, <2>4 DEF ErrorInv, ListedInv, ErrorsHaveCauses, RefsKept
<1>3. CASE ObjectsError
  <2>1. /\ stage' = "objectsError"
        /\ \/ stage = "listFiles" /\ ~ (dirsTodo \subseteq ObjectDirs)
           \/ /\ stage = "readFiles"
              /\ \E file \in filesTodo : ~ (Opens(file) /\ Parses(file))
    BY <1>3 DEF ObjectsError
  <2>2. ASSUME ObjectsKept, ~ repo.packs,
               \A h \in DOMAIN repo.objects : repo.objects[h].kind # "commit, not UTF-8"
        PROVE  FALSE
    <3>1. PICK file \in filesTodo : ~ (Opens(file) /\ Parses(file)) /\ stage = "readFiles"
      BY <2>1, <2>2 DEF ErrorInv, ListedInv
    <3>2. file \in FilesIn(directory)
      BY <2>2, <3>1 DEF ErrorInv, ListedInv
    <3>3. Parses(file)
      BY <2>2, <3>2, ListedParses DEF ErrorInv, ListedInv
    <3> QED
      BY <3>1, <3>2, <3>3 DEF Opens
  <2> QED
    BY <1>1, <2>1, <2>2 DEF ErrorInv, ListedInv, ErrorsHaveCauses, ObjectsKept
<1>4. CASE ListRefs
  BY <1>1, <1>4 DEF ListRefs, ErrorInv, ListedInv, ErrorsHaveCauses
<1>5. CASE ReadRef
  BY <1>1, <1>5 DEF ReadRef, ReadOff, ErrorInv, ListedInv, ErrorsHaveCauses
<1>6. CASE EndRefs \/ EndObjects
  BY <1>1, <1>6 DEF EndRefs, EndObjects, ErrorInv, ListedInv, ErrorsHaveCauses
<1>7. CASE ListObjects
  BY <1>1, <1>7 DEF ListObjects, ErrorInv, ListedInv, ErrorsHaveCauses
<1>8. CASE ListFiles
  BY <1>1, <1>8 DEF ListFiles, DirsLeft, ErrorInv, ListedInv, ErrorsHaveCauses
<1>9. CASE ReadFile
  BY <1>1, <1>9 DEF ReadFile, ErrorInv, ListedInv, ErrorsHaveCauses
<1>10. CASE EndFiles
  BY <1>1, <1>10 DEF EndFiles, ErrorInv, ListedInv, ErrorsHaveCauses
<1> QED
  BY <1>2, <1>3, <1>4, <1>5, <1>6, <1>7, <1>8, <1>9, <1>10 DEF LoaderNext

(* The rest of the script.                                                  *)
LEMMA ElsewhereErrors ==
  ASSUME ErrorInv, git' = git,
         \/ stage' = "noRefs"
         \/ UNCHANGED <<stage, dirsTodo, directory, filesTodo, refsTodo>>
  PROVE  ListedInv' /\ ErrorsHaveCauses'
<1>1. /\ repo' = repo /\ happened' = happened
      /\ RefEntries' = RefEntries /\ ObjectDirs' = ObjectDirs
      /\ \A d : FilesIn(d)' = FilesIn(d)
  BY DEF git, RefEntries, ObjectDirs, FilesIn
<1> QED
  BY <1>1 DEF ErrorInv, ListedInv, ErrorsHaveCauses, RefsKept, ObjectsKept

(***************************************************************************)
(* The reading fails only over what is in the repository or what git does  *)
(* meanwhile, for all repositories and interleavings (lines 17-49).        *)
(***************************************************************************)
THEOREM AlwaysHasCauses == Spec => []ErrorsHaveCauses
<1>1. Init => ErrorInv
  <2> SUFFICES ASSUME Init PROVE ErrorInv
    OBVIOUS
  <2>1. DOMAIN repo = RepoFields /\ DOMAIN repo.temp = {} /\ repo.loose \subseteq DOMAIN repo.objects
    BY InitDisk DEF Init, LoaderInit, DiskInv
  <2>2. stage = "listRefs"
    BY DEF Init, LoaderInit, Following
  <2> QED
    BY <2>1, <2>2 DEF ErrorInv, ListedInv, ErrorsHaveCauses
<1>2. ErrorInv /\ [Next]_allVars => ErrorInv'
  <2> SUFFICES ASSUME ErrorInv, [Next]_allVars  PROVE ErrorInv'
    OBVIOUS
  <2>1. DOMAIN repo' = RepoFields
    BY FieldsStay DEF ErrorInv
  <2>2. CASE FindRepository
    BY <2>1, <2>2, ElsewhereErrors DEF FindRepository, loaderVars, loader, ErrorInv
  <2>3. CASE NoRefsError
    BY <2>1, <2>3, ElsewhereErrors DEF NoRefsError, ErrorInv
  <2>4. CASE LoadHistory
    BY <2>1, <2>4, LoaderErrors DEF LoadHistory, ErrorInv
  <2>5. CASE OrderAndPrint
    <3>1. refsTodo' = refsTodo
      BY <2>5 DEF OrderAndPrint
    <3> QED
      BY <2>1, <2>5, <3>1, OrderReads, ElsewhereErrors DEF ErrorInv
  <2>6. CASE GitAtWork
    BY <2>1, <2>6, GitErrors DEF GitAtWork, ErrorInv
  <2>7. CASE UNCHANGED allVars
    BY <2>1, <2>7, ElsewhereErrors DEF allVars, loaderVars, loader, ErrorInv
  <2> QED
    BY <2>2, <2>3, <2>4, <2>5, <2>6, <2>7 DEF Next, ScriptNext
<1>3. ErrorInv => ErrorsHaveCauses
  BY DEF ErrorInv
<1> QED
  BY <1>1, <1>2, <1>3, PTL DEF Spec
------------------------------------------------------------------------------
(* The ordering, of any table a sound repository can give.  CommitOrder's   *)
(* theorems are about every set of tables; this is the one that is needed.  *)
Tables        == UNION { [D -> Seq(AnyHash)] : D \in SUBSET Hash }
AcyclicTables == { t \in Tables : Order!Acyclic(t) }

Core == INSTANCE CommitOrderProofs WITH
          Commit    <- AnyHash,
          Histories <- AcyclicTables,
          HeadLists <- Seq(AnyHash)

(* Objects as git can have written them: what a hash covers is there, or    *)
(* of no repository, and no object covers itself.                           *)
SoundObject(objects, h) ==
  /\ objects[h].kind \in ObjectKinds
  /\ objects[h].parents \in Seq(Hash)
  /\ objects[h].mentions \in Seq(Hash \cup {Foreign})
  /\ Covered(objects[h]) \subseteq DOMAIN objects \cup {Foreign}

SoundObjects(objects) ==
  /\ DOMAIN objects \subseteq Hash
  /\ \A h \in DOMAIN objects : SoundObject(objects, h)
  /\ \A S \in SUBSET DOMAIN objects :
       S # {} => \E h \in S : Covered(objects[h]) \cap S = {}

(* What the disk is like at every moment, gc or not.                        *)
ObjectsInv ==
  /\ DOMAIN repo = RepoFields
  /\ SoundObjects(repo.objects)
  /\ repo.loose \cup repo.packed \cup DOMAIN repo.temp \subseteq DOMAIN repo.objects
  /\ DOMAIN repo.refs \cup DOMAIN repo.locks \subseteq Branch
  /\ \A b \in DOMAIN repo.refs : repo.refs[b] \in Hash
  /\ \A b \in DOMAIN repo.locks : repo.locks[b] \in Hash \cup {NoHash}

(* The table holds commits only, each with what its object covers.          *)
TableInv ==
  /\ heads \in Seq(Hash \cup {NoHash})
  /\ dictOfParentHashes \in Tables
  /\ \A h \in DOMAIN dictOfParentHashes :
       /\ h \in DOMAIN repo.objects
       /\ repo.objects[h].kind = "commit"
       /\ dictOfParentHashes[h] = repo.objects[h].parents \o repo.objects[h].mentions

(* The ordering starts from what was read, and then keeps its invariants.   *)
Untouched ==
  /\ pc = "init" /\ listOfHashes = heads
  /\ stack = <<>> /\ hasVisited = {} /\ nodes = [h \in {} |-> Order!NewNode]
  /\ rootsFound = {} /\ commits = <<>> /\ orderedCommits = <<>> /\ output = <<>>

StartedInv ==
  /\ stage # "loaded" => Untouched
  /\ stage = "loaded" => Core!IndInv /\ Core!Accounted /\ Core!HadToDie

(* The entries of refs/heads, each read once.                               *)
Entries == ({"branch", "lock"} \X Branch) \cup {<<"directory", 0>>}

Read == {"listObjects", "listFiles", "readFiles", "loaded"}

NamesInv ==
  /\ names \in Seq(Entries) /\ Len(names) = Len(heads)
  /\ refsTodo \subseteq Entries
  /\ \A i, j \in DOMAIN names : names[i] = names[j] => i = j
  /\ \A i \in DOMAIN names : names[i] \notin refsTodo
  /\ stage = "listRefs" => names = <<>>
  /\ stage \in Read => refsTodo = {}

(* While no branch is removed, those of the start are read or still to read;*)
Pending(b) == <<"branch", b>> \in refsTodo \cup Order!SeqRange(names)

KeptInv ==
  happened \cap {"delete", "gc"} = {} =>
    /\ DOMAIN original \subseteq DOMAIN repo.refs
    /\ stage \in Read \cup {"readRefs"} => \A b \in DOMAIN original : Pending(b)

(* while none is changed, with the hash they had, and nothing else.         *)
IsOriginal(entry) == \E b \in DOMAIN original : entry = <<"branch", b>>

SameInv ==
  happened \cap {"update", "delete", "gc"} = {} =>
    /\ repo.refs = original /\ DOMAIN repo.locks = {}
    /\ \A entry \in refsTodo : entry[1] # "directory" => IsOriginal(entry)
    /\ \A i \in DOMAIN names :
         IsOriginal(names[i]) /\ heads[i] = original[names[i][2]]

(* The objects of the start, without gc: there, and awaited.                *)
Originals(K) ==
  /\ K \subseteq repo.loose
  /\ \A h \in K : Covered(repo.objects[h]) \subseteq K \cup {Foreign}
  /\ \A b \in DOMAIN original : /\ original[b] \in K
                                /\ repo.objects[original[b]].kind # "other"
  /\ stage \in {"listFiles", "readFiles", "loaded"} =>
       \A h \in K : repo.objects[h].kind # "other" => Awaited(h)

OriginalsInv == "gc" \notin happened => \E K \in SUBSET Hash : Originals(K)
------------------------------------------------------------------------------
(* Its assumptions hold of the tables and lists of hashes here.             *)
LEMMA CoreAssumptions ==
  /\ AnyHash \subseteq Nat /\ Core!IsFiniteSet(AnyHash)
  /\ \A t \in AcyclicTables :
       /\ DOMAIN t \subseteq AnyHash
       /\ \A c \in DOMAIN t : t[c] \in Seq(AnyHash)
       /\ Core!Acyclic(t)
  /\ \A l \in Seq(AnyHash) : l \in Seq(AnyHash)
<1>1. AnyHash \subseteq Nat
  BY HashAssumption DEF AnyHash, NoHash
<1>2. Core!IsFiniteSet(AnyHash)
  <2>1. IsFiniteSet(Hash \cup {NoHash}) 
    BY HashAssumption, FS_AddElement
  <2>2. IsFiniteSet((Hash \cup {NoHash}) \cup {Foreign})
    BY <2>1, FS_AddElement
  <2>3. AnyHash = (Hash \cup {NoHash}) \cup {Foreign}
    BY DEF AnyHash
  <2> QED
    BY <2>2, <2>3 DEF Core!IsFiniteSet, IsFiniteSet
<1>3. ASSUME NEW t \in AcyclicTables
      PROVE  /\ DOMAIN t \subseteq AnyHash
             /\ \A c \in DOMAIN t : t[c] \in Seq(AnyHash)
             /\ Core!Acyclic(t)
  <2>1. PICK D \in SUBSET Hash : t \in [D -> Seq(AnyHash)]
    BY DEF AcyclicTables, Tables
  <2>2. Core!Acyclic(t)
    BY DEF AcyclicTables, Core!Acyclic, Order!Acyclic, Core!ParentSet, Order!ParentSet
  <2> QED
    BY <2>1, <2>2 DEF AnyHash
<1> QED
  BY <1>1, <1>2, <1>3

(* A step of the ordering is one of CommitOrder's.                          *)
LEMMA CoreSteps ==
  ASSUME Order!Next
  PROVE  Core!Next
<1>1. Order!StartWalk => Core!StartWalk
  BY DEF Order!StartWalk, Core!StartWalk, Order!TopOf, Core!TopOf, Order!PopOf, Core!PopOf,
         Order!VisitedAtStart, Core!VisitedAtStart, Order!input, Core!input
<1>2. Order!NoBranchError \/ Order!UnknownHashError \/ Order!NoNodeError
        => Core!NoBranchError \/ Core!UnknownHashError \/ Core!NoNodeError
  BY DEF Order!NoBranchError, Core!NoBranchError, Order!UnknownHashError, Core!UnknownHashError,
         Order!NoNodeError, Core!NoNodeError, Order!Crash, Core!Crash, Order!TopOf, Core!TopOf
<1>3. Order!Descend => Core!Descend
  BY DEF Order!Descend, Core!Descend, Order!TopOf, Core!TopOf,
         Order!IsFirstUnvisited, Core!IsFirstUnvisited, Order!WithEdge, Core!WithEdge,
         Order!NodeOf, Core!NodeOf, Order!NewNode, Core!NewNode, Order!input, Core!input
<1>4. Order!Retreat => Core!Retreat
  BY DEF Order!Retreat, Core!Retreat, Order!TopOf, Core!TopOf, Order!PopOf, Core!PopOf,
         Order!AllParentsVisited, Core!AllParentsVisited, Order!Parents, Core!Parents,
         Order!ParentSet, Core!ParentSet, Order!Marked, Core!Marked, Order!input, Core!input
<1>5. Order!EndWalk => Core!EndWalk
  BY DEF Order!EndWalk, Core!EndWalk, Order!input, Core!input
<1>6. Order!StartOrdering => Core!StartOrdering
  BY DEF Order!StartOrdering, Core!StartOrdering, Order!IsSortedListOf, Core!IsSortedListOf,
         Order!SeqRange, Core!SeqRange, Order!Cardinality, Core!Cardinality,
         Order!IsFiniteSet, Core!IsFiniteSet, Order!input, Core!input
<1>7. Order!Climb => Core!Climb
  BY DEF Order!Climb, Core!Climb, Order!TopOf, Core!TopOf, Order!Unemitted, Core!Unemitted,
         Order!input, Core!input
<1>8. Order!Emit => Core!Emit
  BY DEF Order!Emit, Core!Emit, Order!TopOf, Core!TopOf, Order!PopOf, Core!PopOf,
         Order!Unemitted, Core!Unemitted, Order!Marked, Core!Marked, Order!input, Core!input
<1>9. Order!StartPrinting => Core!StartPrinting
  BY DEF Order!StartPrinting, Core!StartPrinting, Order!input, Core!input
<1>10. Order!PrintCommit => Core!PrintCommit
  BY DEF Order!PrintCommit, Core!PrintCommit, Order!Printed, Core!Printed,
         Order!LinesFor, Core!LinesFor, Order!Line, Core!Line, Order!BranchesAt, Core!BranchesAt,
         Order!Cardinality, Core!Cardinality, Order!input, Core!input
<1>11. Order!Finish => Core!Finish
  BY DEF Order!Finish, Core!Finish, Order!Printed, Core!Printed, Order!Cardinality, Core!Cardinality,
         Order!input, Core!input
<1> QED
  BY <1>1, <1>2, <1>3, <1>4, <1>5, <1>6, <1>7, <1>8, <1>9, <1>10, <1>11 DEF Order!Next, Core!Next

(* What CommitOrder's proofs say of a state, they say here.                 *)
LEMMA CoreKept ==
  ASSUME Core!IndInv, Core!Accounted, Core!HadToDie,
         Order!Next \/ UNCHANGED <<orderVars, heads, listOfHashes, dictOfParentHashes>>
  PROVE  (Core!IndInv /\ Core!Accounted /\ Core!HadToDie)'
<1>1. [Core!Next]_(Core!vars)
  BY CoreSteps DEF orderVars, Core!vars
<1> QED
  BY <1>1, CoreAssumptions, Core!NextInd, Core!AccountedStep, Core!HadToDieStep

(* The members of two lists put together                                    *)
LEMMA MembersOfBoth ==
  ASSUME NEW T, NEW p \in Seq(T), NEW m \in Seq(T)
  PROVE  Order!SeqRange(p \o m) = Order!SeqRange(p) \cup Order!SeqRange(m)
<1>1. PICK k, l : k = Len(p) /\ l = Len(m)
  OBVIOUS
<1>2. /\ k \in Nat /\ l \in Nat /\ DOMAIN p = 1..k /\ DOMAIN m = 1..l
      /\ DOMAIN (p \o m) = 1..(k + l)
      /\ \A i \in 1..(k + l) : (p \o m)[i] = IF i <= k THEN p[i] ELSE m[i - k]
  BY <1>1, LenProperties, ConcatProperties
<1>3. \A i \in 1..(k + l) : IF i <= k THEN i \in 1..k ELSE i - k \in 1..l
  BY <1>2
<1>4. \A i \in 1..k : i \in 1..(k + l) /\ (p \o m)[i] = p[i]
  BY <1>2
<1>5. ASSUME NEW i \in 1..l  PROVE i + k \in 1..(k + l) /\ (p \o m)[i + k] = m[i]
  <2>1. i + k \in 1..(k + l) /\ ~ (i + k <= k) /\ (i + k) - k = i
    BY <1>2
  <2> QED
    BY <1>2, <2>1
<1>6. \A x : x \in { (p \o m)[i] : i \in DOMAIN (p \o m) }
               => x \in { p[i] : i \in DOMAIN p } \cup { m[i] : i \in DOMAIN m }
  BY <1>2, <1>3
<1>7. \A x : x \in { p[i] : i \in DOMAIN p } => x \in { (p \o m)[i] : i \in DOMAIN (p \o m) }
  BY <1>2, <1>4
<1>8. \A x : x \in { m[i] : i \in DOMAIN m } => x \in { (p \o m)[i] : i \in DOMAIN (p \o m) }
  BY <1>2, <1>5
<1> QED
  BY <1>6, <1>7, <1>8 DEF Order!SeqRange

(* What the table has for a commit is what its hash covers.                 *)
LEMMA TableParents ==
  ASSUME ObjectsInv, TableInv, NEW h \in DOMAIN dictOfParentHashes
  PROVE  Order!Parents(h) = Covered(repo.objects[h])
<1>1. PICK p, m : p = repo.objects[h].parents /\ m = repo.objects[h].mentions
  OBVIOUS
<1>2. p \in Seq(Hash) /\ m \in Seq(Hash \cup {Foreign}) /\ dictOfParentHashes[h] = p \o m
  <2>1. h \in DOMAIN repo.objects
    BY DEF TableInv
  <2> QED
    BY <1>1, <2>1 DEF ObjectsInv, SoundObjects, SoundObject, TableInv
<1>3. p \in Seq(Hash \cup {Foreign})
  BY <1>2
<1>4. Order!SeqRange(p \o m) = Order!SeqRange(p) \cup Order!SeqRange(m)
  BY <1>2, <1>3, MembersOfBoth
<1>5. Order!Parents(h) = Order!SeqRange(p \o m)
  BY <1>2 DEF Order!Parents, Order!ParentSet, Order!SeqRange
<1>6. Covered(repo.objects[h]) = Order!SeqRange(p) \cup Order!SeqRange(m)
  BY <1>1 DEF Covered, Order!SeqRange
<1> QED
  BY <1>4, <1>5, <1>6

(* The table has no cycle, since the objects have none.                     *)
LEMMA TableAcyclic ==
  ASSUME ObjectsInv, TableInv
  PROVE  dictOfParentHashes \in AcyclicTables
<1>1. ASSUME NEW S \in SUBSET DOMAIN dictOfParentHashes, S # {}
      PROVE  \E c \in S : Order!ParentSet(dictOfParentHashes, c) \cap S = {}
  <2>1. S \in SUBSET DOMAIN repo.objects
    BY DEF TableInv
  <2>2. PICK c \in S : Covered(repo.objects[c]) \cap S = {}
    BY <1>1, <2>1 DEF ObjectsInv, SoundObjects
  <2>3. Order!ParentSet(dictOfParentHashes, c) = Covered(repo.objects[c])
    BY TableParents DEF Order!Parents
  <2> QED
    BY <2>2, <2>3
<1> QED
  BY <1>1 DEF TableInv, AcyclicTables, Order!Acyclic

(* The ordering starts in a state its own theorems are about.               *)
LEMMA CoreStarts ==
  ObjectsInv /\ TableInv /\ Untouched => Core!IndInv /\ Core!Accounted /\ Core!HadToDie
<1> SUFFICES ASSUME ObjectsInv, TableInv, Untouched
             PROVE  Core!IndInv /\ Core!Accounted /\ Core!HadToDie
  OBVIOUS
<1>1. heads \in Seq(AnyHash)
  BY DEF TableInv, AnyHash
<1>2. Core!Init
  BY <1>1, TableAcyclic DEF Untouched, Core!Init, Core!NewNode, Order!NewNode
<1>3. Core!IndInv
  BY <1>2, CoreAssumptions, Core!InitInd
<1>4. Core!Accounted
  <2>1. output = <<>> /\ pc # "done" /\ orderedCommits = <<>>
    BY DEF Untouched
  <2>2. DOMAIN orderedCommits = {}
    BY <2>1
  <2>3. \A i, j \in DOMAIN orderedCommits : orderedCommits[i] = orderedCommits[j] => i = j
    BY <2>2
  <2> QED
    BY <2>1, <2>3, CoreAssumptions, Core!AccountedEmpty
<1>5. Core!HadToDie
  BY DEF Untouched, Core!HadToDie
<1> QED
  BY <1>3, <1>4, <1>5
------------------------------------------------------------------------------
(* Git keeps the objects sound, and those that are there.                   *)
Added(objects, more) ==
  \A h \in DOMAIN objects : h \in DOMAIN more /\ more[h] = objects[h]

(* A new object covers what is there, and none of that covers it.           *)
LEMMA SoundWith ==
  ASSUME NEW o, SoundObjects(o), NEW h \in Hash \ DOMAIN o, NEW content \in Contents,
         Covered(content) \subseteq DOMAIN o \cup {Foreign}
  PROVE  SoundObjects(With(o, h, content)) /\ Added(o, With(o, h, content))
<1>1. PICK w : w = With(o, h, content)
  OBVIOUS
<1>2. /\ DOMAIN w = DOMAIN o \cup {h} /\ w[h] = content
      /\ \A g \in DOMAIN o : g # h /\ w[g] = o[g]
  BY <1>1 DEF With
<1>3. DOMAIN w \subseteq Hash
  BY <1>2 DEF SoundObjects
<1>4. SoundObject(w, h)
  BY <1>2, RepositoryAssumption DEF SoundObject
<1>5. \A g \in DOMAIN o : SoundObject(w, g)
  BY <1>2 DEF SoundObject, SoundObjects
<1>6. \A g \in DOMAIN o : h \notin Covered(w[g])
  <2>1. h # Foreign
    BY HashAssumption
  <2> QED
    BY <1>2, <2>1 DEF SoundObject, SoundObjects
<1>7. h \notin Covered(w[h])
  BY <1>2, HashAssumption
<1>8. ASSUME NEW S \in SUBSET DOMAIN w, S # {}
      PROVE  \E g \in S : Covered(w[g]) \cap S = {}
  <2>1. CASE S \subseteq {h}
    BY <1>7, <1>8, <2>1
  <2>2. CASE ~ (S \subseteq {h})
    <3>1. S \ {h} # {} /\ S \ {h} \in SUBSET DOMAIN o
      BY <1>2, <2>2
    <3>2. PICK g \in S \ {h} : Covered(o[g]) \cap (S \ {h}) = {}
      BY <3>1 DEF SoundObjects
    <3>3. Covered(w[g]) \cap S = {}
      BY <1>2, <1>6, <3>1, <3>2
    <3> QED
      BY <3>2, <3>3
  <2> QED
    BY <2>1, <2>2
<1>9. SoundObjects(w)
  BY <1>2, <1>3, <1>4, <1>5, <1>8 DEF SoundObjects
<1> QED
  BY <1>1, <1>2, <1>9 DEF Added

(* The disk stays what it is.                                               *)
LEMMA WriteObjects ==
  ASSUME ObjectsInv, NEW h \in Hash, Writes(h)
  PROVE  ObjectsInv' /\ Added(repo.objects, repo'.objects)
<1>1. /\ DOMAIN repo' = RepoFields
      /\ repo'.refs = repo.refs /\ repo'.locks = repo.locks /\ repo'.packed = repo.packed
  BY WritesFacts DEF ObjectsInv
<1>2. CASE CreateObject(h)
  <2>1. PICK content \in Contents :
          /\ { content.parents[i] : i \in DOMAIN content.parents } \subseteq Commits
          /\ { content.mentions[i] : i \in DOMAIN content.mentions } \subseteq Commits \cup {Foreign}
          /\ repo' = [repo EXCEPT !.objects = With(@, h, content),
                                  !.temp    = With(@, h, "partial"),
                                  !.dirs    = @ \cup {DirOf[h]}]
    BY <1>2 DEF CreateObject
  <2>2. /\ repo'.objects = With(repo.objects, h, content)
        /\ repo'.temp = With(repo.temp, h, "partial")
        /\ repo'.loose = repo.loose
    BY <2>1 DEF ObjectsInv, RepoFields
  <2>3. h \in Hash \ DOMAIN repo.objects
    BY <1>2 DEF CreateObject
  <2>4. Commits \subseteq DOMAIN repo.objects
    BY DEF Commits, ObjectsInv
  <2>5. Covered(content) \subseteq DOMAIN repo.objects \cup {Foreign}
    BY <2>1, <2>4 DEF Covered
  <2>6. SoundObjects(repo'.objects) /\ Added(repo.objects, repo'.objects)
    BY <2>2, <2>3, <2>5, SoundWith DEF ObjectsInv
  <2>7. DOMAIN repo'.objects = DOMAIN repo.objects \cup {h} /\ DOMAIN repo'.temp = DOMAIN repo.temp \cup {h}
    BY <2>2 DEF With
  <2> QED
    BY <1>1, <2>2, <2>6, <2>7 DEF ObjectsInv
<1>3. ASSUME repo'.objects = repo.objects,
             repo'.loose \cup DOMAIN repo'.temp \subseteq repo.loose \cup DOMAIN repo.temp
      PROVE  ObjectsInv' /\ Added(repo.objects, repo'.objects)
  BY <1>1, <1>3 DEF ObjectsInv, Added
<1>4. CASE CompleteObject(h)
  <2>1. /\ repo'.objects = repo.objects /\ repo'.loose = repo.loose
        /\ DOMAIN repo'.temp = DOMAIN repo.temp
    BY <1>4 DEF CompleteObject, ObjectsInv, RepoFields
  <2> QED
    BY <1>3, <2>1
<1>5. CASE RenameObject(h)
  <2>1. /\ repo'.objects = repo.objects /\ repo'.loose = repo.loose \cup {h}
        /\ repo'.temp = Without(repo.temp, h) /\ h \in DOMAIN repo.temp
    BY <1>5 DEF RenameObject, ObjectsInv, RepoFields
  <2> QED
    BY <1>3, <2>1 DEF Without
<1> QED
  BY <1>2, <1>4, <1>5 DEF Writes

(* So it does when branches move.                                           *)
LEMMA UpdateObjects ==
  ASSUME ObjectsInv, NEW b \in Branch, Updates(b) \/ DeleteBranch(b)
  PROVE  ObjectsInv' /\ Added(repo.objects, repo'.objects)
<1>1. ObjectsStay
  BY UpdatesFacts, DeleteFacts DEF ObjectsInv
<1>2. ASSUME DOMAIN repo'.refs \cup DOMAIN repo'.locks \subseteq Branch,
             \A a \in DOMAIN repo'.refs : repo'.refs[a] \in Hash,
             \A a \in DOMAIN repo'.locks : repo'.locks[a] \in Hash \cup {NoHash}
      PROVE  ObjectsInv' /\ Added(repo.objects, repo'.objects)
  BY <1>1, <1>2 DEF ObjectsStay, ObjectsInv, Added
<1>3. CASE LockBranch(b)
  <2>1. repo'.refs = repo.refs /\ repo'.locks = With(repo.locks, b, NoHash)
    BY <1>3 DEF LockBranch, ObjectsInv, RepoFields
  <2> QED
    BY <1>2, <2>1 DEF With, ObjectsInv
<1>4. CASE RenameLock(b)
  <2>1. /\ repo'.refs = With(repo.refs, b, repo.locks[b])
        /\ repo'.locks = Without(repo.locks, b)
        /\ b \in DOMAIN repo.locks /\ repo.locks[b] # NoHash
    BY <1>4 DEF RenameLock, ObjectsInv, RepoFields
  <2> QED
    BY <1>2, <2>1 DEF With, Without, ObjectsInv
<1>5. CASE DropLock(b)
  <2>1. repo'.refs = repo.refs /\ repo'.locks = Without(repo.locks, b)
    BY <1>5 DEF DropLock, ObjectsInv, RepoFields
  <2> QED
    BY <1>2, <2>1 DEF Without, ObjectsInv
<1>6. ASSUME NEW h \in Hash, WriteLock(b, h)
      PROVE  ObjectsInv' /\ Added(repo.objects, repo'.objects)
  <2>1. repo'.refs = repo.refs /\ repo'.locks = [repo.locks EXCEPT ![b] = h]
    BY <1>6 DEF WriteLock, ObjectsInv, RepoFields
  <2> QED
    BY <1>2, <2>1 DEF ObjectsInv
<1>7. CASE DeleteBranch(b)
  <2>1. repo'.locks = repo.locks /\ repo'.refs = Without(repo.refs, b)
    BY <1>7 DEF DeleteBranch, ObjectsInv, RepoFields
  <2> QED
    BY <1>2, <2>1 DEF Without, ObjectsInv
<1> QED
  BY <1>3, <1>4, <1>5, <1>6, <1>7 DEF Updates

(* gc moves objects, and loses none.                                        *)
LEMMA CollectObjects ==
  ASSUME ObjectsInv, Collects
  PROVE  ObjectsInv' /\ Added(repo.objects, repo'.objects)
<1>1. ASSUME NEW h \in Hash, PruneObject(h)
      PROVE  ObjectsInv' /\ Added(repo.objects, repo'.objects)
  BY <1>1 DEF PruneObject, ObjectsInv, RepoFields, Added
<1>2. ASSUME NEW b \in Branch, PackBranch(b)
      PROVE  ObjectsInv' /\ Added(repo.objects, repo'.objects)
  <2>1. /\ DOMAIN repo' = RepoFields /\ repo'.refs = Without(repo.refs, b)
        /\ repo'.objects = repo.objects /\ repo'.loose = repo.loose /\ repo'.packed = repo.packed
        /\ repo'.temp = repo.temp /\ repo'.locks = repo.locks
    BY <1>2 DEF PackBranch, ObjectsInv, RepoFields
  <2> QED
    BY <2>1 DEF Without, ObjectsInv, Added
<1>3. CASE PackObjects
  BY <1>3 DEF PackObjects, ObjectsInv, RepoFields, Added
<1>4. ASSUME NEW d \in repo.dirs, RemoveDirectory(d)
      PROVE  ObjectsInv' /\ Added(repo.objects, repo'.objects)
  BY <1>4 DEF RemoveDirectory, ObjectsInv, RepoFields, Added
<1> QED
  BY <1>1, <1>2, <1>3, <1>4 DEF Collects

(* Whatever git does.                                                       *)
LEMMA GitObjects ==
  ASSUME ObjectsInv, GitNext
  PROVE  ObjectsInv' /\ Added(repo.objects, repo'.objects)
  BY GitKinds, WriteObjects, UpdateObjects, CollectObjects
------------------------------------------------------------------------------
(* The steps of the script.  While it reads, the ordering is untouched.     *)
LEMMA LoaderTable ==
  ASSUME ObjectsInv, TableInv, LoaderNext
  PROVE  TableInv' /\ repo' = repo
<1>1. repo' = repo
  BY DEF LoaderNext, ListRefs, ReadRef, RefsError, EndRefs, ListObjects, ListFiles,
         ReadFile, EndFiles, ObjectsError, EndObjects, git
<1>2. ASSUME heads' = heads, dictOfParentHashes' = dictOfParentHashes  PROVE TableInv'
  BY <1>1, <1>2 DEF TableInv
<1>3. CASE ReadRef
  <2>1. PICK entry \in RefEntries :
          /\ entry[1] # "directory" /\ heads' = Append(heads, FirstLine(entry))
          /\ dictOfParentHashes' = dictOfParentHashes
    BY <1>3 DEF ReadRef
  <2>2. FirstLine(entry) \in Hash \cup {NoHash}
    <3>1. CASE \E b \in DOMAIN repo.refs : entry = <<"branch", b>>
      BY <3>1 DEF ObjectsInv, FirstLine
    <3>2. CASE \E b \in DOMAIN repo.locks : entry = <<"lock", b>>
      BY <3>2 DEF ObjectsInv, FirstLine
    <3>3. CASE entry = <<"directory", 0>>
      BY <2>1, <3>3
    <3> QED
      BY <3>1, <3>2, <3>3 DEF RefEntries
  <2>3. heads' \in Seq(Hash \cup {NoHash})
    BY <2>1, <2>2 DEF TableInv
  <2> QED
    BY <1>1, <2>1, <2>3 DEF TableInv
<1>4. CASE ReadFile
  <2>1. PICK file \in FilesIn(directory) :
          /\ Parses(file)
          /\ dictOfParentHashes' = IF IsCommit(file)
                                   THEN With(dictOfParentHashes, Key(file), ParentsList(file))
                                   ELSE dictOfParentHashes
    BY <1>4 DEF ReadFile, Opens
  <2>2. heads' = heads
    BY <1>4 DEF ReadFile
  <2>3. CASE IsCommit(file)
    <3>1. PICK h \in repo.loose : file = <<"object", h>>
      BY <2>1, <2>3 DEF FilesIn, IsCommit
    <3>2. /\ h \in DOMAIN repo.objects /\ h \in Hash
          /\ repo.objects[h].kind = "commit" /\ SoundObject(repo.objects, h)
      BY <2>3, <3>1 DEF ObjectsInv, SoundObjects, IsCommit, ContentOf
    <3>3. PICK p, m : p = repo.objects[h].parents /\ m = repo.objects[h].mentions
      OBVIOUS
    <3>4. p \o m \in Seq(AnyHash)
      <4>1. p \in Seq(Hash) /\ m \in Seq(Hash \cup {Foreign})
        BY <3>2, <3>3 DEF SoundObject
      <4>2. p \in Seq(AnyHash) /\ m \in Seq(AnyHash)
        BY <4>1 DEF AnyHash
      <4> QED
        BY <4>2
    <3>5. PICK t : t = dictOfParentHashes'
      OBVIOUS
    <3>6. t = With(dictOfParentHashes, h, p \o m)
      BY <2>1, <2>3, <3>1, <3>3, <3>5 DEF Key, ParentsList, ContentOf
    <3>7. PICK D \in SUBSET Hash : dictOfParentHashes \in [D -> Seq(AnyHash)]
      BY DEF TableInv, Tables
    <3>8. t \in [D \cup {h} -> Seq(AnyHash)]
      BY <3>4, <3>6, <3>7 DEF With
    <3>9. t \in Tables
      BY <3>2, <3>8 DEF Tables
    <3>10. \A g \in DOMAIN t :
             /\ g \in DOMAIN repo.objects
             /\ repo.objects[g].kind = "commit"
             /\ t[g] = repo.objects[g].parents \o repo.objects[g].mentions
      BY <3>2, <3>3, <3>6 DEF With, TableInv
    <3> QED
      BY <1>1, <2>2, <3>5, <3>9, <3>10 DEF TableInv
  <2>4. CASE ~ IsCommit(file)
    <3>1. dictOfParentHashes' = dictOfParentHashes
      BY <2>1, <2>4
    <3> QED
      BY <1>1, <1>2, <2>2, <3>1
  <2> QED
    BY <2>3, <2>4
<1>5. CASE ListRefs \/ RefsError \/ EndRefs \/ ListObjects
  BY <1>1, <1>2, <1>5 DEF ListRefs, RefsError, EndRefs, ListObjects
<1>6. CASE ListFiles \/ EndFiles \/ ObjectsError \/ EndObjects
  BY <1>1, <1>2, <1>6 DEF ListFiles, EndFiles, ObjectsError, EndObjects
<1> QED
  BY <1>1, <1>3, <1>4, <1>5, <1>6 DEF LoaderNext

(* Git adds objects, and the table keeps what it has read of the others.    *)
LEMMA GitTable ==
  ASSUME TableInv, Added(repo.objects, repo'.objects), UNCHANGED loader
  PROVE  TableInv'
<1>1. heads' = heads /\ dictOfParentHashes' = dictOfParentHashes
  BY DEF loader
<1> QED
  BY <1>1 DEF TableInv, Added

(* What a step of the script does to the disk.                              *)
LEMMA ScriptLeaves ==
  ASSUME ScriptNext \/ UNCHANGED allVars
  PROVE  UNCHANGED git
<1>1. LoadHistory => UNCHANGED git
  BY DEF LoadHistory, LoaderNext, ListRefs, ReadRef, RefsError, EndRefs, ListObjects,
         ListFiles, ReadFile, EndFiles, ObjectsError, EndObjects
<1>2. OrderAndPrint => UNCHANGED git
  BY OrderReads
<1> QED
  BY <1>1, <1>2 DEF ScriptNext, FindRepository, NoRefsError, allVars, loaderVars

BaseInv == ObjectsInv /\ TableInv /\ StartedInv

(* While the script reads it leaves the order of the commits alone.         *)
LEMMA LoaderUntouched ==
  ASSUME Untouched, LoaderNext, UNCHANGED orderVars
  PROVE  Untouched'
<1>1. listOfHashes' = heads'
  BY DEF Untouched, LoaderNext, ListRefs, ReadRef, RefsError, EndRefs, ListObjects,
         ListFiles, ReadFile, EndFiles, ObjectsError, EndObjects
<1> QED
  BY <1>1 DEF Untouched, orderVars, Order!NewNode

(* Each step keeps the first three invariants.                              *)
LEMMA BaseStep ==
  ASSUME BaseInv, [Next]_allVars
  PROVE  BaseInv'
<1>1. ASSUME UNCHANGED <<git, heads, listOfHashes, dictOfParentHashes, orderVars>>,
             stage' = stage \/ (stage = "listRefs" /\ stage' = "noRefs")
      PROVE  BaseInv'
  <2>1. repo' = repo
    BY <1>1 DEF git
  <2>2. ObjectsInv' /\ TableInv'
    BY <1>1, <2>1 DEF BaseInv, ObjectsInv, TableInv
  <2>3. CASE stage # "loaded"
    <3>1. Untouched'
      BY <1>1, <2>3 DEF BaseInv, StartedInv, Untouched, orderVars, Order!NewNode
    <3> QED
      BY <1>1, <2>2, <2>3, <3>1 DEF BaseInv, StartedInv
  <2>4. CASE stage = "loaded"
    <3>1. (Core!IndInv /\ Core!Accounted /\ Core!HadToDie)'
      BY <1>1, <2>4, CoreKept DEF BaseInv, StartedInv
    <3> QED
      BY <1>1, <2>2, <2>4, <3>1 DEF BaseInv, StartedInv
  <2> QED
    BY <2>3, <2>4
<1>2. CASE FindRepository \/ NoRefsError \/ UNCHANGED allVars
  BY <1>1, <1>2 DEF FindRepository, NoRefsError, allVars, loaderVars, loader
<1>3. CASE LoadHistory
  <2>1. LoaderNext /\ UNCHANGED orderVars /\ stage # "loaded"
    BY <1>3 DEF LoadHistory, LoaderNext, ListRefs, ReadRef, RefsError, EndRefs, ListObjects,
                ListFiles, ReadFile, EndFiles, ObjectsError, EndObjects
  <2>2. TableInv' /\ repo' = repo
    BY <2>1, LoaderTable DEF BaseInv
  <2>3. ObjectsInv'
    BY <2>2 DEF BaseInv, ObjectsInv
  <2>4. Untouched'
    BY <2>1, LoaderUntouched DEF BaseInv, StartedInv
  <2>5. (Core!IndInv /\ Core!Accounted /\ Core!HadToDie)'
    BY <2>2, <2>3, <2>4, CoreStarts, PTL
  <2> QED
    BY <2>2, <2>3, <2>4, <2>5 DEF BaseInv, StartedInv
<1>4. CASE OrderAndPrint
  <2>1. UNCHANGED <<git, stage, heads, dictOfParentHashes>> /\ stage = "loaded" /\ Order!Next
    BY <1>4, OrderReads DEF OrderAndPrint
  <2>2. repo' = repo
    BY <2>1 DEF git
  <2>3. ObjectsInv' /\ TableInv'
    BY <2>1, <2>2 DEF BaseInv, ObjectsInv, TableInv
  <2>4. (Core!IndInv /\ Core!Accounted /\ Core!HadToDie)'
    BY <2>1, CoreKept DEF BaseInv, StartedInv
  <2> QED
    BY <2>1, <2>3, <2>4 DEF BaseInv, StartedInv
<1>5. CASE GitAtWork
  <2>1. GitNext /\ UNCHANGED loader /\ UNCHANGED orderVars /\ stage # "loaded" /\ stage' = stage
    BY <1>5 DEF GitAtWork, Reading, loader
  <2>2. ObjectsInv' /\ TableInv'
    BY <2>1, GitObjects, GitTable DEF BaseInv
  <2>3. Untouched'
    BY <2>1 DEF BaseInv, StartedInv, Untouched, orderVars, loader, Order!NewNode
  <2> QED
    BY <2>1, <2>2, <2>3 DEF BaseInv, StartedInv
<1> QED
  BY <1>2, <1>3, <1>4, <1>5 DEF Next, ScriptNext
------------------------------------------------------------------------------
(* The branches.  What is listed is an entry of refs/heads.                 *)
LEMMA RefEntriesType == ObjectsInv => RefEntries \subseteq Entries
<1> SUFFICES ASSUME ObjectsInv, NEW entry \in RefEntries  PROVE entry \in Entries
  OBVIOUS
<1>1. CASE \E b \in DOMAIN repo.refs : entry = <<"branch", b>>
  BY <1>1 DEF ObjectsInv, Entries
<1>2. CASE \E b \in DOMAIN repo.locks : entry = <<"lock", b>>
  BY <1>2 DEF ObjectsInv, Entries
<1>3. CASE entry = <<"directory", 0>>
  BY <1>3 DEF Entries
<1> QED
  BY <1>1, <1>2, <1>3 DEF RefEntries

BranchesInv == NamesInv /\ KeptInv /\ SameInv

(* Git does not look back;                                                  *)
LEMMA OriginalStays == GitNext => original' = original
  BY DEF GitNext, CreateObject, CompleteObject, RenameObject, PruneObject, LockBranch,
         RenameLock, DeleteBranch, DropLock, PackBranch, WriteLock, PackObjects,
         RemoveDirectory, Step

(* and only deleting and packing take a branch away.                        *)
LEMMA UpdatesKeep ==
  ASSUME DOMAIN repo = RepoFields, NEW b \in Branch, Updates(b)
  PROVE  DOMAIN repo.refs \subseteq DOMAIN repo'.refs
<1>1. CASE RenameLock(b)
  <2>1. repo'.refs = With(repo.refs, b, repo.locks[b])
    BY <1>1 DEF RenameLock, RepoFields
  <2> QED
    BY <2>1 DEF With
<1>2. CASE LockBranch(b) \/ DropLock(b) \/ \E h \in Hash : WriteLock(b, h)
  BY <1>2 DEF LockBranch, DropLock, WriteLock, RepoFields
<1> QED
  BY <1>1, <1>2 DEF Updates

(* Git's steps keep what is known of the branches.                          *)
LEMMA GitBranches ==
  ASSUME ObjectsInv, BranchesInv, GitNext, UNCHANGED loader
  PROVE  BranchesInv'
<1>1. /\ stage' = stage /\ refsTodo' = refsTodo /\ names' = names /\ heads' = heads
      /\ original' = original /\ DOMAIN repo = RepoFields
  BY OriginalStays DEF loader, ObjectsInv
<1>2. NamesInv'
  BY <1>1 DEF BranchesInv, NamesInv
<1>3. CASE \E h \in Hash : Writes(h)
  <2>1. repo'.refs = repo.refs /\ repo'.locks = repo.locks /\ happened \subseteq happened'
    BY <1>1, <1>3, WritesFacts DEF Remembers
  <2>2. KeptInv'
    BY <1>1, <2>1 DEF BranchesInv, KeptInv, Pending
  <2>3. SameInv'
    BY <1>1, <2>1 DEF BranchesInv, SameInv, IsOriginal
  <2> QED
    BY <1>2, <2>2, <2>3 DEF BranchesInv
<1>4. ASSUME NEW b \in Branch, Updates(b)  PROVE BranchesInv'
  <2>1. DOMAIN repo.refs \subseteq DOMAIN repo'.refs /\ happened' = happened \cup {"update"}
    BY <1>1, <1>4, UpdatesFacts, UpdatesKeep DEF Remembers
  <2>2. KeptInv'
    BY <1>1, <2>1 DEF BranchesInv, KeptInv, Pending
  <2>3. SameInv'
    BY <2>1 DEF SameInv
  <2> QED
    BY <1>2, <2>2, <2>3 DEF BranchesInv
<1>5. CASE Collects \/ \E b \in Branch : DeleteBranch(b)
  <2>1. happened' \cap {"delete", "gc"} # {}
    BY <1>1, <1>5, CollectsFacts, DeleteFacts DEF Remembers
  <2> QED
    BY <1>2, <2>1 DEF BranchesInv, KeptInv, SameInv
<1> QED
  BY <1>3, <1>4, <1>5, GitKinds

(* One more branch is read.                                                 *)
LEMMA ReadBranches ==
  ASSUME ObjectsInv, TableInv, BranchesInv, ReadRef
  PROVE  BranchesInv'
<1>1. PICK entry \in refsTodo :
        /\ entry \in RefEntries /\ entry[1] # "directory"
        /\ refsTodo' = refsTodo \ {entry}
        /\ names' = Append(names, entry) /\ heads' = Append(heads, FirstLine(entry))
  BY DEF ReadRef, ReadOff
<1>2. stage = "readRefs" /\ stage' = "readRefs" /\ UNCHANGED git
  BY DEF ReadRef
<1>3. PICK n : n = Len(names)
  OBVIOUS
<1>4. entry \in Entries
  BY <1>1 DEF BranchesInv, NamesInv
<1>5. /\ n \in Nat /\ DOMAIN names = 1..n /\ n = Len(heads) /\ DOMAIN heads = 1..n
      /\ names' \in Seq(Entries) /\ DOMAIN names' = 1..(n + 1)
      /\ Len(names') = n + 1 /\ Len(heads') = n + 1
      /\ names'[n + 1] = entry /\ heads'[n + 1] = FirstLine(entry)
      /\ \A i \in 1..n : names'[i] = names[i] /\ heads'[i] = heads[i]
  <2>1. names \in Seq(Entries) /\ n \in Nat /\ DOMAIN names = 1..n /\ n = Len(heads)
    BY <1>3, LenProperties DEF BranchesInv, NamesInv
  <2>2. /\ Append(names, entry) \in Seq(Entries) /\ Len(Append(names, entry)) = n + 1
        /\ DOMAIN Append(names, entry) = 1..(n + 1)
        /\ Append(names, entry)[n + 1] = entry
        /\ \A i \in 1..n : Append(names, entry)[i] = names[i]
    BY <1>3, <1>4, <2>1, AppendProperties
  <2>3. PICK T : heads \in Seq(T) /\ FirstLine(entry) \in T
    <3>1. heads \in Seq(Hash \cup {NoHash})
      BY DEF TableInv
    <3>2. heads \in Seq((Hash \cup {NoHash}) \cup {FirstLine(entry)})
      BY <3>1
    <3> QED
      BY <3>2
  <2>4. /\ Len(Append(heads, FirstLine(entry))) = n + 1 /\ DOMAIN heads = 1..n
        /\ Append(heads, FirstLine(entry))[n + 1] = FirstLine(entry)
        /\ \A i \in 1..n : Append(heads, FirstLine(entry))[i] = heads[i]
    BY <2>1, <2>3, AppendProperties, LenProperties
  <2> QED
    BY <1>1, <2>1, <2>2, <2>4
<1>6. \A i \in 1..(n + 1) : i \in 1..n \/ i = n + 1
  BY <1>5
<1>7. \A i \in 1..n : names[i] # entry
  BY <1>1, <1>5 DEF BranchesInv, NamesInv
<1>8. NamesInv'
  <2>1. \A i, j \in 1..(n + 1) : names'[i] = names'[j] => i = j
    BY <1>5, <1>6, <1>7 DEF BranchesInv, NamesInv
  <2>2. \A i \in 1..(n + 1) : names'[i] \notin refsTodo'
    BY <1>1, <1>5, <1>6 DEF BranchesInv, NamesInv
  <2> QED
    BY <1>1, <1>2, <1>5, <2>1, <2>2 DEF BranchesInv, NamesInv, Read
<1>9. repo' = repo /\ original' = original /\ happened' = happened
  BY <1>2 DEF git
<1>10. refsTodo \cup Order!SeqRange(names) \subseteq refsTodo' \cup Order!SeqRange(names)'
  <2>1. \A i \in 1..n : i \in DOMAIN names' /\ names'[i] = names[i]
    BY <1>5
  <2>2. n + 1 \in DOMAIN names'
    BY <1>5
  <2> QED
    BY <1>1, <1>5, <2>1, <2>2 DEF Order!SeqRange
<1>11. KeptInv'
  BY <1>2, <1>9, <1>10 DEF BranchesInv, KeptInv, Pending
<1>12. SameInv'
  <2> SUFFICES ASSUME happened \cap {"update", "delete", "gc"} = {}
               PROVE  /\ \A e \in refsTodo' : e[1] # "directory" => IsOriginal(e)
                      /\ \A i \in 1..(n + 1) :
                           IsOriginal(names'[i]) /\ heads'[i] = original[names'[i][2]]
    BY <1>5, <1>9 DEF BranchesInv, SameInv, IsOriginal
  <2>1. IsOriginal(entry) /\ repo.refs = original
    BY <1>1 DEF BranchesInv, SameInv
  <2>2. FirstLine(entry) = original[entry[2]]
    BY <2>1 DEF IsOriginal, FirstLine
  <2> QED
    BY <1>1, <1>5, <1>6, <2>1, <2>2 DEF BranchesInv, SameInv
<1> QED
  BY <1>8, <1>11, <1>12 DEF BranchesInv

(* The branches through the rest of the script.                             *)
LEMMA BranchesKept ==
  ASSUME BranchesInv, UNCHANGED <<git, refsTodo, names, heads>>,
         \/ stage' = stage
         \/ stage' \notin Read \cup {"readRefs", "listRefs"}
         \/ stage' \in Read /\ stage \in Read \cup {"readRefs"} /\ refsTodo = {}
  PROVE  BranchesInv'
<1>1. repo' = repo /\ original' = original /\ happened' = happened
  BY DEF git
<1>2. NamesInv'
  BY <1>1 DEF BranchesInv, NamesInv, Read
<1>3. KeptInv'
  BY <1>1 DEF BranchesInv, KeptInv, Pending, Read
<1>4. SameInv'
  BY <1>1 DEF BranchesInv, SameInv, IsOriginal
<1> QED
  BY <1>2, <1>3, <1>4 DEF BranchesInv

(* The steps of the reading do.                                             *)
LEMMA LoaderBranches ==
  ASSUME ObjectsInv, TableInv, BranchesInv, LoaderNext
  PROVE  BranchesInv'
<1> USE DEF Following
<1>1. CASE ListRefs
  <2>1. /\ stage = "listRefs" /\ stage' = "readRefs" /\ refsTodo' = RefEntries
        /\ UNCHANGED <<git, names, heads>>
    BY <1>1 DEF ListRefs
  <2>2. repo' = repo /\ original' = original /\ happened' = happened
    BY <2>1 DEF git
  <2>3. names = <<>> /\ DOMAIN names = {}
    BY <2>1 DEF BranchesInv, NamesInv
  <2>4. NamesInv'
    BY <2>1, <2>3, RefEntriesType DEF BranchesInv, NamesInv, Read
  <2>5. KeptInv'
    <3>1. DOMAIN original \subseteq DOMAIN repo.refs => \A b \in DOMAIN original : <<"branch", b>> \in RefEntries
      BY DEF RefEntries
    <3> QED
      BY <2>1, <2>2, <3>1 DEF BranchesInv, KeptInv, Pending
  <2>6. SameInv'
    <3>1. ASSUME repo.refs = original, DOMAIN repo.locks = {}, NEW e \in RefEntries, e[1] # "directory"
          PROVE  IsOriginal(e)
      <4>1. e # <<"directory", 0>>
        BY <3>1
      <4> QED
        BY <3>1, <4>1 DEF RefEntries, IsOriginal
    <3> QED
      BY <2>1, <2>2, <2>3, <3>1 DEF BranchesInv, SameInv, IsOriginal
  <2> QED
    BY <2>4, <2>5, <2>6 DEF BranchesInv
<1>2. CASE RefsError \/ ObjectsError
  BY <1>2, BranchesKept DEF RefsError, ObjectsError, Read
<1>3. CASE EndRefs
  BY <1>3, BranchesKept DEF EndRefs, Read
<1>4. CASE ListObjects \/ ListFiles \/ EndFiles \/ EndObjects
  <2>1. stage \in Read /\ stage' \in Read /\ UNCHANGED <<git, refsTodo, names, heads>>
    BY <1>4 DEF ListObjects, ListFiles, EndFiles, EndObjects, Read
  <2> QED
    BY <2>1, BranchesKept DEF BranchesInv, NamesInv
<1>5. CASE ReadFile
  BY <1>5, BranchesKept DEF ReadFile
<1> QED
  BY <1>1, <1>2, <1>3, <1>4, <1>5, ReadBranches DEF LoaderNext

(* Each step keeps what is known of the branches.                           *)
LEMMA BranchesStep ==
  ASSUME ObjectsInv, TableInv, BranchesInv, [Next]_allVars
  PROVE  BranchesInv'
<1>1. CASE FindRepository \/ UNCHANGED allVars
  BY <1>1, BranchesKept DEF FindRepository, allVars, loaderVars, loader
<1>2. CASE NoRefsError
  BY <1>2, BranchesKept DEF NoRefsError, Read
<1>3. CASE LoadHistory
  BY <1>3, LoaderBranches DEF LoadHistory
<1>4. CASE OrderAndPrint
  <2>1. UNCHANGED <<git, stage, refsTodo, names, heads>>
    BY <1>4, OrderReads DEF OrderAndPrint
  <2> QED
    BY <2>1, BranchesKept
<1>5. CASE GitAtWork
  BY <1>5, GitBranches DEF GitAtWork
<1> QED
  BY <1>1, <1>2, <1>3, <1>4, <1>5 DEF Next, ScriptNext
------------------------------------------------------------------------------
(* The objects of the start, as long as there is no gc.                     *)
LEMMA OriginalsKept ==
  ASSUME NEW K \in SUBSET Hash, Originals(K), repo.loose \subseteq DOMAIN repo.objects,
         repo.loose \subseteq repo'.loose, Added(repo.objects, repo'.objects),
         original' = original,
         stage' \in {"listFiles", "readFiles", "loaded"} =>
           \A h \in K : repo.objects[h].kind # "other" => Awaited(h)'
  PROVE  Originals(K)'
<1>1. \A h \in K : repo'.objects[h] = repo.objects[h]
  BY DEF Originals, Added
<1> QED
  BY <1>1 DEF Originals

(* Git's steps lose none of them.                                           *)
LEMMA GitOriginals ==
  ASSUME ObjectsInv, CoverInv, OriginalsInv, GitNext, UNCHANGED loader
  PROVE  OriginalsInv'
<1>1. CASE Collects
  BY <1>1, CollectsFacts DEF OriginalsInv, Remembers, ObjectsInv
<1>2. ASSUME "gc" \notin happened',
             \/ \E h \in Hash : Writes(h)
             \/ \E b \in Branch : Updates(b) \/ DeleteBranch(b)
      PROVE  \E K \in SUBSET Hash : Originals(K)'
  <2>1. "gc" \notin happened
    BY <1>2, WritesFacts, UpdatesFacts, DeleteFacts DEF Remembers, ObjectsInv
  <2>2. DiskInv
    BY <2>1 DEF CoverInv
  <2>3. Grows
    BY <1>2, <2>2, CreateGrows, WriteGrows, UpdateGrows DEF Writes
  <2>4. PICK K \in SUBSET Hash : Originals(K)
    BY <2>1 DEF OriginalsInv
  <2>5. \A h : Awaited(h) => Awaited(h)'
    BY DEF loader, Awaited
  <2>6. stage' = stage
    BY DEF loader
  <2>7. Originals(K)'
    BY <2>2, <2>3, <2>4, <2>5, <2>6, OriginalStays, OriginalsKept DEF Grows, Added, Originals, DiskInv
  <2> QED
    BY <2>7
<1> QED
  BY <1>1, <1>2, GitKinds DEF OriginalsInv

(* The reading does not lose one of its commits.                            *)
LEMMA LoaderOriginals ==
  ASSUME ObjectsInv, CoverInv, OriginalsInv, LoaderNext, UNCHANGED git
  PROVE  OriginalsInv'
<1> SUFFICES ASSUME "gc" \notin happened  PROVE \E K \in SUBSET Hash : Originals(K)'
  BY DEF OriginalsInv, git
<1>1. repo' = repo /\ original' = original /\ DiskInv
  BY DEF git, CoverInv
<1>2. PICK K \in SUBSET Hash : Originals(K)
  BY DEF OriginalsInv
<1>3. Added(repo.objects, repo'.objects)
  BY <1>1 DEF Added
<1>4. ASSUME stage' \in {"listFiles", "readFiles", "loaded"},
             NEW h \in K, repo.objects[h].kind # "other"
      PROVE  Awaited(h)'
  <2>1. h \in Commits
    BY <1>2, <1>4 DEF Originals, Commits
  <2>2. stage \in {"listFiles", "readFiles"} => Awaited(h)
    BY <1>2, <1>4 DEF Originals
  <2> QED
    BY <1>1, <1>4, <2>1, <2>2, LoaderAwaits
<1>5. Originals(K)'
  BY <1>1, <1>2, <1>3, <1>4, OriginalsKept DEF DiskInv
<1> QED
  BY <1>5

(* Each step keeps them.                                                    *)
LEMMA OriginalsStep ==
  ASSUME ObjectsInv, CoverInv, OriginalsInv, [Next]_allVars
  PROVE  OriginalsInv'
<1>1. ASSUME UNCHANGED <<git, dirsTodo, directory, filesTodo, dictOfParentHashes>>,
             stage' \in {stage, "noRefs"}
      PROVE  OriginalsInv'
  <2> SUFFICES ASSUME "gc" \notin happened  PROVE \E K \in SUBSET Hash : Originals(K)'
    BY <1>1 DEF OriginalsInv, git
  <2>1. repo' = repo /\ original' = original
    BY <1>1 DEF git
  <2>2. PICK K \in SUBSET Hash : Originals(K)
    BY DEF OriginalsInv
  <2>3. stage' \in {"listFiles", "readFiles", "loaded"} =>
           \A h \in K : repo.objects[h].kind # "other" => Awaited(h)'
    BY <1>1, <2>2 DEF Originals, Awaited
  <2>4. Originals(K)'
    BY <2>1, <2>2, <2>3 DEF Originals
  <2> QED
    BY <2>4
<1>2. CASE FindRepository \/ NoRefsError \/ UNCHANGED allVars
  BY <1>1, <1>2 DEF FindRepository, NoRefsError, allVars, loaderVars, loader
<1>3. CASE LoadHistory
  BY <1>3, LoaderOriginals, ScriptLeaves DEF LoadHistory, ScriptNext
<1>4. CASE OrderAndPrint
  BY <1>1, <1>4, OrderReads
<1>5. CASE GitAtWork
  BY <1>5, GitOriginals DEF GitAtWork
<1> QED
  BY <1>2, <1>3, <1>4, <1>5 DEF Next, ScriptNext

------------------------------------------------------------------------------
(* The state the script starts in.                                          *)
LEMMA ScriptStarts ==
  ASSUME Init
  PROVE  BaseInv /\ BranchesInv /\ OriginalsInv
<1>1. GitInit /\ stage = "listRefs"
  BY DEF Init, LoaderInit, Following
<1>2. PICK r \in Repositories :
        repo = [objects |-> r.objects,
                loose   |-> DOMAIN r.objects,
                dirs    |-> { DirOf[h] : h \in DOMAIN r.objects },
                temp    |-> [h \in {} |-> "none"],
                packs   |-> r.packs,
                packed  |-> {},
                refs    |-> r.refs,
                locks   |-> [b \in {} |-> NoHash],
                nested  |-> r.nested]
  BY <1>1 DEF GitInit
<1>3. /\ DOMAIN repo = RepoFields /\ repo.packed = {}
      /\ repo.objects = r.objects /\ repo.loose = DOMAIN r.objects
      /\ DOMAIN repo.temp = {} /\ repo.refs = r.refs /\ DOMAIN repo.locks = {}
      /\ original = r.refs
  BY <1>1, <1>2 DEF RepoFields, GitInit
<1>4. PICK commits0 : commits0 = { h \in DOMAIN r.objects : r.objects[h].kind # "other" }
  OBVIOUS
<1>5. /\ DOMAIN r.objects \subseteq Hash
      /\ \A h \in DOMAIN r.objects :
           /\ r.objects[h].kind \in ObjectKinds
           /\ r.objects[h].parents \in Seq(commits0)
           /\ r.objects[h].mentions \in Seq(DOMAIN r.objects \cup {Foreign})
      /\ \A S \in SUBSET DOMAIN r.objects :
           S # {} => \E h \in S : Covered(r.objects[h]) \cap S = {}
      /\ DOMAIN r.refs \subseteq Branch
      /\ \A b \in DOMAIN r.refs : r.refs[b] \in commits0
  BY <1>4, RepositoryAssumption
<1>6. commits0 \subseteq DOMAIN r.objects
  BY <1>4
<1>7. ASSUME NEW h \in DOMAIN r.objects  PROVE SoundObject(r.objects, h)
  <2>1. PICK p, m : p = r.objects[h].parents /\ m = r.objects[h].mentions
    OBVIOUS
  <2>2. p \in Seq(commits0) /\ m \in Seq(DOMAIN r.objects \cup {Foreign})
    BY <1>5, <2>1
  <2>3. p \in Seq(Hash) /\ m \in Seq(Hash \cup {Foreign})
    BY <1>5, <1>6, <2>2
  <2>4. \A i \in DOMAIN p : p[i] \in commits0
    BY <2>2, ElementOfSeq, LenProperties
  <2>5. \A i \in DOMAIN m : m[i] \in DOMAIN r.objects \cup {Foreign}
    BY <2>2, ElementOfSeq, LenProperties
  <2> QED
    BY <1>5, <1>6, <2>1, <2>3, <2>4, <2>5 DEF SoundObject, Covered
<1>8. SoundObjects(repo.objects)
  BY <1>3, <1>5, <1>7 DEF SoundObjects
<1>9. ObjectsInv
  BY <1>3, <1>5, <1>6, <1>8 DEF ObjectsInv
<1>10. TableInv
  <2>1. heads = <<>> /\ dictOfParentHashes = [h \in {} |-> <<>>]
    BY DEF Init, LoaderInit
  <2>2. heads \in Seq(Hash \cup {NoHash})
    BY <2>1
  <2>3. DOMAIN dictOfParentHashes = {} /\ dictOfParentHashes \in [{} -> Seq(AnyHash)]
    BY <2>1
  <2>4. dictOfParentHashes \in Tables
    BY <2>3 DEF Tables
  <2> QED
    BY <2>2, <2>3, <2>4 DEF TableInv
<1>11. StartedInv
  BY <1>1 DEF StartedInv, Untouched, Init, Order!Init
<1>12. BranchesInv
  <2>1. names = <<>> /\ heads = <<>> /\ refsTodo = {} /\ DOMAIN names = {} /\ names \in Seq(Entries)
    BY DEF Init, LoaderInit
  <2>2. NamesInv
    BY <1>1, <2>1 DEF NamesInv, Read
  <2>3. KeptInv /\ SameInv
    BY <1>1, <1>3, <2>1 DEF KeptInv, SameInv, Read
  <2> QED
    BY <2>2, <2>3 DEF BranchesInv
<1>13. OriginalsInv
  <2>1. \A b \in DOMAIN r.refs : r.refs[b] \in DOMAIN r.objects /\ r.objects[r.refs[b]].kind # "other"
    BY <1>4, <1>5
  <2>2. Originals(DOMAIN r.objects)
    BY <1>1, <1>3, <1>7, <2>1 DEF Originals, SoundObject
  <2> QED
    BY <1>5, <2>2 DEF OriginalsInv
<1> QED
  BY <1>9, <1>10, <1>11, <1>12, <1>13 DEF BaseInv
------------------------------------------------------------------------------
(* What follows at the end.  A branch of the start has been read, so it is  *)
(* on the line of its commit, and on no other.                              *)
LEMMA BranchesAtEnd == BaseInv /\ BranchesInv => BranchesPrinted
<1> SUFFICES ASSUME BaseInv, BranchesInv, pc = "done", happened \cap {"delete", "gc"} = {},
                    NEW b \in DOMAIN original
             PROVE  \E i \in Order!Printed :
                      /\ LinesNaming(b) = {i}
                      /\ "update" \notin happened => output[i].commit = original[b]
  BY DEF BranchesPrinted
<1>1. stage = "loaded" /\ Core!IndInv /\ Core!Accounted
  BY DEF BaseInv, StartedInv, Untouched
<1>2. Core!OnOneLine
  BY <1>1, CoreAssumptions, Core!AccountedLines
<1>3. Core!Printed = Order!Printed
  BY DEF Core!Printed, Order!Printed
<1>4. DOMAIN names = DOMAIN heads
  <2>1. DOMAIN names = 1..Len(names) /\ DOMAIN heads = 1..Len(heads)
    BY LenProperties DEF BranchesInv, NamesInv, BaseInv, TableInv
  <2> QED
    BY <2>1 DEF BranchesInv, NamesInv
<1>5. PICK n \in DOMAIN names : names[n] = <<"branch", b>>
  BY <1>1 DEF BranchesInv, NamesInv, KeptInv, Pending, Read, Order!SeqRange
<1>6. PICK i \in Order!Printed :
        /\ { k \in Order!Printed : n \in output[k].set } = {i}
        /\ output[i].commit = heads[n]
  BY <1>2, <1>3, <1>4 DEF Core!OnOneLine
<1>7. \A k \in Order!Printed : output[k].set \subseteq DOMAIN heads
  <2> TAKE k \in Order!Printed
  <2>1. PICK j : output[k] = Core!Line("commit", orderedCommits[j], Core!BranchesAt(orderedCommits[j]))
    BY <1>1, <1>3 DEF Core!Accounted
  <2>2. output[k].set = Core!BranchesAt(orderedCommits[j])
    BY <2>1 DEF Core!Line
  <2> QED
    BY <2>2 DEF Core!BranchesAt
<1>8. \A k \in Order!Printed :
        (\E m \in output[k].set : names[m] = <<"branch", b>>) <=> n \in output[k].set
  BY <1>4, <1>5, <1>7 DEF BranchesInv, NamesInv
<1>9. LinesNaming(b) = {i}
  BY <1>6, <1>8 DEF LinesNaming
<1>10. ASSUME "update" \notin happened  PROVE heads[n] = original[b]
  BY <1>5, <1>10 DEF BranchesInv, SameInv
<1> QED
  BY <1>6, <1>9, <1>10

(* The objects of the start, once all is read: what the script takes for    *)
(* the parents of one is what the table has for it.                         *)
LEMMA SeenInTable ==
  ASSUME ObjectsInv, TableInv, stage = "loaded", NEW K \in SUBSET Hash, Originals(K)
  PROVE  /\ \A d \in K \cup {Foreign} :
              /\ SeenParents(d) \subseteq K \cup {Foreign}
              /\ d \in DOMAIN dictOfParentHashes => SeenParents(d) = Order!Parents(d)
              /\ d \notin DOMAIN dictOfParentHashes => SeenParents(d) = {}
              /\ d \in DOMAIN dictOfParentHashes <=> d \in ReadableCommits
<1>1. K \subseteq DOMAIN repo.objects
  BY DEF Originals, ObjectsInv
<1>2. Foreign \notin DOMAIN repo.objects /\ Foreign \notin DOMAIN dictOfParentHashes
  BY HashAssumption DEF ObjectsInv, SoundObjects, TableInv
<1>3. ASSUME NEW d \in K  PROVE d \in DOMAIN dictOfParentHashes <=> repo.objects[d].kind = "commit"
  BY <1>3 DEF Originals, Awaited, TableInv
<1>4. \A d \in DOMAIN dictOfParentHashes : Order!Parents(d) = Covered(repo.objects[d])
  BY TableParents
<1>5. SeenParents(Foreign) = {} /\ Foreign \notin ReadableCommits
  BY <1>2 DEF SeenParents, ReadableCommits
<1>6. ASSUME NEW d \in K
      PROVE  /\ SeenParents(d) \subseteq K \cup {Foreign}
             /\ d \in DOMAIN dictOfParentHashes => SeenParents(d) = Order!Parents(d)
             /\ d \notin DOMAIN dictOfParentHashes => SeenParents(d) = {}
             /\ d \in DOMAIN dictOfParentHashes <=> d \in ReadableCommits
  <2>1. d \in DOMAIN repo.objects /\ Covered(repo.objects[d]) \subseteq K \cup {Foreign}
    BY <1>1 DEF Originals
  <2> QED
    BY <1>3, <1>4, <2>1 DEF SeenParents, ReadableCommits
<1> QED
  BY <1>2, <1>5, <1>6

(* So the ancestries are the same, and within those objects.                *)
LEMMA SeenIsAncestry ==
  ASSUME ObjectsInv, TableInv, stage = "loaded", NEW K \in SUBSET Hash, Originals(K),
         NEW h \in K
  PROVE  /\ SeenAncestry(h) = Core!Ancestry[h]
         /\ SeenAncestry(h) \subseteq K \cup {Foreign}
<1>1. PICK X : X = K \cup {Foreign}
  OBVIOUS
<1>2. /\ X \subseteq AnyHash /\ h \in X /\ h \in AnyHash
      /\ \A d \in X :
           /\ SeenParents(d) \subseteq X
           /\ d \in DOMAIN dictOfParentHashes => SeenParents(d) = Core!Parents(d)
           /\ d \notin DOMAIN dictOfParentHashes => SeenParents(d) = {}
  BY <1>1, SeenInTable DEF AnyHash, Core!Parents, Core!ParentSet, Order!Parents, Order!ParentSet
<1>3. ASSUME NEW S \in SUBSET AnyHash, Core!ClosedUnderParents(S)
      PROVE  \A d \in S \cap X : SeenParents(d) \subseteq S \cap X
  BY <1>2, <1>3 DEF Core!ClosedUnderParents
<1>4. ASSUME NEW S \in SUBSET AnyHash, \A d \in S : SeenParents(d) \subseteq S
      PROVE  Core!ClosedUnderParents(S \cap X)
  BY <1>2, <1>4 DEF Core!ClosedUnderParents
<1>5. SeenAncestry(h) \subseteq X
  BY <1>2 DEF SeenAncestry
<1>6. Core!Ancestry[h] = { c \in AnyHash : \A S \in SUBSET AnyHash :
                             h \in S /\ Core!ClosedUnderParents(S) => c \in S }
  BY <1>2 DEF Core!Ancestry
<1>7. SeenAncestry(h) \subseteq Core!Ancestry[h]
  <2> SUFFICES ASSUME NEW c \in SeenAncestry(h), NEW S \in SUBSET AnyHash, h \in S,
                      Core!ClosedUnderParents(S)
               PROVE  c \in S
    BY <1>6 DEF SeenAncestry
  <2>1. S \cap X \in SUBSET AnyHash /\ h \in S \cap X
    BY <1>2
  <2>2. \A d \in S \cap X : SeenParents(d) \subseteq S \cap X
    BY <1>3
  <2> QED
    BY <2>1, <2>2 DEF SeenAncestry
<1>8. Core!Ancestry[h] \subseteq SeenAncestry(h)
  <2> SUFFICES ASSUME NEW c \in Core!Ancestry[h], NEW S \in SUBSET AnyHash, h \in S,
                      \A d \in S : SeenParents(d) \subseteq S
               PROVE  c \in S
    BY <1>6 DEF SeenAncestry
  <2>1. S \cap X \in SUBSET AnyHash /\ h \in S \cap X /\ Core!ClosedUnderParents(S \cap X)
    BY <1>2, <1>4
  <2> QED
    BY <1>6, <2>1
<1> QED
  BY <1>1, <1>5, <1>7, <1>8

(* What dooms the ordering is what the property names.                      *)
LEMMA DoomIsSeen ==
  ASSUME BaseInv, BranchesInv, OriginalsInv, stage = "loaded", happened \subseteq {"write"}
  PROVE  Core!Doomed <=> \/ OriginalHeads = {}
                         \/ ~ (SeenCommits \subseteq ReadableCommits)
                         \/ LoneRoot
<1>1. PICK K \in SUBSET Hash : Originals(K)
  BY DEF OriginalsInv
<1>2. ObjectsInv /\ TableInv
  BY DEF BaseInv
<1>3. DOMAIN names = DOMAIN heads
  <2>1. DOMAIN names = 1..Len(names) /\ DOMAIN heads = 1..Len(heads)
    BY LenProperties DEF BranchesInv, NamesInv, BaseInv, TableInv
  <2> QED
    BY <2>1 DEF BranchesInv, NamesInv
<1>4. Core!Heads = OriginalHeads
  <2>1. ASSUME NEW n \in DOMAIN heads  PROVE heads[n] \in OriginalHeads
    BY <1>3 DEF BranchesInv, SameInv, IsOriginal, OriginalHeads
  <2>2. ASSUME NEW b \in DOMAIN original  PROVE \E n \in DOMAIN heads : heads[n] = original[b]
    <3>1. PICK n \in DOMAIN names : names[n] = <<"branch", b>>
      BY DEF BranchesInv, NamesInv, KeptInv, Pending, Read, Order!SeqRange
    <3> QED
      BY <1>3, <3>1 DEF BranchesInv, SameInv
  <2> QED
    BY <2>1, <2>2 DEF Core!Heads, Core!SeqRange, OriginalHeads
<1>5. heads = <<>> <=> OriginalHeads = {}
  <2>1. heads \in Seq(Hash \cup {NoHash})
    BY <1>2 DEF TableInv
  <2>2. heads = <<>> <=> DOMAIN heads = {}
    BY <2>1, EmptySeq, LenProperties
  <2>3. DOMAIN heads = {} <=> Core!Heads = {}
    BY DEF Core!Heads, Core!SeqRange
  <2> QED
    BY <1>4, <2>2, <2>3
<1>6. \A h \in OriginalHeads :
        /\ h \in K /\ h \in DOMAIN dictOfParentHashes
        /\ SeenParents(h) = Core!Parents(h)
  <2> TAKE h \in OriginalHeads
  <2>1. h \in K /\ repo.objects[h].kind # "other"
    BY <1>1 DEF Originals, OriginalHeads
  <2>2. h \in DOMAIN dictOfParentHashes
    BY <1>1, <2>1 DEF Originals, Awaited
  <2> QED
    BY <1>1, <1>2, <2>1, <2>2, SeenInTable
       DEF Core!Parents, Core!ParentSet, Order!Parents, Order!ParentSet
<1>7. \A h \in OriginalHeads : /\ SeenAncestry(h) = Core!Ancestry[h]
                               /\ SeenAncestry(h) \subseteq K \cup {Foreign}
  BY <1>1, <1>2, <1>6, SeenIsAncestry
<1>8. Core!Reached = SeenCommits /\ SeenCommits \subseteq K \cup {Foreign}
  BY <1>4, <1>7 DEF Core!Reached, SeenCommits
<1>9. Core!Reached \subseteq DOMAIN dictOfParentHashes <=> SeenCommits \subseteq ReadableCommits
  <2>1. \A c \in K \cup {Foreign} : c \in DOMAIN dictOfParentHashes <=> c \in ReadableCommits
    BY <1>1, <1>2, SeenInTable
  <2> QED
    BY <1>8, <2>1
<1>10. LoneRoot <=> \E h \in Core!Heads : /\ Core!Parents(h) = {}
                                          /\ \A g \in Core!Heads \ {h} : h \notin Core!Ancestry[g]
  BY <1>4, <1>6, <1>7 DEF LoneRoot
<1> QED
  BY <1>5, <1>9, <1>10 DEF Core!Doomed

(* So the exceptions are explained.                                         *)
LEMMA DiesAtEnd == BaseInv /\ BranchesInv /\ OriginalsInv => DiesOnlyOf
<1> SUFFICES ASSUME BaseInv, BranchesInv, OriginalsInv, pc \in {"crash", "done"},
                    happened \subseteq {"write"}
             PROVE  DiesOnlyOf
  BY DEF DiesOnlyOf
<1>1. stage = "loaded" /\ Core!IndInv /\ Core!HadToDie
  BY DEF BaseInv, StartedInv, Untouched
<1>2. Core!CrashesExactlyIfDoomed
  BY <1>1, CoreAssumptions, Core!CrashesIfDoomed
<1> QED
  BY <1>1, <1>2, DoomIsSeen DEF Core!CrashesExactlyIfDoomed, DiesOnlyOf

(* The inductive invariant: all of it together, with what covers the table. *)
ScriptInv == CoverInv /\ BaseInv /\ BranchesInv /\ OriginalsInv

(* Every state the script goes through with git satisfies it.               *)
THEOREM AlwaysScriptInv == Spec => []ScriptInv
<1>1. Init => ScriptInv
  BY ScriptStarts, InitCovers DEF ScriptInv
<1>2. ScriptInv /\ [Next]_allVars => ScriptInv'
  BY BaseStep, BranchesStep, OriginalsStep, CoverStep DEF ScriptInv, BaseInv, ObjectsInv
<1> QED
  BY <1>1, <1>2, PTL DEF Spec

(***************************************************************************)
(* While git only writes objects, the script dies exactly when there is no *)
(* branch, a commit mentions what is none, or a root is a branch of its    *)
(* own, whatever the repository (lines 51-106 after 17-49).                *)
(***************************************************************************)
THEOREM AlwaysDiesOnlyOf == Spec => []DiesOnlyOf
  BY AlwaysScriptInv, DiesAtEnd, PTL DEF ScriptInv

(***************************************************************************)
(* A branch that stays is on exactly one line of the output, next to the   *)
(* hash it had unless branches were changed, in every repository and       *)
(* however git's steps interleave with the reading (lines 17-29, 115-122). *)
(***************************************************************************)
THEOREM AlwaysPrintsBranches == Spec => []BranchesPrinted
  BY AlwaysScriptInv, BranchesAtEnd, PTL DEF ScriptInv
==============================================================================
