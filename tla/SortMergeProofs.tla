---------------------------- MODULE SortMergeProofs ----------------------------
(***************************************************************************)
(* sort leaves no temporary file behind, whatever it is given, however few *)
(* files it can open, and whenever it fails or is killed by a signal; and  *)
(* if it succeeds, all that was given is in its output, in the right order. *)
(***************************************************************************)
EXTENDS SortMerge, SequenceTheorems, WellFoundedInduction, TLAPS

(* The list of temporary files; those who look at its end keep blocked.     *)
TypeInv ==
  /\ temphead \in Seq(Nat)
  /\ temp \in Nat /\ fresh \in Nat
  /\ blocked \in BOOLEAN

(* What exists is in the list, or is about to be, which no signal disturbs. *)
ListedInv == disk \subseteq Elements(temphead) \cup (IF pc = "link" THEN {temp} ELSE {})

BlockedInv == pc = "link" => blocked

EndedInv == Ended => temphead = <<>>

SafeInv == TypeInv /\ ListedInv /\ BlockedInv /\ EndedInv
------------------------------------------------------------------------------
(* A file that is put at the end of the list is in it, with the others.     *)
LEMMA AppendFacts ==
  ASSUME NEW S, NEW s \in Seq(S), NEW x \in S
  PROVE  /\ Append(s, x) \in Seq(S)
         /\ Elements(Append(s, x)) = Elements(s) \cup {x}
  <1>1. /\ Append(s, x) \in Seq(S) /\ DOMAIN s = 1 .. Len(s) /\ Len(s) \in Nat
        /\ DOMAIN Append(s, x) = 1 .. Len(s) + 1
        /\ \A i \in DOMAIN s : Append(s, x)[i] = s[i]
        /\ Append(s, x)[Len(s) + 1] = x
    BY AppendProperties, LenProperties
  <1>. QED BY <1>1 DEF Elements

(* A list without its element k has all that are not equal to it.           *)
LEMMA WithoutFacts ==
  ASSUME NEW S, NEW s \in Seq(S), NEW k \in DOMAIN s
  PROVE  \E t \in Seq(S) : /\ t = SubSeq(s, 1, k - 1) \o SubSeq(s, k + 1, Len(s))
                           /\ Elements(s) \ {s[k]} \subseteq Elements(t)
  <1>. DEFINE n == Len(s)
  <1>1. n \in Nat /\ DOMAIN s = 1 .. n /\ k \in 1 .. n
    BY LenProperties
  <1>2. PICK a \in Seq(S) :
          /\ a = SubSeq(s, 1, k - 1) /\ Len(a) = k - 1
          /\ \A i \in 1 .. k - 1 : a[i] = s[i]
    <2>. DEFINE a == SubSeq(s, 1, k - 1)
    <2>1. /\ a \in Seq(S)
          /\ Len(a) = IF 1 <= k - 1 THEN (k - 1) - 1 + 1 ELSE 0
          /\ \A i \in 1 .. (k - 1) - 1 + 1 : a[i] = s[1 + i - 1]
      BY <1>1, SubSeqProperties
    <2>. HIDE DEF a
    <2>2. Len(a) = k - 1  BY <1>1, <2>1
    <2>3. ASSUME NEW i \in 1 .. k - 1  PROVE a[i] = s[i]
      <3>1. i \in 1 .. (k - 1) - 1 + 1 /\ 1 + i - 1 = i  BY <1>1
      <3>. QED BY <2>1, <3>1
    <2>. QED BY <2>1, <2>2, <2>3 DEF a
  <1>3. PICK b \in Seq(S) :
          /\ b = SubSeq(s, k + 1, n) /\ Len(b) = n - k
          /\ \A i \in 1 .. n - k : b[i] = s[i + k]
    <2>. DEFINE b == SubSeq(s, k + 1, n)
    <2>1. /\ b \in Seq(S)
          /\ Len(b) = IF k + 1 <= n THEN n - (k + 1) + 1 ELSE 0
          /\ \A i \in 1 .. n - (k + 1) + 1 : b[i] = s[(k + 1) + i - 1]
      BY <1>1, SubSeqProperties
    <2>. HIDE DEF b
    <2>2. Len(b) = n - k  BY <1>1, <2>1
    <2>3. ASSUME NEW i \in 1 .. n - k  PROVE b[i] = s[i + k]
      <3>1. i \in 1 .. n - (k + 1) + 1 /\ (k + 1) + i - 1 = i + k  BY <1>1
      <3>. QED BY <2>1, <3>1
    <2>. QED BY <2>1, <2>2, <2>3 DEF b
  <1>4. /\ a \o b \in Seq(S) /\ Len(a \o b) = n - 1
        /\ \A i \in 1 .. k - 1 : (a \o b)[i] = a[i]
        /\ \A i \in k .. n - 1 : (a \o b)[i] = b[i - (k - 1)]
    <2>1. /\ a \o b \in Seq(S) /\ Len(a \o b) = Len(a) + Len(b)
          /\ \A i \in 1 .. Len(a) + Len(b) :
               (a \o b)[i] = IF i <= Len(a) THEN a[i] ELSE b[i - Len(a)]
      BY ConcatProperties
    <2>2. Len(a) = k - 1 /\ Len(a) + Len(b) = n - 1
      <3>1. Len(a) = k - 1  BY <1>2
      <3>2. Len(b) = n - k  BY <1>3
      <3>. QED BY <1>1, <3>1, <3>2
    <2>3. ASSUME NEW i \in 1 .. k - 1  PROVE (a \o b)[i] = a[i]
      <3>1. i \in 1 .. Len(a) + Len(b) /\ i <= Len(a)  BY <1>1, <2>2
      <3>. QED BY <2>1, <3>1
    <2>4. ASSUME NEW i \in k .. n - 1  PROVE (a \o b)[i] = b[i - (k - 1)]
      <3>1. i \in 1 .. Len(a) + Len(b) /\ ~(i <= Len(a))  BY <1>1, <2>2
      <3>. QED BY <2>1, <2>2, <3>1
    <2>. QED BY <2>1, <2>2, <2>3, <2>4
  <1>5. DOMAIN (a \o b) = 1 .. n - 1
    BY <1>4, LenProperties
  <1>6. ASSUME NEW i \in 1 .. n, i # k
        PROVE  \E m \in 1 .. n - 1 : (a \o b)[m] = s[i]
    <2>. i \in Int /\ k \in Int  BY <1>1
    <2>1. CASE i < k
      <3>1. i \in 1 .. k - 1 /\ i \in 1 .. n - 1  BY <1>1, <2>1
      <3>. QED BY <1>2, <1>4, <3>1
    <2>2. CASE i > k
      <3>1. /\ i - 1 \in k .. n - 1 /\ i - 1 \in 1 .. n - 1
            /\ (i - 1) - (k - 1) \in 1 .. n - k
            /\ ((i - 1) - (k - 1)) + k = i
        BY <1>1, <2>2
      <3>2. (a \o b)[i - 1] = b[(i - 1) - (k - 1)]  BY <1>4, <3>1
      <3>3. b[(i - 1) - (k - 1)] = s[((i - 1) - (k - 1)) + k]  BY <1>3, <3>1
      <3>. QED BY <3>1, <3>2, <3>3
    <2>3. i < k \/ i > k  BY <1>6
    <2>. QED BY <2>1, <2>2, <2>3
  <1>7. Elements(s) \ {s[k]} \subseteq Elements(a \o b)
    BY <1>1, <1>5, <1>6 DEF Elements
  <1>. QED BY <1>2, <1>3, <1>4, <1>7

(* create_temp_file makes the file and lists it with the signals blocked.   *)
LEMMA CreateTempSafe ==
  ASSUME SafeInv, CreateTemp
  PROVE  SafeInv'
  <1>. USE DEF SafeInv, TypeInv, Ended, CreateTemp, SurvivesExhaustion, cs_enter
  <1>1. TypeInv'
    <2>1. fresh' \in Nat /\ temp' \in Nat  OBVIOUS
    <2>2. blocked' \in BOOLEAN /\ temphead' \in Seq(Nat)  OBVIOUS
    <2>. QED BY <2>1, <2>2
  <1>2. ListedInv' /\ BlockedInv'
    <2>1. CASE pc' = "link"
      BY <2>1 DEF ListedInv, BlockedInv
    <2>2. CASE pc' # "link"
      BY <2>2 DEF ListedInv, BlockedInv
    <2>. QED BY <2>1, <2>2
  <1>3. EndedInv'  BY DEF EndedInv
  <1>. QED BY <1>1, <1>2, <1>3

(* It unblocks them when the file is in the list.                           *)
LEMMA LinkTempSafe ==
  ASSUME SafeInv, LinkTemp
  PROVE  SafeInv'
  <1>1. temphead' \in Seq(Nat) /\ Elements(temphead') = Elements(temphead) \cup {temp}
    BY AppendFacts DEF SafeInv, TypeInv, LinkTemp
  <1>2. pc' \in {"write", "open", "merge"}
    BY DEF LinkTemp, Merge
  <1>. QED BY <1>1, <1>2
       DEF SafeInv, TypeInv, ListedInv, BlockedInv, EndedInv, Ended, LinkTemp, cs_leave, store

(* zaptemp unlinks the file before it takes it out of the list.             *)
LEMMA UnlinkTempSafe ==
  ASSUME SafeInv, UnlinkTemp
  PROVE  SafeInv'
  BY DEF SafeInv, TypeInv, ListedInv, BlockedInv, EndedInv, Ended, UnlinkTemp, cs_enter, work

(* What it then takes out of the list is what it has unlinked.              *)
LEMMA UnlistTempSafe ==
  ASSUME SafeInv, UnlistTemp
  PROVE  SafeInv'
  <1>1. PICK k \in DOMAIN temphead :
          /\ temphead[k] \notin disk
          /\ temphead' = SubSeq(temphead, 1, k - 1) \o SubSeq(temphead, k + 1, Len(temphead))
    BY DEF UnlistTemp
  <1>2. temphead' \in Seq(Nat) /\ Elements(temphead) \ {temphead[k]} \subseteq Elements(temphead')
    BY <1>1, WithoutFacts DEF SafeInv, TypeInv
  <1>3. disk' = disk /\ pc = "unlink" /\ pc' = "merge" /\ temp' = temp /\ fresh' = fresh
        /\ blocked' = FALSE
    BY DEF UnlistTemp, cs_leave
  <1>. QED BY <1>1, <1>2, <1>3 DEF SafeInv, TypeInv, ListedInv, BlockedInv, EndedInv, Ended

(* exit_cleanup and sighandler remove what is in the list.                  *)
LEMMA CleanupSafe ==
  ASSUME SafeInv, ExitCleanup \/ Signal
  PROVE  SafeInv'
  <1>1. pc # "link"
    BY DEF SafeInv, BlockedInv, ExitCleanup, Signal
  <1>. QED BY <1>1, EmptySeq
       DEF SafeInv, TypeInv, ListedInv, BlockedInv, EndedInv, Ended, ExitCleanup, Signal, Cleanup, work

(* The other steps leave the files and the list alone.                      *)
LEMMA ElsewhereSafe ==
  ASSUME SafeInv, UNCHANGED <<temphead, disk, blocked, fresh, temp>>, pc # "link",
         pc' \notin {"link", "done", "failed", "killed"}
  PROVE  SafeInv'
  BY DEF SafeInv, TypeInv, ListedInv, BlockedInv, EndedInv, Ended

(* Every step keeps what exists in the list.                                *)
LEMMA StepSafe ==
  ASSUME SafeInv, Steps \/ Signal
  PROVE  SafeInv'
  <1>. USE ElsewhereSafe DEF store, work, Create, Merge
  <1>1. CASE SortBuffer      BY <1>1 DEF SortBuffer
  <1>2. CASE WriteBuffer     BY <1>2 DEF WriteBuffer
  <1>3. CASE Pass            BY <1>3 DEF Pass
  <1>4. CASE FullMerge       BY <1>4 DEF FullMerge
  <1>5. CASE ShortMerge      BY <1>5 DEF ShortMerge
  <1>6. CASE EndPass         BY <1>6 DEF EndPass
  <1>7. CASE MergeFiles      BY <1>7 DEF MergeFiles
  <1>8. CASE EndMerge        BY <1>8 DEF EndMerge, Merged
  <1>9. CASE Avoid           BY <1>9 DEF Avoid
  <1>10. CASE EndCopy        BY <1>10 DEF EndCopy, Merged
  <1>11. CASE MergeToOutput  BY <1>11 DEF MergeToOutput
  <1>12. CASE NotAllOpen     BY <1>12 DEF NotAllOpen
  <1>13. CASE CloseOne       BY <1>13 DEF CloseOne
  <1>14. CASE EndRetreat     BY <1>14 DEF EndRetreat, Merged
  <1>15. CASE EndOutput      BY <1>15 DEF EndOutput, Merged
  <1>16. CASE Fail           BY <1>16 DEF Fail
  <1>17. CASE CreateTemp \/ LinkTemp \/ UnlinkTemp \/ UnlistTemp \/ ExitCleanup \/ Signal
    BY <1>17, CreateTempSafe, LinkTempSafe, UnlinkTempSafe, UnlistTempSafe, CleanupSafe
  <1>. QED BY <1>1, <1>2, <1>3, <1>4, <1>5, <1>6, <1>7, <1>8, <1>9, <1>10, <1>11, <1>12, <1>13,
              <1>14, <1>15, <1>16, <1>17 DEF Steps

(* The invariant holds of every execution.                                  *)
THEOREM AlwaysListed == Spec => []SafeInv
  <1>1. Init => SafeInv
    <2>. SUFFICES ASSUME Init  PROVE SafeInv
      OBVIOUS
    <2>1. temphead = <<>> /\ temp = 0 /\ fresh = NFiles + 1 /\ blocked = FALSE /\ disk = {}
          /\ pc # "link"
      BY DEF Init, None
    <2>2. TypeInv
      <3>1. temphead \in Seq(Nat)  BY <2>1, EmptySeq
      <3>2. temp \in Nat /\ fresh \in Nat  BY <2>1, NFilesAssumption
      <3>3. blocked \in BOOLEAN  BY <2>1
      <3>. QED BY <3>1, <3>2, <3>3 DEF TypeInv
    <2>. QED BY <2>1, <2>2 DEF SafeInv, ListedInv, BlockedInv, EndedInv
  <1>2. SafeInv /\ [Next]_vars => SafeInv'
    <2>1. SafeInv /\ UNCHANGED vars => SafeInv'
      BY DEF SafeInv, TypeInv, ListedInv, BlockedInv, EndedInv, Ended, vars, work, store
    <2>. QED BY <2>1, StepSafe DEF Next
  <1>. QED BY <1>1, <1>2, PTL DEF Spec

(* However sort ends, every temporary file has been removed: create_temp_   *)
(* file and zaptemp keep out the signals while a file exists and is not in  *)
(* the list that cleanup goes through.                                      *)
THEOREM AlwaysLeavesNoTemporaryFile == Spec => []LeavesNoTemporaryFile
  <1>1. SafeInv => LeavesNoTemporaryFile
    <2>1. Elements(<<>>) = {}  BY EmptySeq, LenProperties DEF Elements
    <2>2. ASSUME SafeInv, Ended  PROVE disk = {}
      <3>1. temphead = <<>> /\ pc # "link"  BY <2>2 DEF SafeInv, EndedInv, Ended
      <3>. QED BY <2>1, <2>2, <3>1 DEF SafeInv, ListedInv
    <2>. QED BY <2>2 DEF LeavesNoTemporaryFile
  <1>. QED BY <1>1, AlwaysListed, PTL
------------------------------------------------------------------------------
(* Of a set of numbers there is a least.                                     *)
LEMMA LeastNumber ==
  ASSUME NEW S \in SUBSET Nat, S # {}
  PROVE  \E x \in S : \A y \in S : x <= y
  <1>. DEFINE R == {ss \in Nat \X Nat : ss[1] < ss[2]}
  <1>0. IsWellFoundedOn(R, Nat)
    BY NatLessThanWellFounded DEF OpToRel
  <1>. HIDE DEF R
  <1>1. PICK x \in S : \A y \in S : ~(<<y, x>> \in R)
    BY <1>0, WFMin
  <1>2. \A y \in S : ~(y < x)
    BY <1>1 DEF R
  <1>. QED BY <1>2

(* p tells what is in files.                                                *)
IsStore(p) == p \in [DOMAIN p -> Seq(Name)]

(* What is in the files of the list s, one after the other: Concat, for any *)
(* p.  And c[k] is what is in the first k of them.                          *)
Contents(p, s) ==
  LET c[k \in 0 .. Len(s)] == IF k = 0 THEN <<>> ELSE c[k - 1] \o p[s[k]]
  IN c[Len(s)]

Accumulates(c, p, s) ==
  /\ c \in [0 .. Len(s) -> Seq(Name)]
  /\ c[0] = <<>>
  /\ \A k \in 1 .. Len(s) : c[k] = c[k - 1] \o p[s[k]]

(* Concat is Contents of what is there.                                     *)
LEMMA ConcatIsContents == \A s : Concat(s) = Contents(parts, s)
  BY DEF Concat, Contents

(* There is such a function, for every list.                                *)
LEMMA AccumulationExists ==
  ASSUME NEW p, IsStore(p), NEW s \in Seq(DOMAIN p)
  PROVE  \E c : Accumulates(c, p, s)
  <1>. DEFINE n == Len(s)
  <1>. DEFINE Good(k) == \E c \in [0 .. k -> Seq(Name)] :
                           c[0] = <<>> /\ \A j \in 1 .. k : c[j] = c[j - 1] \o p[s[j]]
  <1>0. n \in Nat /\ \A k \in 1 .. n : s[k] \in DOMAIN p /\ p[s[k]] \in Seq(Name)
    BY LenProperties, ElementOfSeq DEF IsStore
  <1>1. Good(0)
    <2>. DEFINE d == [j \in 0 .. 0 |-> <<>>]
    <2>1. d \in [0 .. 0 -> Seq(Name)] /\ d[0] = <<>>  BY EmptySeq
    <2>2. \A j \in 1 .. 0 : FALSE  OBVIOUS
    <2>. HIDE DEF d
    <2>. QED BY <2>1, <2>2
  <1>2. ASSUME NEW k \in 1 .. n, Good(k - 1)  PROVE Good(k)
    <2>1. PICK c \in [0 .. k - 1 -> Seq(Name)] :
            c[0] = <<>> /\ \A j \in 1 .. k - 1 : c[j] = c[j - 1] \o p[s[j]]
      BY <1>2
    <2>. DEFINE d == [j \in 0 .. k |-> IF j = k THEN c[k - 1] \o p[s[k]] ELSE c[j]]
    <2>2. c[k - 1] \o p[s[k]] \in Seq(Name)
      <3>1. c[k - 1] \in Seq(Name) /\ p[s[k]] \in Seq(Name)  BY <1>0
      <3>. QED BY <3>1, ConcatProperties
    <2>3. d \in [0 .. k -> Seq(Name)]
      <3>1. \A j \in 0 .. k : j # k => j \in 0 .. k - 1  BY <1>0
      <3>. QED BY <2>2, <3>1
    <2>4. d[0] = <<>>  BY <1>0, <2>1
    <2>5. ASSUME NEW j \in 1 .. k  PROVE d[j] = d[j - 1] \o p[s[j]]
      <3>1. j - 1 \in 0 .. k /\ j - 1 # k /\ j \in 0 .. k  BY <1>0
      <3>2. CASE j = k  BY <3>1, <3>2
      <3>3. CASE j # k
        <4>1. j \in 1 .. k - 1  BY <1>0, <3>3
        <4>. QED BY <2>1, <3>1, <3>3, <4>1
      <3>. QED BY <3>2, <3>3
    <2>. HIDE DEF d
    <2>. QED BY <2>3, <2>4, <2>5
  <1>3. ASSUME ~ Good(n)  PROVE FALSE
    <2>. DEFINE B == { k \in Nat : k <= n /\ ~ Good(k) }
    <2>. HIDE DEF Good
    <2>1. B \subseteq Nat /\ n \in B  BY <1>0, <1>3
    <2>2. PICK k \in B : \A y \in B : k <= y  BY <2>1, LeastNumber
    <2>3. k # 0 /\ k \in 1 .. n /\ ~ Good(k)  BY <1>0, <1>1, <2>2
    <2>4. k - 1 \in Nat /\ k - 1 <= n /\ k - 1 \notin B  BY <1>0, <2>2, <2>3
    <2>. QED BY <1>2, <2>3, <2>4
  <1>. QED BY <1>3 DEF Accumulates

(* It is the only one: it ends with the contents of the list.               *)
LEMMA ContentsAccumulates ==
  ASSUME NEW p, NEW s, Len(s) \in Nat, NEW c, Accumulates(c, p, s)
  PROVE  Contents(p, s) = c[Len(s)]
  <1>. DEFINE n == Len(s)
              F(e) == [k \in 0 .. n |-> IF k = 0 THEN <<>> ELSE e[k - 1] \o p[s[k]]]
              e == CHOOSE e : e = F(e)
  <1>1. Contents(p, s) = e[n]  BY DEF Contents
  <1>2. c = F(c)
    <2>1. ASSUME NEW k \in 0 .. n  PROVE c[k] = F(c)[k]
      <3>1. CASE k = 0  BY <3>1 DEF Accumulates
      <3>2. CASE k # 0
        <4>1. k \in 1 .. n  BY <3>2
        <4>. QED BY <3>2, <4>1 DEF Accumulates
      <3>. QED BY <3>1, <3>2
    <2>. QED BY <2>1 DEF Accumulates
  <1>3. e = F(e)  BY <1>2
  <1>. HIDE DEF e
  <1>4. e[0] = <<>> /\ \A k \in 1 .. n : e[k] = e[k - 1] \o p[s[k]]
    <2>1. 0 \in 0 .. n /\ \A k \in 1 .. n : k \in 0 .. n /\ k # 0  OBVIOUS
    <2>. QED BY <1>3, <2>1
  <1>5. ASSUME e[n] # c[n]  PROVE FALSE
    <2>. DEFINE B == { k \in Nat : k <= n /\ e[k] # c[k] }
    <2>1. B \subseteq Nat /\ n \in B  BY <1>5
    <2>2. PICK k \in B : \A y \in B : k <= y  BY <2>1, LeastNumber
    <2>3. k # 0 /\ k \in 1 .. n  BY <1>4, <2>2 DEF Accumulates
    <2>4. e[k - 1] = c[k - 1]  BY <2>2, <2>3
    <2>. QED BY <1>4, <2>2, <2>3, <2>4 DEF Accumulates
  <1>. QED BY <1>1, <1>5

(* What they contain is a list of what was given.                           *)
LEMMA ContentsType ==
  ASSUME NEW p, IsStore(p), NEW s \in Seq(DOMAIN p)
  PROVE  Contents(p, s) \in Seq(Name)
  <1>0. Len(s) \in Nat /\ Len(s) \in 0 .. Len(s)  BY LenProperties
  <1>1. PICK c : Accumulates(c, p, s)  BY AccumulationExists
  <1>2. Contents(p, s) = c[Len(s)]  BY <1>0, <1>1, ContentsAccumulates
  <1>. QED BY <1>0, <1>1, <1>2 DEF Accumulates

(* Lists whose files have the same in them, one by one.                      *)
LEMMA ContentsSame ==
  ASSUME NEW p, IsStore(p), NEW q, NEW s \in Seq(DOMAIN p), NEW t, Len(s) = Len(t),
         \A k \in 1 .. Len(s) : q[t[k]] = p[s[k]]
  PROVE  Contents(q, t) = Contents(p, s)
  <1>0. Len(s) \in Nat  BY LenProperties
  <1>1. PICK c : Accumulates(c, p, s)  BY AccumulationExists
  <1>2. Accumulates(c, q, t)  BY <1>1 DEF Accumulates
  <1>3. Contents(p, s) = c[Len(s)]  BY <1>0, <1>1, ContentsAccumulates
  <1>4. Contents(q, t) = c[Len(t)]  BY <1>0, <1>2, ContentsAccumulates
  <1>. QED BY <1>3, <1>4

(* One list after another.                                                  *)
LEMMA ContentsConcat ==
  ASSUME NEW p, IsStore(p), NEW s \in Seq(DOMAIN p), NEW t \in Seq(DOMAIN p)
  PROVE  Contents(p, s \o t) = Contents(p, s) \o Contents(p, t)
  <1>. DEFINE u == s \o t
  <1>0. PICK n \in Nat, m \in Nat : n = Len(s) /\ m = Len(t)  BY LenProperties
  <1>1. PICK c : Accumulates(c, p, s)  BY <1>0, AccumulationExists
  <1>2. PICK e : Accumulates(e, p, t)  BY <1>0, AccumulationExists
  <1>3. Contents(p, s) = c[n]  BY <1>0, <1>1, ContentsAccumulates
  <1>30. Contents(p, t) = e[m]  BY <1>0, <1>2, ContentsAccumulates
  <1>4. /\ u \in Seq(DOMAIN p) /\ Len(u) = n + m
        /\ \A i \in 1 .. n + m : u[i] = IF i <= n THEN s[i] ELSE t[i - n]
    BY <1>0, ConcatProperties
  <1>. DEFINE d == [k \in 0 .. n + m |-> IF k <= n THEN c[k] ELSE c[n] \o e[k - n]]
  <1>5. c \in [0 .. n -> Seq(Name)] /\ e \in [0 .. m -> Seq(Name)]
    BY <1>0, <1>1, <1>2 DEF Accumulates
  <1>50. c[n] \in Seq(Name)
    <2>1. n \in 0 .. n  OBVIOUS
    <2>. QED BY <1>5, <2>1
  <1>6. d \in [0 .. n + m -> Seq(Name)]
    <2>1. ASSUME NEW k \in 0 .. n + m  PROVE d[k] \in Seq(Name)
      <3>1. CASE k <= n
        <4>1. k \in 0 .. n  BY <3>1
        <4>. QED BY <1>5, <3>1, <4>1
      <3>2. CASE ~(k <= n)
        <4>1. k - n \in 0 .. m  BY <3>2
        <4>2. e[k - n] \in Seq(Name)  BY <1>5, <4>1
        <4>. QED BY <1>50, <3>2, <4>2, ConcatProperties
      <3>. QED BY <3>1, <3>2
    <2>. QED BY <2>1
  <1>7. ASSUME NEW k \in 0 .. m  PROVE d[n + k] = c[n] \o e[k]
    <2>1. n + k \in 0 .. n + m /\ (n + k) - n = k  OBVIOUS
    <2>2. CASE k = 0
      <3>1. d[n + k] = c[n]  BY <2>1, <2>2
      <3>2. e[k] = <<>>  BY <1>2, <2>2 DEF Accumulates
      <3>. QED BY <1>50, <3>1, <3>2, ConcatEmptySeq
    <2>3. CASE k # 0
      <3>1. ~(n + k <= n)  BY <2>3
      <3>. QED BY <2>1, <3>1
    <2>. QED BY <2>2, <2>3
  <1>8. d[0] = <<>>
    BY <1>1 DEF Accumulates
  <1>9. \A k \in 0 .. n : d[k] = c[k]
    OBVIOUS
  <1>. HIDE DEF d, u
  <1>10. ASSUME NEW k \in 1 .. n + m  PROVE d[k] = d[k - 1] \o p[u[k]]
    <2>1. CASE k <= n
      <3>1. k \in 1 .. n /\ k \in 0 .. n /\ k - 1 \in 0 .. n  BY <2>1
      <3>2. d[k] = c[k] /\ d[k - 1] = c[k - 1]  BY <1>9, <3>1
      <3>3. u[k] = s[k]  BY <1>4, <2>1
      <3>. QED BY <1>0, <1>1, <3>1, <3>2, <3>3 DEF Accumulates
    <2>2. CASE ~(k <= n)
      <3>1. PICK j \in 1 .. m : j = k - n /\ n + j = k /\ n + (j - 1) = k - 1
        <4>1. k - n \in 1 .. m  BY <2>2
        <4>. QED BY <4>1
      <3>2. j \in 0 .. m /\ j - 1 \in 0 .. m  OBVIOUS
      <3>3. u[k] = t[j]  BY <1>4, <2>2, <3>1
      <3>4. d[k] = c[n] \o e[j] /\ d[k - 1] = c[n] \o e[j - 1]  BY <1>7, <3>1, <3>2
      <3>5. e[j] = e[j - 1] \o p[t[j]]  BY <1>0, <1>2, <3>1 DEF Accumulates
      <3>6. t[j] \in DOMAIN p  BY <1>0, ElementOfSeq
      <3>. DEFINE x == e[j - 1]  y == p[t[j]]  z == c[n]
      <3>7. x \in Seq(Name) /\ y \in Seq(Name) /\ z \in Seq(Name)
        BY <1>5, <1>50, <3>2, <3>6 DEF IsStore
      <3>. HIDE DEF x, y, z
      <3>8. (z \o x) \o y = z \o (x \o y)  BY <3>7, ConcatAssociative
      <3>. QED BY <3>3, <3>4, <3>5, <3>8 DEF x, y, z
    <2>. QED BY <2>1, <2>2
  <1>11. Accumulates(d, p, u)  BY <1>4, <1>6, <1>8, <1>10 DEF Accumulates
  <1>12. Contents(p, u) = d[Len(u)]  BY <1>4, <1>11, ContentsAccumulates
  <1>13. d[n + m] = c[n] \o e[m]
    <2>1. m \in 0 .. m  OBVIOUS
    <2>. QED BY <1>7, <2>1
  <1>. QED BY <1>3, <1>30, <1>4, <1>12, <1>13 DEF u

(* Files that have one element each of a list, in its order.                *)
LEMMA ContentsOfSingletons ==
  ASSUME NEW p, NEW s, NEW t \in Seq(Name),
         Len(s) = Len(t), \A k \in 1 .. Len(t) : p[s[k]] = <<t[k]>>
  PROVE  Contents(p, s) = t
  <1>0. PICK n \in Nat : n = Len(t) /\ \A k \in 1 .. n : t[k] \in Name
    BY LenProperties, ElementOfSeq
  <1>. DEFINE c == [k \in 0 .. n |-> SubSeq(t, 1, k)]
  <1>1. c \in [0 .. n -> Seq(Name)]
    <2>1. ASSUME NEW k \in 0 .. n  PROVE SubSeq(t, 1, k) \in Seq(Name)
      <3>1. k \in Int /\ 1 \in Int /\ \A i \in 1 .. k : t[i] \in Name  BY <1>0
      <3>. QED BY <3>1, SubSeqProperties
    <2>. QED BY <2>1
  <1>2. c[0] = <<>>  BY SubSeqEmpty
  <1>3. ASSUME NEW k \in 1 .. n  PROVE c[k] = c[k - 1] \o p[s[k]]
    <2>1. 1 \in 1 .. Len(t) /\ k \in 1 .. Len(t) /\ k \in 0 .. n /\ k - 1 \in 0 .. n  BY <1>0
    <2>2. SubSeq(t, 1, k) = SubSeq(t, 1, k - 1) \o <<t[k]>>
      <3>1. k \in 1 .. Len(t)  BY <1>0
      <3>. QED BY <2>1, <3>1, SubSeqRecursiveSecond
    <2>. QED BY <1>0, <2>1, <2>2
  <1>4. c[n] = t
    <2>1. n \in 0 .. n  OBVIOUS
    <2>. QED BY <1>0, <2>1, SubSeqFull
  <1>. HIDE DEF c
  <1>5. Accumulates(c, p, s)  BY <1>0, <1>1, <1>2, <1>3 DEF Accumulates
  <1>6. Contents(p, s) = c[Len(s)]  BY <1>0, <1>5, ContentsAccumulates
  <1>. QED BY <1>0, <1>4, <1>6

(* Those of one file.                                                       *)
LEMMA ContentsOfOne ==
  ASSUME NEW p, IsStore(p), NEW x \in DOMAIN p
  PROVE  <<x>> \in Seq(DOMAIN p) /\ Contents(p, <<x>>) = p[x]
  <1>. DEFINE c == [k \in 0 .. 1 |-> IF k = 0 THEN <<>> ELSE p[x]]  s == <<x>>
  <1>1. s \in Seq(DOMAIN p) /\ Len(s) = 1 /\ s[1] = x  OBVIOUS
  <1>2. p[x] \in Seq(Name)  BY DEF IsStore
  <1>3. c \in [0 .. 1 -> Seq(Name)]  BY <1>2, EmptySeq
  <1>4. c[0] = <<>> /\ c[1] = p[x]  OBVIOUS
  <1>5. <<>> \o p[x] = p[x]  BY <1>2, ConcatEmptySeq
  <1>. HIDE DEF c, s
  <1>6. Accumulates(c, p, s)
    <2>1. ASSUME NEW k \in 1 .. 1  PROVE c[k] = c[k - 1] \o p[s[k]]
      <3>1. k = 1 /\ k - 1 = 0  OBVIOUS
      <3>2. c[k] = c[1] /\ c[k - 1] = c[0] /\ s[k] = x  BY <1>1, <3>1
      <3>. QED BY <1>4, <1>5, <3>2
    <2>. QED BY <1>1, <1>3, <1>4, <2>1 DEF Accumulates
  <1>7. Len(s) \in Nat  BY <1>1
  <1>8. Contents(p, s) = c[Len(s)]  BY <1>6, <1>7, ContentsAccumulates
  <1>. QED BY <1>1, <1>4, <1>8 DEF s
------------------------------------------------------------------------------
(* Where sort is: at the buffers, in a pass of merge, at the copy of a file *)
(* that is the output file, in the retreat from files that it cannot open,  *)
(* in the last merge.                                                        *)
Making == pc \in {"create", "link", "open", "merge", "unlink"}
Buffering == pc \in {"sort", "write"} \/ (pc \in {"create", "link"} /\ purpose = "buffer")
Passing == pc \in {"full", "slide"} \/ (Making /\ purpose \in {"full", "short"})
Copying == Making /\ purpose = "copy"
Retreating == Making /\ purpose = "retreat"
Last == pc \in {"merge", "unlink"} /\ purpose = "output"
Reading == pc \in {"loop", "avoid", "final", "retreat"} \/ Passing \/ Copying \/ Retreating

(* The files that merge still has to read: of a pass, those it has made and *)
(* those it has not come to.                                                *)
Live == IF Passing THEN SubSeq(files, 1, out) \o SubSeq(files, in + 1, Len(files)) ELSE files

DataInv ==
  /\ given \in Seq(Name) /\ nmerge \in Nat \ {0, 1}
  /\ same \subseteq Name /\ \A x, y \in same : x = y
  /\ temphead \in Seq(Nat)
  /\ temp \in Nat /\ tempcopy \in Nat
  /\ ntemps \in Nat /\ in \in Nat /\ out \in Nat /\ nopened \in Nat
  /\ files \in Seq(DOMAIN parts)
  /\ fresh \in Nat /\ fresh > NFiles
  /\ DOMAIN parts \subseteq 1 .. fresh - 1
  /\ IsStore(parts)

(* The file that is being made is none of those that are there.             *)
TempInv ==
  /\ (pc \in {"link", "write"} \/ (pc \in {"open", "merge", "unlink"} /\ purpose # "output")) =>
       temp > NFiles /\ temp < fresh /\ temp \notin DOMAIN parts
  /\ pc = "open" => purpose \in {"full", "short", "copy"}

(* The files that have been sorted from a buffer.                           *)
Buffered == Len(temphead) - (IF pc = "write" THEN 1 ELSE 0)
BufferInv ==
  Buffering =>
    /\ same = {} /\ tempcopy = None /\ files = <<>> /\ ntemps = 0
    /\ Len(temphead) <= Len(given)
    /\ pc \in {"create", "link"} => Len(temphead) < Len(given)
    /\ pc = "write" => Len(temphead) > 0 /\ temphead[Len(temphead)] = temp
    /\ \A i \in 1 .. Buffered :
         /\ temphead[i] \in DOMAIN parts /\ temphead[i] > NFiles
         /\ parts[temphead[i]] = <<given[i]>>

(* ntemps counts the temporary files that are first, of those to be read.   *)
Temporary(i) == files[i] > NFiles
CountInv ==
  /\ pc = "loop" => ntemps <= Len(files) /\ \A i \in 1 .. ntemps : Temporary(i)
  /\ Passing =>
       /\ out <= in /\ in + ntemps <= Len(files)
       /\ \A i \in 1 .. out : Temporary(i)
       /\ \A i \in in + 1 .. in + ntemps : Temporary(i)
       /\ Making /\ purpose = "full" => nmerge <= Len(files) - in
       /\ Making /\ purpose = "short" => CheapSlots < Remainder

(* The output file is not among those that come before in, and has one copy. *)
SameInv ==
  /\ pc = "avoid" \/ Copying =>
       in <= Len(files) /\ \A i \in 1 .. in : files[i] \notin same
  /\ Copying => in < Len(files) /\ files[in + 1] \in same /\ tempcopy = None
  /\ pc \in {"final", "retreat"} \/ Retreating =>
       \A i \in 1 .. Len(files) : files[i] \notin same
  /\ Reading /\ tempcopy # None =>
       /\ tempcopy \in DOMAIN parts /\ tempcopy > NFiles
       /\ \A x \in same \cap DOMAIN parts : parts[x] = parts[tempcopy]

(* What is being merged.                                                    *)
WindowInv ==
  /\ Copying /\ pc \in {"merge", "unlink"} => nopened = 1
  /\ (Copying \/ Passing) /\ pc \in {"merge", "unlink"} =>
       /\ nopened > 0 /\ in + nopened <= Len(files)
       /\ window = SubSeq(files, in + 1, in + nopened)
  /\ pc = "retreat" \/ Retreating => nopened <= Len(files)
  /\ pc = "retreat" => nopened > 2
  /\ Retreating /\ pc \in {"merge", "unlink"} => window = SubSeq(files, 1, nopened)

(* Nothing is lost, nothing comes twice, nothing changes places.            *)
ContentInv ==
  /\ Reading => Contents(parts, Live) = given
  /\ Last => Contents(parts, window) = given
  /\ pc \in {"exit", "done"} => written = given

MergeInv == DataInv /\ TempInv /\ BufferInv /\ CountInv /\ SameInv /\ WindowInv /\ ContentInv
------------------------------------------------------------------------------
(* Part of a list.                                                          *)
LEMMA SliceFacts ==
  ASSUME NEW S, NEW s \in Seq(S), NEW i \in Nat, NEW j \in Nat, i <= j, j <= Len(s)
  PROVE  /\ SubSeq(s, i + 1, j) \in Seq(S)
         /\ Len(SubSeq(s, i + 1, j)) = j - i
         /\ \A k \in 1 .. j - i : SubSeq(s, i + 1, j)[k] = s[i + k]
         /\ SubSeq(s, i + 1, j) \o SubSeq(s, j + 1, Len(s)) = SubSeq(s, i + 1, Len(s))
  <1>. DEFINE m == i + 1
  <1>1. m \in Int /\ j \in Int /\ \A k \in m .. j : s[k] \in S
    BY LenProperties, ElementOfSeq
  <1>2. /\ SubSeq(s, m, j) \in Seq(S)
        /\ Len(SubSeq(s, m, j)) = IF m <= j THEN j - m + 1 ELSE 0
        /\ \A k \in 1 .. j - m + 1 : SubSeq(s, m, j)[k] = s[m + k - 1]
    <2>. HIDE DEF m
    <2>. QED BY <1>1, SubSeqProperties
  <1>3. Len(SubSeq(s, m, j)) = j - i  BY <1>2
  <1>4. ASSUME NEW k \in 1 .. j - i  PROVE SubSeq(s, m, j)[k] = s[i + k]
    <2>1. k \in 1 .. j - m + 1 /\ m + k - 1 = i + k  OBVIOUS
    <2>. QED BY <1>2, <2>1
  <1>5. SubSeq(s, m, j) \o SubSeq(s, j + 1, Len(s)) = SubSeq(s, m, Len(s))
    <2>1. Len(s) \in Nat  BY LenProperties
    <2>2. m \in 1 .. Len(s) + 1 /\ j \in m - 1 .. Len(s) /\ Len(s) \in j .. Len(s)  BY <2>1
    <2>. HIDE DEF m
    <2>. QED BY <2>2, ConcatAdjacentSubSeq
  <1>. QED BY <1>2, <1>3, <1>4, <1>5

(* One element of it is replaced.                                           *)
Replaced(s, k, x) == [s EXCEPT ![k] = x]

(* The others stay, and so does what is before it and what is after it.     *)
OneReplaced(t, s, k, x) ==
  /\ Len(t) = Len(s)
  /\ t[k] = x
  /\ \A j \in 1 .. Len(s) : j # k => t[j] = s[j]
  /\ SubSeq(t, 1, k) = SubSeq(s, 1, k - 1) \o <<x>>
  /\ \A i \in Nat : k <= i /\ i <= Len(s) => SubSeq(t, i + 1, Len(s)) = SubSeq(s, i + 1, Len(s))

LEMMA ReplaceFacts ==
  ASSUME NEW S, NEW s \in Seq(S), NEW k \in DOMAIN s, NEW x \in S
  PROVE  Replaced(s, k, x) \in Seq(S) /\ OneReplaced(Replaced(s, k, x), s, k, x)
  <1>. DEFINE n == Len(s)
  <1>0. n \in Nat /\ k \in 1 .. n  BY LenProperties
  <1>1. PICK t : t = [s EXCEPT ![k] = x] /\ t = Replaced(s, k, x)  BY DEF Replaced
  <1>2. /\ t \in Seq(S) /\ Len(t) = n
        /\ \A j \in 1 .. n : t[j] = IF j = k THEN x ELSE s[j]
    BY <1>0, <1>1, ExceptSeq
  <1>3. SubSeq(t, 1, k) = SubSeq(s, 1, k - 1) \o <<x>>
    <2>1. SubSeq(t, 1, k) = SubSeq(t, 1, k - 1) \o <<t[k]>>
      <3>1. 1 \in 1 .. Len(t) /\ k \in 1 .. Len(t)  BY <1>0, <1>2
      <3>. QED BY <1>2, <3>1, SubSeqRecursiveSecond
    <2>. DEFINE a == SubSeq(t, 1, k - 1)  b == SubSeq(s, 1, k - 1)
    <2>2. /\ a \in Seq(S) /\ Len(a) = k - 1 /\ \A j \in 1 .. k - 1 : a[j] = t[j]
          /\ b \in Seq(S) /\ Len(b) = k - 1 /\ \A j \in 1 .. k - 1 : b[j] = s[j]
      <3>. DEFINE l == k - 1  z == 0
      <3>1. l \in Nat /\ z \in Nat /\ z <= l /\ l <= Len(s) /\ l <= Len(t)  BY <1>0, <1>2
      <3>2. z + 1 = 1 /\ l - z = l /\ \A j \in 1 .. l : z + j = j  BY <3>1
      <3>. HIDE DEF l, z
      <3>3. /\ SubSeq(t, z + 1, l) \in Seq(S) /\ Len(SubSeq(t, z + 1, l)) = l - z
            /\ \A j \in 1 .. l - z : SubSeq(t, z + 1, l)[j] = t[z + j]
        BY <1>2, <3>1, SliceFacts
      <3>4. /\ SubSeq(s, z + 1, l) \in Seq(S) /\ Len(SubSeq(s, z + 1, l)) = l - z
            /\ \A j \in 1 .. l - z : SubSeq(s, z + 1, l)[j] = s[z + j]
        BY <3>1, SliceFacts
      <3>. QED BY <3>2, <3>3, <3>4 DEF l
    <2>3. a = b
      <3>1. \A j \in 1 .. k - 1 : j \in 1 .. n /\ j # k  BY <1>0
      <3>2. \A j \in 1 .. Len(a) : a[j] = b[j]  BY <1>2, <2>2, <3>1
      <3>. HIDE DEF a, b
      <3>. QED BY <2>2, <3>2, SeqEqual
    <2>4. t[k] = x  BY <1>0, <1>2
    <2>. HIDE DEF a, b
    <2>5. SubSeq(t, 1, k) = a \o <<x>>  BY <2>1, <2>4 DEF a
    <2>. QED BY <2>3, <2>5 DEF b
  <1>4. ASSUME NEW i \in Nat, k <= i, i <= n
        PROVE  SubSeq(t, i + 1, n) = SubSeq(s, i + 1, n)
    <2>. DEFINE a == SubSeq(t, i + 1, n)  b == SubSeq(s, i + 1, n)
    <2>1. a \in Seq(S) /\ Len(a) = n - i /\ \A j \in 1 .. n - i : a[j] = t[i + j]
      BY <1>0, <1>2, <1>4, SliceFacts
    <2>2. b \in Seq(S) /\ Len(b) = n - i /\ \A j \in 1 .. n - i : b[j] = s[i + j]
      BY <1>0, <1>4, SliceFacts
    <2>3. \A j \in 1 .. n - i : i + j \in 1 .. n /\ i + j # k  BY <1>0, <1>4
    <2>4. \A j \in 1 .. Len(a) : a[j] = b[j]  BY <1>2, <2>1, <2>2, <2>3
    <2>. HIDE DEF a, b
    <2>5. a = b  BY <2>1, <2>2, <2>4, SeqEqual
    <2>. QED BY <2>5 DEF a, b
  <1>5. t[k] = x  BY <1>0, <1>2
  <1>. QED BY <1>1, <1>2, <1>3, <1>4, <1>5 DEF OneReplaced

(* What is in other files does not matter.                                  *)
LEMMA ContentsElsewhere ==
  ASSUME NEW p, IsStore(p), NEW q, NEW s \in Seq(DOMAIN p),
         \A k \in 1 .. Len(s) : q[s[k]] = p[s[k]]
  PROVE  Contents(q, s) = Contents(p, s)
  <1>1. PICK t : t = s  OBVIOUS
  <1>2. Len(s) = Len(t) /\ \A k \in 1 .. Len(s) : q[t[k]] = p[s[k]]  BY <1>1
  <1>3. Contents(q, t) = Contents(p, s)  BY <1>2, ContentsSame
  <1>. QED BY <1>1, <1>3

(* A file takes the place of those that have been merged into it.           *)
LEMMA MergedContents ==
  ASSUME NEW p, IsStore(p), NEW x, x \notin DOMAIN p,
         NEW a \in Seq(DOMAIN p), NEW w \in Seq(DOMAIN p), NEW r \in Seq(DOMAIN p),
         NEW q, IsStore(q), DOMAIN q = DOMAIN p \cup {x},
         q[x] = Contents(p, w), \A y \in DOMAIN p : q[y] = p[y],
         NEW f, f = <<x>>
  PROVE  /\ Contents(q, (a \o f) \o r) = Contents(p, a \o (w \o r))
         /\ Contents(q, f \o r) = Contents(p, w \o r)
  <1>3. a \in Seq(DOMAIN q) /\ r \in Seq(DOMAIN q)
    BY SeqMonotonic
  <1>4. ASSUME NEW s \in Seq(DOMAIN p)  PROVE Contents(q, s) = Contents(p, s)
    <2>1. ASSUME NEW k \in 1 .. Len(s)  PROVE q[s[k]] = p[s[k]]
      <3>1. s[k] \in DOMAIN p  BY ElementOfSeq
      <3>. QED BY <3>1
    <2>. QED BY <2>1, ContentsElsewhere
  <1>6. <<x>> \in Seq(DOMAIN q) /\ Contents(q, <<x>>) = Contents(p, w)
    BY ContentsOfOne
  <1>7. Contents(q, <<x>> \o r) = Contents(p, w) \o Contents(p, r)
    <2>. DEFINE e == <<x>>
    <2>1. e \in Seq(DOMAIN q)  BY <1>6
    <2>. HIDE DEF e
    <2>2. Contents(q, e \o r) = Contents(q, e) \o Contents(q, r)  BY <1>3, <2>1, ContentsConcat
    <2>. QED BY <1>4, <1>6, <2>2 DEF e
  <1>8. Contents(p, w \o r) = Contents(p, w) \o Contents(p, r)
    BY ContentsConcat
  <1>9. w \o r \in Seq(DOMAIN p) /\ <<x>> \o r \in Seq(DOMAIN q)
    BY <1>3, <1>6, ConcatProperties
  <1>10. Contents(p, a \o (w \o r)) = Contents(p, a) \o Contents(p, w \o r)
    BY <1>9, ContentsConcat
  <1>11. Contents(q, a \o (<<x>> \o r)) = Contents(p, a) \o Contents(q, <<x>> \o r)
    BY <1>3, <1>4, <1>9, ContentsConcat
  <1>12. (a \o <<x>>) \o r = a \o (<<x>> \o r)
    <2>. DEFINE e == <<x>>
    <2>1. e \in Seq(DOMAIN q)  BY <1>6
    <2>. HIDE DEF e
    <2>2. (a \o e) \o r = a \o (e \o r)  BY <1>3, <2>1, ConcatAssociative
    <2>. QED BY <2>2 DEF e
  <1>. QED BY <1>7, <1>8, <1>10, <1>11, <1>12
------------------------------------------------------------------------------
(* Steps that write nothing into the files.                                 *)
LEMMA DataKept ==
  ASSUME DataInv, UNCHANGED <<options, parts, fresh>>,
         temphead' \in Seq(Nat), temp' \in Nat, tempcopy' \in Nat,
         ntemps' \in Nat, in' \in Nat, out' \in Nat, nopened' \in Nat,
         files' \in Seq(DOMAIN parts)
  PROVE  DataInv'
  BY DEF DataInv, options

(* create_temp_file gives a name that no file has.                          *)
LEMMA CreateTempMerges ==
  ASSUME MergeInv, CreateTemp
  PROVE  MergeInv'
  <1>. USE DEF Making, Buffering, Passing, Copying, Retreating, Last, Reading
  <1>0. /\ DataInv /\ pc = "create" /\ purpose' = purpose
        /\ UNCHANGED <<given, nmerge, same, files, ntemps, in, out, nopened, window, tempcopy, temphead,
                       parts, written>>
        /\ \/ pc' = "link" /\ temp' = fresh /\ fresh' = fresh + 1
           \/ pc' = "retreat" /\ purpose = "retreat" /\ nopened > 2 /\ UNCHANGED <<temp, fresh>>
           \/ pc' = "die" /\ UNCHANGED <<temp, fresh>>
    BY DEF CreateTemp, SurvivesExhaustion, MergeInv, options
  <1>1. DataInv'
    <2>1. fresh' \in Nat /\ fresh' > NFiles /\ DOMAIN parts \subseteq 1 .. fresh' - 1 /\ temp' \in Nat
      BY <1>0, NFilesAssumption DEF DataInv
    <2>. QED BY <1>0, <2>1 DEF DataInv, IsStore
  <1>2. TempInv'
    BY <1>0, NFilesAssumption DEF TempInv, DataInv
  <1>3. BufferInv'
    BY <1>0 DEF MergeInv, BufferInv, Buffered
  <1>4. CountInv'
    BY <1>0 DEF MergeInv, CountInv, Temporary, CheapSlots, Remainder
  <1>5. SameInv'
    BY <1>0 DEF MergeInv, SameInv
  <1>6. WindowInv'
    BY <1>0 DEF MergeInv, WindowInv
  <1>7. ContentInv'
    BY <1>0 DEF MergeInv, ContentInv, Live
  <1>. QED BY <1>1, <1>2, <1>3, <1>4, <1>5, <1>6, <1>7 DEF MergeInv

(* The file is in the list when it is written.                              *)
LEMMA LinkTempMerges ==
  ASSUME MergeInv, LinkTemp
  PROVE  MergeInv'
  <1>. USE DEF Making, Buffering, Passing, Copying, Retreating, Last, Reading
  <1>0. /\ DataInv /\ pc = "link" /\ purpose' = purpose
        /\ UNCHANGED <<options, files, ntemps, in, out, nopened, temp, tempcopy, parts, fresh, written>>
        /\ temphead' = Append(temphead, temp)
        /\ \/ pc' = "write" /\ purpose = "buffer"
           \/ pc' = "open" /\ purpose \in {"full", "short", "copy"}
           \/ /\ pc' = "merge" /\ purpose = "retreat"
              /\ window' = SubSeq(files, 0 + 1, 0 + nopened)
    BY DEF LinkTemp, MergeInv, Merge
  <1>1. /\ temphead' \in Seq(Nat) /\ Len(temphead') = Len(temphead) + 1 /\ Len(temphead) \in Nat
        /\ \A i \in 1 .. Len(temphead) : temphead'[i] = temphead[i]
        /\ temphead'[Len(temphead) + 1] = temp
    BY <1>0, AppendProperties, LenProperties DEF DataInv
  <1>2. DataInv'
    BY <1>0, <1>1, DataKept DEF DataInv
  <1>3. TempInv'
    BY <1>0 DEF MergeInv, TempInv
  <1>4. BufferInv'
    <2>1. CASE pc' = "write"
      BY <1>0, <1>1, <2>1 DEF MergeInv, BufferInv, Buffered, DataInv, options
    <2>2. CASE pc' # "write"
      BY <1>0, <2>2 DEF BufferInv
    <2>. QED BY <2>1, <2>2
  <1>5. CountInv'
    BY <1>0 DEF MergeInv, CountInv, Temporary, CheapSlots, Remainder, options
  <1>6. SameInv'
    BY <1>0 DEF MergeInv, SameInv, options
  <1>7. WindowInv'
    <2>1. 0 + 1 = 1 /\ 0 + nopened = nopened  BY <1>0 DEF DataInv
    <2>. QED BY <1>0, <2>1 DEF MergeInv, WindowInv
  <1>8. ContentInv'
    BY <1>0 DEF MergeInv, ContentInv, Live, options
  <1>. QED BY <1>2, <1>3, <1>4, <1>5, <1>6, <1>7, <1>8 DEF MergeInv

(* sort writes a buffer that holds everything; or it makes a file for it;   *)
(* or it goes on to merge the files, each with a buffer in it.              *)
LEMMA SortBufferMerges ==
  ASSUME MergeInv, SortBuffer
  PROVE  MergeInv'
  <1>. USE DEF Making, Buffering, Passing, Copying, Retreating, Last, Reading
  <1>0. /\ DataInv /\ BufferInv /\ pc = "sort" /\ UNCHANGED <<options, store>>
        /\ UNCHANGED <<in, out, nopened, window, temp, tempcopy>>
    BY DEF SortBuffer, MergeInv, work
  <1>1. Len(temphead) \in Nat  BY <1>0, LenProperties DEF DataInv
  <1>2. CASE pc' = "exit" /\ written' = given /\ UNCHANGED work
    <2>1. DataInv'
      BY <1>0, <1>2, DataKept DEF DataInv, store, work
    <2>2. TempInv' /\ BufferInv'
      BY <1>2 DEF TempInv, BufferInv
    <2>3. CountInv' /\ SameInv' /\ WindowInv'
      BY <1>2 DEF CountInv, SameInv, WindowInv
    <2>4. ContentInv'
      BY <1>0, <1>2 DEF ContentInv, options
    <2>. QED BY <2>1, <2>2, <2>3, <2>4 DEF MergeInv
  <1>3. CASE /\ pc' = "create" /\ purpose' = "buffer" /\ UNCHANGED <<files, ntemps, written>>
             /\ Len(temphead) < Len(given)
    <2>1. DataInv'
      BY <1>0, <1>3, DataKept DEF DataInv, store
    <2>2. TempInv'
      BY <1>3 DEF TempInv
    <2>3. BufferInv'
      BY <1>0, <1>3 DEF BufferInv, Buffered, options, store
    <2>4. CountInv' /\ SameInv' /\ WindowInv'
      BY <1>3 DEF CountInv, SameInv, WindowInv
    <2>5. ContentInv'
      BY <1>3 DEF ContentInv
    <2>. QED BY <2>1, <2>2, <2>3, <2>4, <2>5 DEF MergeInv
  <1>4. CASE /\ pc' = "loop" /\ files' = temphead /\ ntemps' = Len(temphead)
             /\ Len(temphead) = Len(given)
    <2>1. \A i \in 1 .. Len(temphead) : /\ temphead[i] \in DOMAIN parts /\ temphead[i] > NFiles
                                        /\ parts[temphead[i]] = <<given[i]>>
      BY <1>0, <1>1 DEF BufferInv, Buffered
    <2>2. temphead \in Seq(DOMAIN parts)
      <3>1. /\ temphead \in [1 .. Len(temphead) -> Nat]  BY <1>0, LenProperties DEF DataInv
      <3>2. temphead \in [1 .. Len(temphead) -> DOMAIN parts]  BY <2>1, <3>1
      <3>. QED BY <1>1, <3>2, SeqDef
    <2>3. DataInv'
      BY <1>0, <1>1, <1>4, <2>2, DataKept DEF DataInv, store
    <2>4. TempInv' /\ BufferInv'
      BY <1>4 DEF TempInv, BufferInv
    <2>5. CountInv'
      BY <1>1, <1>4, <2>1 DEF CountInv, Temporary
    <2>6. SameInv' /\ WindowInv'
      BY <1>0, <1>4 DEF SameInv, WindowInv, BufferInv
    <2>7. Contents(parts, temphead) = given
      <3>1. given \in Seq(Name) /\ \A k \in 1 .. Len(given) : parts[temphead[k]] = <<given[k]>>
        BY <1>0, <1>4, <2>1 DEF DataInv
      <3>. QED BY <1>4, <3>1, ContentsOfSingletons
    <2>8. ContentInv'
      BY <1>0, <1>4, <2>7 DEF ContentInv, Live, store, options
    <2>. QED BY <2>3, <2>4, <2>5, <2>6, <2>8 DEF MergeInv
  <1>. QED BY <1>2, <1>3, <1>4 DEF SortBuffer, Create

(* write puts the buffer into its file.                                     *)
LEMMA WriteBufferMerges ==
  ASSUME MergeInv, WriteBuffer
  PROVE  MergeInv'
  <1>. USE DEF Making, Buffering, Passing, Copying, Retreating, Last, Reading
  <1>0. /\ DataInv /\ BufferInv /\ TempInv /\ pc = "write" /\ pc' = "sort"
        /\ UNCHANGED <<options, work, temphead, disk, blocked, fresh, written>>
        /\ parts' = [y \in DOMAIN parts \cup {temp} |->
                       IF y = temp THEN <<given[Len(temphead)]>> ELSE parts[y]]
    BY DEF WriteBuffer, MergeInv, Holds
  <1>1. Len(temphead) \in Nat /\ Len(given) \in Nat
    BY <1>0, LenProperties DEF DataInv
  <1>2. given[Len(temphead)] \in Name
    BY <1>0, <1>1, ElementOfSeq DEF BufferInv, DataInv
  <1>3. IsStore(parts') /\ DOMAIN parts' = DOMAIN parts \cup {temp}
    <2>1. <<given[Len(temphead)]>> \in Seq(Name)  BY <1>2
    <2>2. \A y \in DOMAIN parts : parts[y] \in Seq(Name)  BY <1>0 DEF DataInv, IsStore
    <2>. QED BY <1>0, <2>1, <2>2 DEF IsStore
  <1>4. DataInv'
    <2>1. DOMAIN parts' \subseteq 1 .. fresh - 1
      BY <1>0, <1>3, NFilesAssumption DEF TempInv, DataInv
    <2>2. files \in Seq(DOMAIN parts')
      BY <1>0, <1>3, SeqMonotonic DEF DataInv
    <2>. QED BY <1>0, <1>3, <2>1, <2>2 DEF DataInv, options, work
  <1>5. TempInv' /\ CountInv' /\ SameInv' /\ WindowInv' /\ ContentInv'
    BY <1>0 DEF TempInv, CountInv, SameInv, WindowInv, ContentInv
  <1>6. BufferInv'
    <2>1. ASSUME NEW i \in 1 .. Len(temphead)
          PROVE  /\ temphead[i] \in DOMAIN parts' /\ temphead[i] > NFiles
                 /\ parts'[temphead[i]] = <<given[i]>>
      <3>1. CASE i = Len(temphead)
        BY <1>0, <1>3, <3>1 DEF BufferInv, TempInv
      <3>2. CASE i # Len(temphead)
        <4>1. i \in 1 .. Buffered  BY <1>0, <1>1, <3>2 DEF Buffered
        <4>. QED BY <1>0, <1>3, <4>1 DEF BufferInv, TempInv
      <3>. QED BY <3>1, <3>2
    <2>2. Buffered' = Len(temphead)  BY <1>0, <1>1 DEF Buffered
    <2>3. /\ same' = {} /\ tempcopy' = None /\ files' = <<>> /\ ntemps' = 0
          /\ Len(temphead') <= Len(given')
      BY <1>0 DEF BufferInv, options, work
    <2>4. \A i \in 1 .. Buffered' : /\ temphead'[i] \in DOMAIN parts' /\ temphead'[i] > NFiles
                                    /\ parts'[temphead'[i]] = <<given'[i]>>
      BY <1>0, <2>1, <2>2 DEF options
    <2>. HIDE DEF Buffering
    <2>. QED BY <1>0, <2>3, <2>4 DEF BufferInv
  <1>. QED BY <1>4, <1>5, <1>6 DEF MergeInv

(* A pass begins with all the files; the last merge comes when they are few *)
(* enough, and the temporary ones need not be looked at: the output file is *)
(* not one of them.                                                         *)
LEMMA PassMerges ==
  ASSUME MergeInv, Pass
  PROVE  MergeInv'
  <1>. USE DEF Making, Buffering, Passing, Copying, Retreating, Last, Reading
  <1>0. /\ DataInv /\ pc = "loop"
        /\ UNCHANGED <<options, purpose, files, ntemps, nopened, window, temp, tempcopy, store, written>>
        /\ \/ pc' = "full" /\ in' = 0 /\ out' = 0
           \/ pc' = "avoid" /\ in' = ntemps /\ UNCHANGED out
    BY DEF Pass, MergeInv
  <1>1. Len(files) \in Nat /\ \A i \in 1 .. ntemps : files[i] \notin same
    BY <1>0, LenProperties, NFilesAssumption DEF MergeInv, CountInv, Temporary, DataInv, Name
  <1>2. DataInv'
    BY <1>0, DataKept DEF DataInv, store
  <1>3. TempInv' /\ BufferInv'
    BY <1>0 DEF TempInv, BufferInv
  <1>4. CountInv'
    <2>1. \A i : i \in 0 + 1 .. 0 + ntemps => i \in 1 .. ntemps  BY <1>0 DEF DataInv
    <2>. QED BY <1>0, <1>1, <2>1 DEF MergeInv, CountInv, Temporary, DataInv
  <1>5. SameInv'
    BY <1>0, <1>1 DEF MergeInv, CountInv, SameInv, options, store
  <1>6. WindowInv'
    BY <1>0 DEF WindowInv
  <1>7. ContentInv'
    <2>1. SubSeq(files, 1, 0) \o SubSeq(files, 0 + 1, Len(files)) = files
      <3>1. SubSeq(files, 1, 0) = <<>>  BY SubSeqEmpty
      <3>2. SubSeq(files, 0 + 1, Len(files)) = files  BY <1>0, SubSeqFull DEF DataInv
      <3>. QED BY <1>0, <3>1, <3>2, ConcatEmptySeq DEF DataInv
    <2>. QED BY <1>0, <2>1 DEF MergeInv, ContentInv, Live, options, store
  <1>. QED BY <1>2, <1>3, <1>4, <1>5, <1>6, <1>7 DEF MergeInv

(* A merge of nmerge files, or of as many as leave nmerge.                   *)
LEMMA NextMergeMerges ==
  ASSUME MergeInv, FullMerge \/ ShortMerge
  PROVE  MergeInv'
  <1>. USE DEF Making, Buffering, Passing, Copying, Retreating, Last, Reading
  <1>0. /\ DataInv /\ pc = "full" /\ pc' = "create"
        /\ UNCHANGED <<options, files, ntemps, in, out, nopened, window, temp, tempcopy, store, written>>
        /\ \/ purpose' = "full" /\ nmerge <= Len(files) - in
           \/ purpose' = "short" /\ CheapSlots < Remainder
    BY DEF FullMerge, ShortMerge, MergeInv, Create
  <1>1. DataInv'
    BY <1>0, DataKept DEF DataInv, store
  <1>2. TempInv' /\ BufferInv' /\ WindowInv'
    BY <1>0 DEF TempInv, BufferInv, WindowInv
  <1>3. CountInv'
    BY <1>0 DEF MergeInv, CountInv, Temporary, CheapSlots, Remainder, options
  <1>4. SameInv'
    BY <1>0 DEF MergeInv, SameInv, options, store
  <1>5. ContentInv'
    BY <1>0 DEF MergeInv, ContentInv, Live, options, store
  <1>. QED BY <1>1, <1>2, <1>3, <1>4, <1>5 DEF MergeInv

(* At the end of a pass, the files not come to move down to those made.     *)
LEMMA EndPassMerges ==
  ASSUME MergeInv, EndPass
  PROVE  MergeInv'
  <1>. USE DEF Making, Buffering, Passing, Copying, Retreating, Last, Reading
  <1>0. /\ DataInv /\ pc \in {"full", "slide"} /\ pc' = "loop"
        /\ files' = SubSeq(files, 1, out) \o SubSeq(files, in + 1, Len(files))
        /\ ntemps' = ntemps + out
        /\ UNCHANGED <<options, purpose, in, out, nopened, window, temp, tempcopy, store, written>>
    BY DEF EndPass, MergeInv
  <1>1. /\ out \in Nat /\ in \in Nat /\ ntemps \in Nat /\ Len(files) \in Nat
        /\ out <= in /\ in + ntemps <= Len(files)
        /\ \A i \in 1 .. out : files[i] > NFiles
        /\ \A i \in in + 1 .. in + ntemps : files[i] > NFiles
    BY <1>0, LenProperties DEF MergeInv, CountInv, DataInv, Temporary
  <1>2. PICK a : /\ a = SubSeq(files, 1, out) /\ a \in Seq(DOMAIN parts) /\ Len(a) = out
                 /\ \A k \in 1 .. out : a[k] = files[k]
    <2>. DEFINE z == 0
    <2>1. z \in Nat /\ z <= out /\ out <= Len(files) /\ files \in Seq(DOMAIN parts)
          /\ z + 1 = 1 /\ out - z = out /\ \A k \in 1 .. out : z + k = k
      BY <1>0, <1>1 DEF DataInv
    <2>. HIDE DEF z
    <2>2. /\ SubSeq(files, z + 1, out) \in Seq(DOMAIN parts)
          /\ Len(SubSeq(files, z + 1, out)) = out - z
          /\ \A k \in 1 .. out - z : SubSeq(files, z + 1, out)[k] = files[z + k]
      BY <1>1, <2>1, SliceFacts
    <2>. QED BY <2>1, <2>2
  <1>3. PICK b : /\ b = SubSeq(files, in + 1, Len(files)) /\ b \in Seq(DOMAIN parts)
                 /\ Len(b) = Len(files) - in
                 /\ \A k \in 1 .. Len(files) - in : b[k] = files[in + k]
    <2>. DEFINE n == Len(files)
    <2>1. n \in Nat /\ in <= n /\ n <= Len(files) /\ files \in Seq(DOMAIN parts)
      BY <1>0, <1>1 DEF DataInv
    <2>. HIDE DEF n
    <2>2. /\ SubSeq(files, in + 1, n) \in Seq(DOMAIN parts)
          /\ Len(SubSeq(files, in + 1, n)) = n - in
          /\ \A k \in 1 .. n - in : SubSeq(files, in + 1, n)[k] = files[in + k]
      BY <1>1, <2>1, SliceFacts
    <2>. QED BY <2>2 DEF n
  <1>4. /\ files' \in Seq(DOMAIN parts) /\ Len(files') = out + (Len(files) - in)
        /\ \A i \in 1 .. out + (Len(files) - in) : files'[i] = IF i <= out THEN a[i] ELSE b[i - out]
    <2>1. /\ a \o b \in Seq(DOMAIN parts) /\ Len(a \o b) = Len(a) + Len(b)
          /\ \A i \in 1 .. Len(a) + Len(b) : (a \o b)[i] = IF i <= Len(a) THEN a[i] ELSE b[i - Len(a)]
      <3>1. a \in Seq(DOMAIN parts) /\ b \in Seq(DOMAIN parts)  BY <1>2, <1>3
      <3>. QED BY ONLY <3>1, ConcatProperties
    <2>2. files' = a \o b  BY <1>0, <1>2, <1>3
    <2>3. Len(a) = out /\ Len(b) = Len(files) - in  BY <1>2, <1>3
    <2>. QED BY <2>1, <2>2, <2>3
  <1>5. DataInv'
    <2>1. ntemps' \in Nat  BY <1>0, <1>1
    <2>. QED BY <1>0, <1>4, <2>1, DataKept DEF DataInv, store
  <1>6. TempInv' /\ BufferInv' /\ WindowInv'
    BY <1>0 DEF TempInv, BufferInv, WindowInv
  <1>7. CountInv'
    <2>1. ntemps' <= Len(files')
      <3>1. ntemps + out <= out + (Len(files) - in)  BY <1>1
      <3>. QED BY <1>0, <1>4, <3>1
    <2>2. ASSUME NEW i \in 1 .. ntemps + out  PROVE files'[i] > NFiles
      <3>1. i \in 1 .. out + (Len(files) - in)  BY <1>1
      <3>2. CASE i <= out
        <4>1. i \in 1 .. out  BY <3>2
        <4>. QED BY <1>1, <1>2, <1>4, <3>1, <3>2, <4>1
      <3>3. CASE ~(i <= out)
        <4>1. /\ i - out \in 1 .. Len(files) - in
              /\ in + (i - out) \in in + 1 .. in + ntemps
          BY <1>1, <3>1, <3>3
        <4>. QED BY <1>1, <1>3, <1>4, <3>1, <3>3, <4>1
      <3>. QED BY <3>2, <3>3
    <2>. QED BY <1>0, <2>1, <2>2 DEF CountInv, Temporary
  <1>8. SameInv'
    BY <1>0 DEF MergeInv, SameInv, options, store
  <1>9. ContentInv'
    BY <1>0 DEF MergeInv, ContentInv, Live, options, store
  <1>. QED BY <1>5, <1>6, <1>7, <1>8, <1>9 DEF MergeInv

(* mergefiles takes files that are there, and at least one.                 *)
LEMMA MergeFilesMerges ==
  ASSUME MergeInv, MergeFiles
  PROVE  MergeInv'
  <1>. USE DEF Making, Buffering, Passing, Copying, Retreating, Last, Reading
  <1>0. /\ DataInv /\ pc = "open"
        /\ UNCHANGED <<options, purpose, files, ntemps, in, out, temp, tempcopy, store, written>>
    BY DEF MergeFiles, MergeInv
  <1>1. PICK k \in 0 .. Wanted :
          /\ nopened' = k
          /\ \/ pc' = "die"
             \/ /\ k = Wanted \/ k >= 2
                /\ pc' = "merge"
                /\ window' = SubSeq(files, in + 1, in + k)
    BY DEF MergeFiles, Merge
  <1>2. Wanted \in Nat /\ in + Wanted <= Len(files) /\ (purpose = "copy" => Wanted = 1)
        /\ (purpose # "copy" => Wanted >= 2)
    <2>0. in \in Nat /\ out \in Nat /\ nmerge \in Nat /\ nmerge >= 2 /\ Len(files) \in Nat
      BY <1>0, LenProperties DEF DataInv
    <2>1. CASE purpose = "full"
      BY <1>0, <2>0, <2>1 DEF Wanted, MergeInv, CountInv
    <2>2. CASE purpose = "short"
      <3>1. out % nmerge \in 0 .. nmerge - 1  BY <2>0
      <3>2. CheapSlots \in Nat /\ CheapSlots >= 1  BY <2>0, <3>1 DEF CheapSlots
      <3>3. Remainder \in Int /\ Remainder = Len(files) - in /\ CheapSlots < Remainder
        BY <1>0, <2>0, <2>2 DEF MergeInv, CountInv, Remainder
      <3>4. Wanted = Remainder - CheapSlots + 1  BY <2>2 DEF Wanted
      <3>. QED BY <2>0, <2>2, <3>2, <3>3, <3>4
    <2>3. CASE purpose = "copy"
      BY <1>0, <2>0, <2>3 DEF Wanted, MergeInv, SameInv
    <2>. QED BY <1>0, <2>1, <2>2, <2>3 DEF MergeInv, TempInv
  <1>3. k \in Nat /\ k <= Wanted
    BY <1>1, <1>2
  <1>4. DataInv'
    BY <1>0, <1>1, <1>3, DataKept DEF DataInv, store
  <1>5. TempInv' /\ BufferInv'
    BY <1>0, <1>1 DEF MergeInv, TempInv, BufferInv, store
  <1>6. CountInv'
    BY <1>0, <1>1 DEF MergeInv, CountInv, Temporary, CheapSlots, Remainder, options
  <1>7. SameInv'
    BY <1>0, <1>1 DEF MergeInv, SameInv, options, store
  <1>8. WindowInv'
    <2>1. CASE pc' = "die"  BY <2>1 DEF WindowInv
    <2>2. CASE pc' = "merge"
      <3>1. purpose \in {"full", "short", "copy"}  BY <1>0 DEF MergeInv, TempInv
      <3>2. (k = Wanted \/ k >= 2) /\ window' = SubSeq(files, in + 1, in + k)  BY <1>1, <2>2
      <3>3. k > 0 /\ (purpose = "copy" => k = 1)  BY <1>2, <1>3, <3>1, <3>2
      <3>4. in \in Nat /\ Len(files) \in Nat  BY <1>0, LenProperties DEF DataInv
      <3>5. in + k <= Len(files)  BY <1>2, <1>3, <3>4
      <3>. QED BY <1>0, <1>1, <2>2, <3>1, <3>2, <3>3, <3>5 DEF WindowInv
    <2>. QED BY <1>1, <2>1, <2>2
  <1>9. ContentInv'
    BY <1>0, <1>1 DEF MergeInv, TempInv, ContentInv, Live, options, store
  <1>. QED BY <1>4, <1>5, <1>6, <1>7, <1>8, <1>9 DEF MergeInv

(* zaptemp changes neither what is merged nor what is in the files.         *)
LEMMA ZapMerges ==
  ASSUME MergeInv, UnlinkTemp \/ UnlistTemp
  PROVE  MergeInv'
  <1>. USE DEF Making, Buffering, Passing, Copying, Retreating, Last, Reading
  <1>0. /\ DataInv
        /\ UNCHANGED <<options, purpose, files, ntemps, in, out, nopened, window, temp, tempcopy,
                       parts, fresh, written>>
        /\ temphead' \in Seq(Nat)
        /\ pc \in {"merge", "unlink"} /\ pc' \in {"merge", "unlink"}
    <2>1. CASE UnlinkTemp
      BY <2>1 DEF MergeInv, DataInv, UnlinkTemp, work
    <2>2. CASE UnlistTemp
      <3>1. PICK k \in DOMAIN temphead :
              temphead' = SubSeq(temphead, 1, k - 1) \o SubSeq(temphead, k + 1, Len(temphead))
        BY <2>2 DEF UnlistTemp
      <3>2. temphead' \in Seq(Nat)
        BY <3>1, WithoutFacts DEF MergeInv, DataInv
      <3>. QED BY <2>2, <3>2 DEF MergeInv, UnlistTemp
    <2>. QED BY <2>1, <2>2
  <1>1. DataInv'
    BY <1>0, DataKept DEF DataInv
  <1>2. TempInv' /\ BufferInv'
    BY <1>0 DEF MergeInv, TempInv, BufferInv
  <1>3. CountInv'
    BY <1>0 DEF MergeInv, CountInv, Temporary, CheapSlots, Remainder, options
  <1>4. SameInv' /\ WindowInv'
    BY <1>0 DEF MergeInv, SameInv, WindowInv, options
  <1>5. ContentInv'
    BY <1>0 DEF MergeInv, ContentInv, Live, options
  <1>. QED BY <1>1, <1>2, <1>3, <1>4, <1>5 DEF MergeInv

(* What a temporary file gets is put into a file that nothing else reads.   *)
LEMMA HoldsFacts ==
  ASSUME MergeInv, NEW what \in Seq(Name), pc = "merge", purpose # "output", Holds(temp, what)
  PROVE  /\ temp > NFiles /\ temp < fresh /\ temp \notin DOMAIN parts /\ temp \notin Name
         /\ IsStore(parts') /\ DOMAIN parts' = DOMAIN parts \cup {temp}
         /\ parts'[temp] = what /\ \A y \in DOMAIN parts : parts'[y] = parts[y]
         /\ DOMAIN parts' \subseteq 1 .. fresh - 1
  <1>1. temp > NFiles /\ temp < fresh /\ temp \notin DOMAIN parts /\ temp \notin Name
    BY NFilesAssumption DEF MergeInv, TempInv, DataInv, Name
  <1>2. parts' = [y \in DOMAIN parts \cup {temp} |-> IF y = temp THEN what ELSE parts[y]]
    BY DEF Holds
  <1>3. \A y \in DOMAIN parts : parts[y] \in Seq(Name)
    BY DEF MergeInv, DataInv, IsStore
  <1>4. IsStore(parts') /\ DOMAIN parts' = DOMAIN parts \cup {temp}
    BY <1>2, <1>3 DEF IsStore
  <1>5. DOMAIN parts' \subseteq 1 .. fresh - 1
    BY <1>1, <1>4, NFilesAssumption DEF MergeInv, DataInv
  <1>. QED BY <1>1, <1>2, <1>4, <1>5

(* A file that has been made in a pass takes the place of those it was made *)
(* of, behind those that have been made before.                             *)
LEMMA EndMergeMerges ==
  ASSUME MergeInv, EndMerge
  PROVE  MergeInv'
  <1>. USE DEF Making, Buffering, Passing, Copying, Retreating, Last, Reading
  <1>0. /\ DataInv /\ pc = "merge" /\ purpose \in {"full", "short"} /\ pc' \in {"full", "slide"}
        /\ Holds(temp, Contents(parts, window))
        /\ ntemps' = ntemps - Minimum(ntemps, nopened)
        /\ files' = [files EXCEPT ![out + 1] = temp]
        /\ out' = out + 1 /\ in' = in + nopened
        /\ UNCHANGED <<options, nopened, window, temp, tempcopy, temphead, fresh, written>>
    BY ConcatIsContents DEF EndMerge, Merged, MergeInv
  <1>1. /\ out \in Nat /\ in \in Nat /\ ntemps \in Nat /\ nopened \in Nat /\ Len(files) \in Nat
        /\ out <= in /\ in + ntemps <= Len(files) /\ nopened > 0 /\ in + nopened <= Len(files)
        /\ \A i \in 1 .. out : files[i] > NFiles
        /\ \A i \in in + 1 .. in + ntemps : files[i] > NFiles
        /\ window = SubSeq(files, in + 1, in + nopened)
        /\ Contents(parts, Live) = given
    BY <1>0, LenProperties DEF MergeInv, CountInv, DataInv, Temporary, WindowInv, ContentInv
  <1>2. PICK n \in Nat : n = in + nopened /\ in <= n /\ n <= Len(files)  BY <1>1
  <1>. DEFINE a == SubSeq(files, 1, out)  w == SubSeq(files, in + 1, n)
              r == SubSeq(files, n + 1, Len(files))
  <1>3. a \in Seq(DOMAIN parts) /\ w \in Seq(DOMAIN parts) /\ r \in Seq(DOMAIN parts)
    <2>. DEFINE z == 0  l == Len(files)
    <2>1. z \in Nat /\ z <= out /\ z + 1 = 1 /\ out <= l /\ l \in Nat /\ n <= l /\ l <= Len(files)
      BY <1>1, <1>2
    <2>2. files \in Seq(DOMAIN parts)  BY <1>0 DEF DataInv
    <2>. HIDE DEF z, l
    <2>3. SubSeq(files, z + 1, out) \in Seq(DOMAIN parts)  BY <1>1, <2>1, <2>2, SliceFacts
    <2>4. SubSeq(files, in + 1, n) \in Seq(DOMAIN parts)  BY <1>1, <1>2, <2>1, <2>2, SliceFacts
    <2>5. SubSeq(files, n + 1, l) \in Seq(DOMAIN parts)  BY <1>1, <1>2, <2>1, <2>2, SliceFacts
    <2>. QED BY <2>1, <2>3, <2>4, <2>5 DEF l
  <1>4. w \o r = SubSeq(files, in + 1, Len(files))
    BY <1>0, <1>1, <1>2, SliceFacts DEF DataInv
  <1>5. Contents(parts, a \o (w \o r)) = given
    BY <1>0, <1>1, <1>4 DEF Live
  <1>6. /\ temp > NFiles /\ temp < fresh /\ temp \notin DOMAIN parts /\ temp \notin Name
        /\ IsStore(parts') /\ DOMAIN parts' = DOMAIN parts \cup {temp}
        /\ parts'[temp] = Contents(parts, w) /\ \A y \in DOMAIN parts : parts'[y] = parts[y]
        /\ DOMAIN parts' \subseteq 1 .. fresh - 1
    <2>1. Contents(parts, window) \in Seq(Name) /\ window = w
      BY <1>0, <1>1, <1>2, <1>3, ContentsType DEF DataInv
    <2>. HIDE DEF w
    <2>. QED BY <1>0, <2>1, HoldsFacts
  <1>7. PICK t \in Seq(DOMAIN parts') :
          /\ t = files' /\ Len(t) = Len(files)
          /\ t[out + 1] = temp /\ \A j \in 1 .. Len(files) : j # out + 1 => t[j] = files[j]
          /\ SubSeq(t, 1, out + 1) = a \o <<temp>>
          /\ SubSeq(t, n + 1, Len(files)) = r
    <2>0. PICK D : D = DOMAIN parts'  OBVIOUS
    <2>2. PICK k \in DOMAIN files : k = out + 1 /\ k - 1 = out /\ k <= n
      <3>1. DOMAIN files = 1 .. Len(files)  BY <1>0, LenProperties DEF DataInv
      <3>2. out + 1 \in 1 .. Len(files) /\ (out + 1) - 1 = out /\ out + 1 <= n  BY <1>1, <1>2
      <3>. QED BY <3>1, <3>2
    <2>1. files \in Seq(D) /\ temp \in D
      BY <1>0, <1>6, <2>0, SeqMonotonic DEF DataInv
    <2>3. Replaced(files, k, temp) \in Seq(D) /\ OneReplaced(Replaced(files, k, temp), files, k, temp)
      BY <2>1, ReplaceFacts
    <2>4. Replaced(files, k, temp) = files'  BY <1>0, <2>2 DEF Replaced
    <2>5. files' \in Seq(D) /\ OneReplaced(files', files, k, temp)  BY <2>3, <2>4
    <2>. QED BY <1>2, <2>0, <2>2, <2>5 DEF OneReplaced
  <1>8. DataInv'
    <2>1. ntemps' \in Nat /\ in' \in Nat /\ out' \in Nat  BY <1>0, <1>1 DEF Minimum
    <2>2. files' \in Seq(DOMAIN parts')  BY <1>7
    <2>. QED BY <1>0, <1>6, <2>1, <2>2 DEF DataInv, options
  <1>9. TempInv' /\ BufferInv' /\ WindowInv'
    BY <1>0 DEF TempInv, BufferInv, WindowInv
  <1>10. CountInv'
    <2>1. out + 1 <= in + nopened /\ in' = in + nopened /\ out' = out + 1
      BY <1>0, <1>1
    <2>2. /\ ntemps' \in Nat /\ ntemps' <= ntemps
          /\ in + nopened + ntemps' <= Len(files)
          /\ ntemps' > 0 => in + nopened + ntemps' = in + ntemps
      BY <1>0, <1>1 DEF Minimum
    <2>3. ASSUME NEW i \in 1 .. out + 1  PROVE files'[i] > NFiles
      <3>1. i \in 1 .. Len(files) /\ (i = out + 1 \/ i \in 1 .. out)  BY <1>1
      <3>. QED BY <1>1, <1>6, <1>7, <3>1
    <2>4. ASSUME NEW i \in in' + 1 .. in' + ntemps'  PROVE files'[i] > NFiles
      <3>1. PICK m \in Nat : /\ m = ntemps' /\ n + m <= Len(files)
                             /\ m > 0 => n + m = in + ntemps
        BY <1>2, <2>2
      <3>2. i \in n + 1 .. n + m  BY <1>2, <2>1, <3>1
      <3>3. i \in Nat /\ m > 0 /\ in < n /\ out < n  BY <1>1, <1>2, <3>2
      <3>4. i \in in + 1 .. in + ntemps /\ i \in 1 .. Len(files) /\ i # out + 1
        <4>1. in \in Nat /\ out \in Nat /\ ntemps \in Nat /\ Len(files) \in Nat  BY <1>1
        <4>2. n + m = in + ntemps /\ n + m <= Len(files)  BY <3>1, <3>3
        <4>3. i >= n + 1 /\ i <= n + m  BY <3>2, <3>3
        <4>4. i # out + 1  BY <3>3, <4>1, <4>3
        <4>5. i >= in + 1 /\ i <= in + ntemps  BY <3>3, <4>1, <4>2, <4>3
        <4>6. i >= 1 /\ i <= Len(files)  BY <3>3, <4>1, <4>2, <4>3
        <4>. QED BY <3>3, <4>1, <4>4, <4>5, <4>6
      <3>. QED BY <1>1, <1>7, <3>4
    <2>5. Len(files') = Len(files)  BY <1>7
    <2>. QED BY <1>0, <2>1, <2>2, <2>3, <2>4, <2>5 DEF CountInv, Temporary
  <1>11. SameInv'
    <2>1. tempcopy # None =>
            /\ tempcopy \in DOMAIN parts /\ tempcopy > NFiles
            /\ \A x \in same \cap DOMAIN parts : parts[x] = parts[tempcopy]
      BY <1>0 DEF MergeInv, SameInv
    <2>2. \A x \in same \cap DOMAIN parts' : x \in DOMAIN parts
      BY <1>0, <1>6 DEF DataInv
    <2>. QED BY <1>0, <1>6, <2>1, <2>2 DEF SameInv, options
  <1>12. ContentInv'
    <2>1. Contents(parts', (a \o <<temp>>) \o r) = given
      <3>. HIDE DEF a, w, r
      <3>1. IsStore(parts)  BY <1>0 DEF DataInv
      <3>2. PICK p, q, x : p = parts /\ q = parts' /\ x = temp  OBVIOUS
      <3>3. /\ IsStore(p) /\ x \notin DOMAIN p /\ IsStore(q) /\ DOMAIN q = DOMAIN p \cup {x}
            /\ q[x] = Contents(p, w) /\ \A y \in DOMAIN p : q[y] = p[y]
            /\ a \in Seq(DOMAIN p) /\ w \in Seq(DOMAIN p) /\ r \in Seq(DOMAIN p)
        BY <1>3, <1>6, <3>1, <3>2
      <3>4. PICK f : f = <<x>>  OBVIOUS
      <3>5. Contents(q, (a \o f) \o r) = Contents(p, a \o (w \o r))
        BY ONLY <3>3, <3>4, MergedContents
      <3>. QED BY <1>5, <3>2, <3>4, <3>5
    <2>2. Live' = (a \o <<temp>>) \o r
      <3>1. Live' = SubSeq(files', 1, out') \o SubSeq(files', in' + 1, Len(files'))
        BY <1>0 DEF Live
      <3>2. Len(files') = Len(files) /\ out' = out + 1 /\ in' = n  BY <1>0, <1>2, <1>7
      <3>. QED BY <1>7, <3>1, <3>2
    <2>. HIDE DEF a, w, r
    <2>. QED BY <1>0, <2>1, <2>2 DEF ContentInv, options
  <1>. QED BY <1>8, <1>9, <1>10, <1>11, <1>12 DEF MergeInv

(* avoid_trashing_input looks at one file after the other.                  *)
LEMMA AvoidMerges ==
  ASSUME MergeInv, Avoid
  PROVE  MergeInv'
  <1>. USE DEF Making, Buffering, Passing, Copying, Retreating, Last, Reading
  <1>0. /\ DataInv /\ pc = "avoid"
        /\ UNCHANGED <<options, ntemps, out, nopened, window, temp, tempcopy, store, written>>
        /\ \/ in >= Len(files) /\ pc' = "final" /\ UNCHANGED <<purpose, files, in>>
           \/ /\ in < Len(files) /\ files[in + 1] \notin same
              /\ in' = in + 1 /\ UNCHANGED <<pc, purpose, files>>
           \/ /\ in < Len(files) /\ files[in + 1] \in same /\ tempcopy # None
              /\ files' = Replaced(files, in + 1, tempcopy)
              /\ in' = in + 1 /\ UNCHANGED <<pc, purpose>>
           \/ /\ in < Len(files) /\ files[in + 1] \in same /\ tempcopy = None
              /\ pc' = "create" /\ purpose' = "copy" /\ UNCHANGED <<files, in>>
    BY DEF Avoid, MergeInv, IsOutput, Create, Replaced
  <1>1. /\ in \in Nat /\ Len(files) \in Nat /\ in <= Len(files)
        /\ \A i \in 1 .. in : files[i] \notin same
        /\ Contents(parts, files) = given
        /\ tempcopy # None => /\ tempcopy \in DOMAIN parts /\ tempcopy > NFiles
                              /\ \A x \in same \cap DOMAIN parts : parts[x] = parts[tempcopy]
    BY <1>0, LenProperties DEF MergeInv, DataInv, SameInv, ContentInv, Live
  <1>2. CASE /\ UNCHANGED files
             /\ \/ in >= Len(files) /\ pc' = "final" /\ UNCHANGED in
                \/ /\ in < Len(files) /\ files[in + 1] \notin same
                   /\ in' = in + 1 /\ UNCHANGED <<pc, purpose>>
                \/ /\ in < Len(files) /\ files[in + 1] \in same /\ tempcopy = None
                   /\ pc' = "create" /\ purpose' = "copy" /\ UNCHANGED in
    <2>1. DataInv'
      <3>1. in' \in Nat  BY <1>0, <1>1
      <3>. QED BY <1>0, <1>2, <3>1, DataKept DEF DataInv, store
    <2>2. TempInv' /\ BufferInv' /\ CountInv' /\ WindowInv'
      BY <1>0, <1>2 DEF TempInv, BufferInv, CountInv, WindowInv
    <2>3. SameInv'
      <3>1. CASE pc' = "avoid"
        <4>1. /\ in < Len(files) /\ files[in + 1] \notin same /\ in' = in + 1
              /\ UNCHANGED <<same, files, parts, tempcopy>>
          BY <1>0, <1>1, <1>2, <3>1 DEF options, store
        <4>2. in + 1 <= Len(files) /\ \A i \in 1 .. in + 1 : files[i] \notin same
          BY <1>1, <4>1
        <4>. QED BY <1>1, <3>1, <4>1, <4>2 DEF SameInv
      <3>2. CASE pc' = "final"
        BY <1>0, <1>1, <1>2, <3>2 DEF SameInv, options, store
      <3>3. CASE pc' = "create"
        BY <1>0, <1>1, <1>2, <3>3 DEF SameInv, options, store
      <3>. QED BY <1>0, <3>1, <3>2, <3>3
    <2>4. ContentInv'
      BY <1>0, <1>1, <1>2 DEF ContentInv, Live, options, store
    <2>. QED BY <2>1, <2>2, <2>3, <2>4 DEF MergeInv
  <1>3. CASE /\ in < Len(files) /\ files[in + 1] \in same /\ tempcopy # None
             /\ files' = Replaced(files, in + 1, tempcopy)
             /\ in' = in + 1 /\ UNCHANGED <<pc, purpose>>
    <2>1. /\ in < Len(files) /\ files[in + 1] \in same /\ tempcopy # None
          /\ files' = Replaced(files, in + 1, tempcopy) /\ in' = in + 1
          /\ UNCHANGED <<pc, purpose>>
      BY <1>3
    <2>2. PICK k \in DOMAIN files : k = in + 1  BY <1>0, <1>1, <2>1, LenProperties DEF DataInv
    <2>3. PICK D : D = DOMAIN parts  OBVIOUS
    <2>4. PICK t \in Seq(D) :
            /\ t = Replaced(files, k, tempcopy)
            /\ Len(t) = Len(files)
            /\ t[k] = tempcopy /\ \A j \in 1 .. Len(files) : j # k => t[j] = files[j]
      <3>1. files \in Seq(D) /\ tempcopy \in D
        BY <1>0, <1>1, <2>1, <2>3 DEF DataInv
      <3>2. Replaced(files, k, tempcopy) \in Seq(D) /\ OneReplaced(Replaced(files, k, tempcopy), files, k, tempcopy)
        BY <3>1, ReplaceFacts
      <3>. QED BY <3>2 DEF OneReplaced
    <2>5. files' = t  BY <2>1, <2>2, <2>4
    <2>6. DataInv'
      <3>1. in' \in Nat /\ files' \in Seq(DOMAIN parts)  BY <1>1, <2>1, <2>3, <2>5
      <3>. QED BY <1>0, <3>1, DataKept DEF DataInv, store
    <2>7. TempInv' /\ BufferInv' /\ CountInv' /\ WindowInv'
      BY <1>0, <2>1 DEF TempInv, BufferInv, CountInv, WindowInv
    <2>8. SameInv'
      <3>1. tempcopy \notin same
        BY <1>0, <1>1, <2>1, NFilesAssumption DEF DataInv, Name
      <3>2. ASSUME NEW i \in 1 .. in + 1  PROVE t[i] \notin same
        <4>1. i \in 1 .. Len(files) /\ (i # k => i \in 1 .. in)  BY <1>1, <2>1, <2>2
        <4>. QED BY <1>1, <2>4, <3>1, <4>1
      <3>3. in + 1 <= Len(files')  BY <1>1, <2>1, <2>4, <2>5
      <3>. QED BY <1>0, <1>1, <2>1, <2>5, <3>2, <3>3 DEF SameInv, options, store
    <2>9. ContentInv'
      <3>1. parts[tempcopy] = parts[files[k]]
        <4>1. files[k] \in DOMAIN parts  BY <1>0, ElementOfSeq DEF DataInv
        <4>. QED BY <1>1, <2>1, <2>2, <4>1
      <3>2. \A j \in 1 .. Len(files) : parts[t[j]] = parts[files[j]]
        BY <2>4, <3>1
      <3>3. IsStore(parts) /\ files \in Seq(DOMAIN parts) /\ Len(files) = Len(t)
        BY <1>0, <2>4 DEF DataInv
      <3>4. Contents(parts, t) = Contents(parts, files)
        BY <3>2, <3>3, ContentsSame
      <3>. QED BY <1>0, <1>1, <2>1, <2>5, <3>4 DEF ContentInv, Live, options, store
    <2>. QED BY <2>6, <2>7, <2>8, <2>9 DEF MergeInv
  <1>. QED BY <1>0, <1>2, <1>3

(* The copy has in it what the output file has.                             *)
LEMMA EndCopyMerges ==
  ASSUME MergeInv, EndCopy
  PROVE  MergeInv'
  <1>. USE DEF Making, Buffering, Passing, Copying, Retreating, Last, Reading
  <1>0. /\ DataInv /\ pc = "merge" /\ purpose = "copy" /\ pc' = "avoid"
        /\ Holds(temp, Contents(parts, window))
        /\ tempcopy' = temp
        /\ files' = Replaced(files, in + 1, temp)
        /\ in' = in + 1
        /\ UNCHANGED <<options, purpose, ntemps, out, nopened, window, temp, temphead, fresh, written>>
    BY ConcatIsContents DEF EndCopy, Merged, MergeInv, Replaced
  <1>1. /\ in \in Nat /\ Len(files) \in Nat /\ in < Len(files)
        /\ files[in + 1] \in same
        /\ \A i \in 1 .. in : files[i] \notin same
        /\ Contents(parts, files) = given
        /\ window = SubSeq(files, in + 1, in + nopened) /\ nopened = 1
    BY <1>0, LenProperties DEF MergeInv, DataInv, SameInv, ContentInv, Live, WindowInv
  <1>2. PICK k \in DOMAIN files : k = in + 1  BY <1>0, <1>1, LenProperties DEF DataInv
  <1>3. PICK x : x = files[k] /\ x \in same /\ x \in DOMAIN parts
    <2>1. files[k] \in DOMAIN parts  BY <1>0, ElementOfSeq DEF DataInv
    <2>. QED BY <1>1, <1>2, <2>1
  <1>4. window = <<x>>
    <2>1. SubSeq(files, k, k) = << files[k] >> \o SubSeq(files, k + 1, k)
      <3>1. k \in k .. Len(files) /\ files \in Seq(DOMAIN parts)  BY <1>0 DEF DataInv
      <3>. QED BY <3>1, SubSeqRecursiveFirst
    <2>2. SubSeq(files, k + 1, k) = <<>>
      <3>1. k \in Int /\ k + 1 \in Int /\ k < k + 1  BY <1>1, <1>2
      <3>. QED BY <3>1, SubSeqEmpty
    <2>3. <<x>> \o <<>> = <<x>>  OBVIOUS
    <2>. QED BY <1>1, <1>2, <1>3, <2>1, <2>2, <2>3
  <1>5. Contents(parts, window) = parts[x]
    BY <1>0, <1>3, <1>4, ContentsOfOne DEF DataInv
  <1>6. parts[x] \in Seq(Name)
    BY <1>0, <1>3 DEF DataInv, IsStore
  <1>7. /\ temp > NFiles /\ temp < fresh /\ temp \notin DOMAIN parts /\ temp \notin Name
        /\ IsStore(parts') /\ DOMAIN parts' = DOMAIN parts \cup {temp}
        /\ parts'[temp] = parts[x] /\ \A y \in DOMAIN parts : parts'[y] = parts[y]
        /\ DOMAIN parts' \subseteq 1 .. fresh - 1
    BY <1>0, <1>5, <1>6, HoldsFacts
  <1>8. PICK D : D = DOMAIN parts'  OBVIOUS
  <1>9. PICK t \in Seq(D) :
          /\ t = Replaced(files, k, temp)
          /\ Len(t) = Len(files)
          /\ t[k] = temp /\ \A j \in 1 .. Len(files) : j # k => t[j] = files[j]
    <2>1. files \in Seq(D) /\ temp \in D
      BY <1>0, <1>7, <1>8, SeqMonotonic DEF DataInv
    <2>2. Replaced(files, k, temp) \in Seq(D) /\ OneReplaced(Replaced(files, k, temp), files, k, temp)
      BY <2>1, ReplaceFacts
    <2>. QED BY <2>2 DEF OneReplaced
  <1>10. files' = t  BY <1>0, <1>2, <1>9
  <1>11. DataInv'
    <2>1. in' \in Nat /\ files' \in Seq(DOMAIN parts')  BY <1>0, <1>1, <1>8, <1>10
    <2>. QED BY <1>0, <1>7, <2>1 DEF DataInv, options
  <1>12. TempInv' /\ BufferInv' /\ CountInv' /\ WindowInv'
    BY <1>0 DEF TempInv, BufferInv, CountInv, WindowInv
  <1>13. SameInv'
    <2>1. temp \notin same  BY <1>0, <1>7 DEF DataInv
    <2>2. ASSUME NEW i \in 1 .. in + 1  PROVE t[i] \notin same
      <3>1. i \in 1 .. Len(files) /\ (i # k => i \in 1 .. in)  BY <1>1, <1>2
      <3>. QED BY <1>1, <1>9, <2>1, <3>1
    <2>3. in + 1 <= Len(files')  BY <1>1, <1>9, <1>10
    <2>4. \A y \in same \cap DOMAIN parts' : parts'[y] = parts'[temp]
      BY <1>0, <1>3, <1>7, <2>1 DEF DataInv
    <2>. QED BY <1>0, <1>7, <1>10, <2>2, <2>3, <2>4 DEF SameInv, options
  <1>14. ContentInv'
    <2>1. ASSUME NEW j \in 1 .. Len(files)  PROVE parts'[t[j]] = parts[files[j]]
      <3>1. files[j] \in DOMAIN parts  BY <1>0, ElementOfSeq DEF DataInv
      <3>. QED BY <1>3, <1>7, <1>9, <3>1
    <2>2. PICK q : q = parts'  OBVIOUS
    <2>3. /\ IsStore(parts) /\ files \in Seq(DOMAIN parts) /\ Len(files) = Len(t)
          /\ \A j \in 1 .. Len(files) : q[t[j]] = parts[files[j]]
      BY <1>0, <1>9, <2>1, <2>2 DEF DataInv
    <2>4. Contents(q, t) = Contents(parts, files)
      BY <2>3, ContentsSame
    <2>. QED BY <1>0, <1>1, <1>10, <2>2, <2>4 DEF ContentInv, Live, options
  <1>. QED BY <1>11, <1>12, <1>13, <1>14 DEF MergeInv

(* The last merge truncates the output file, which is none of the files.    *)
LEMMA MergeToOutputMerges ==
  ASSUME MergeInv, MergeToOutput
  PROVE  MergeInv'
  <1>. USE DEF Making, Buffering, Passing, Copying, Retreating, Last, Reading
  <1>0. /\ DataInv /\ pc = "final" /\ pc' = "merge" /\ purpose' = "output"
        /\ window' = SubSeq(files, 0 + 1, 0 + Len(files))
        /\ nopened' = Len(files)
        /\ parts' = [x \in DOMAIN parts |-> IF x \in same THEN <<>> ELSE parts[x]]
        /\ UNCHANGED <<options, files, ntemps, in, out, temp, tempcopy, temphead, fresh, written>>
    BY DEF MergeToOutput, MergeInv, Merge
  <1>1. /\ files \in Seq(DOMAIN parts) /\ Len(files) \in Nat
        /\ \A i \in 1 .. Len(files) : files[i] \notin same
        /\ Contents(parts, files) = given
    BY <1>0, LenProperties DEF MergeInv, DataInv, SameInv, ContentInv, Live
  <1>2. window' = files
    <2>1. 0 + 1 = 1 /\ 0 + Len(files) = Len(files)  BY <1>1
    <2>. QED BY <1>0, <1>1, <2>1, SubSeqFull
  <1>3. IsStore(parts') /\ DOMAIN parts' = DOMAIN parts
    <2>1. \A y \in DOMAIN parts : parts[y] \in Seq(Name)  BY <1>0 DEF DataInv, IsStore
    <2>. QED BY <1>0, <2>1, EmptySeq DEF IsStore
  <1>4. DataInv'
    BY <1>0, <1>1, <1>3 DEF DataInv, options
  <1>5. TempInv' /\ BufferInv' /\ CountInv' /\ SameInv' /\ WindowInv'
    BY <1>0 DEF TempInv, BufferInv, CountInv, SameInv, WindowInv
  <1>6. ContentInv'
    <2>1. PICK q : q = parts'  OBVIOUS
    <2>2. ASSUME NEW j \in 1 .. Len(files)  PROVE q[files[j]] = parts[files[j]]
      <3>1. files[j] \in DOMAIN parts  BY <1>1, ElementOfSeq
      <3>. QED BY <1>0, <1>1, <2>1, <3>1
    <2>3. IsStore(parts)  BY <1>0 DEF DataInv
    <2>4. Contents(q, files) = Contents(parts, files)
      BY <1>1, <2>2, <2>3, ContentsElsewhere
    <2>. QED BY <1>0, <1>1, <1>2, <2>1, <2>4 DEF ContentInv, options
  <1>. QED BY <1>4, <1>5, <1>6 DEF MergeInv

(* Files that cannot be opened: the first of those that can are merged.     *)
LEMMA RetreatMerges ==
  ASSUME MergeInv, NotAllOpen \/ CloseOne
  PROVE  MergeInv'
  <1>. USE DEF Making, Buffering, Passing, Copying, Retreating, Last, Reading
  <1>0. /\ DataInv /\ pc \in {"final", "retreat"}
        /\ UNCHANGED <<options, files, ntemps, in, out, window, temp, tempcopy, store, written>>
        /\ \/ pc' = "die"
           \/ pc' = "retreat" /\ nopened' > 2
           \/ pc' = "create" /\ purpose' = "retreat"
    BY DEF NotAllOpen, CloseOne, MergeInv, Create
  <1>1. nopened' \in Nat /\ nopened' <= Len(files)
    <2>1. Len(files) \in Nat  BY <1>0, LenProperties DEF DataInv
    <2>2. CASE NotAllOpen
      BY <2>1, <2>2 DEF NotAllOpen
    <2>3. CASE CloseOne
      <3>1. nopened \in Nat /\ nopened > 2 /\ nopened <= Len(files)
        BY <1>0, <2>3 DEF MergeInv, WindowInv, DataInv, CloseOne
      <3>. QED BY <2>1, <2>3, <3>1 DEF CloseOne, OneFewer
    <2>. QED BY <2>2, <2>3
  <1>2. DataInv'
    BY <1>0, <1>1, DataKept DEF DataInv, store
  <1>3. TempInv' /\ BufferInv' /\ CountInv'
    <2>1. purpose' # "buffer" \/ pc' # "create"  BY <1>0
    <2>. QED BY <1>0, <2>1 DEF TempInv, BufferInv, CountInv
  <1>4. SameInv'
    BY <1>0 DEF MergeInv, SameInv, options, store
  <1>5. WindowInv'
    BY <1>0, <1>1 DEF WindowInv
  <1>6. ContentInv'
    BY <1>0 DEF MergeInv, ContentInv, Live, options, store
  <1>. QED BY <1>2, <1>3, <1>4, <1>5, <1>6 DEF MergeInv

(* Their place is taken by the file they have been merged into.             *)
LEMMA EndRetreatMerges ==
  ASSUME MergeInv, EndRetreat
  PROVE  MergeInv'
  <1>. USE DEF Making, Buffering, Passing, Copying, Retreating, Last, Reading
  <1>0. /\ DataInv /\ pc = "merge" /\ purpose = "retreat" /\ pc' = "final"
        /\ Holds(temp, Contents(parts, window))
        /\ ntemps' = ntemps - Minimum(ntemps, nopened) + 1
        /\ files' = <<temp>> \o SubSeq(files, nopened + 1, Len(files))
        /\ UNCHANGED <<options, purpose, in, out, nopened, window, temp, tempcopy, temphead, fresh, written>>
    BY ConcatIsContents DEF EndRetreat, Merged, MergeInv
  <1>1. /\ ntemps \in Nat /\ nopened \in Nat /\ Len(files) \in Nat /\ nopened <= Len(files)
        /\ files \in Seq(DOMAIN parts)
        /\ window = SubSeq(files, 1, nopened)
        /\ \A i \in 1 .. Len(files) : files[i] \notin same
        /\ Contents(parts, files) = given
    BY <1>0, LenProperties DEF MergeInv, DataInv, SameInv, WindowInv, ContentInv, Live
  <1>. DEFINE w == SubSeq(files, 1, nopened)  r == SubSeq(files, nopened + 1, Len(files))
  <1>2. /\ w \in Seq(DOMAIN parts)
        /\ w \o r = files
    <2>. DEFINE z == 0
    <2>1. z \in Nat /\ z <= nopened /\ z + 1 = 1  BY <1>1
    <2>. HIDE DEF z
    <2>2. /\ SubSeq(files, z + 1, nopened) \in Seq(DOMAIN parts)
          /\ SubSeq(files, z + 1, nopened) \o r = SubSeq(files, z + 1, Len(files))
      BY <1>1, <2>1, SliceFacts
    <2>3. SubSeq(files, 1, Len(files)) = files  BY <1>1, SubSeqFull
    <2>. QED BY <2>1, <2>2, <2>3
  <1>3. /\ r \in Seq(DOMAIN parts) /\ Len(r) = Len(files) - nopened
        /\ \A k \in 1 .. Len(files) - nopened : r[k] = files[nopened + k]
    <2>. DEFINE l == Len(files)
    <2>1. l \in Nat /\ nopened <= l /\ l <= Len(files)  BY <1>1
    <2>. HIDE DEF l
    <2>2. /\ SubSeq(files, nopened + 1, l) \in Seq(DOMAIN parts)
          /\ Len(SubSeq(files, nopened + 1, l)) = l - nopened
          /\ \A k \in 1 .. l - nopened : SubSeq(files, nopened + 1, l)[k] = files[nopened + k]
      BY <1>1, <2>1, SliceFacts
    <2>. QED BY <2>2 DEF l
  <1>. HIDE DEF w, r
  <1>4. /\ temp > NFiles /\ temp < fresh /\ temp \notin DOMAIN parts /\ temp \notin Name
        /\ IsStore(parts') /\ DOMAIN parts' = DOMAIN parts \cup {temp}
        /\ parts'[temp] = Contents(parts, w) /\ \A y \in DOMAIN parts : parts'[y] = parts[y]
        /\ DOMAIN parts' \subseteq 1 .. fresh - 1
    <2>1. Contents(parts, window) \in Seq(Name) /\ window = w
      <3>1. window = w  BY <1>1 DEF w
      <3>. QED BY <1>0, <1>2, <3>1, ContentsType DEF DataInv
    <2>. QED BY <1>0, <2>1, HoldsFacts
  <1>5. PICK f, D : f = <<temp>> /\ D = DOMAIN parts'  OBVIOUS
  <1>6. f \in Seq(D) /\ r \in Seq(D) /\ Len(f) = 1 /\ f[1] = temp /\ files' = f \o r
    BY <1>0, <1>3, <1>4, <1>5, SeqMonotonic DEF r
  <1>7. /\ f \o r \in Seq(D) /\ Len(f \o r) = Len(f) + Len(r)
        /\ \A i \in 1 .. Len(f) + Len(r) : (f \o r)[i] = IF i <= Len(f) THEN f[i] ELSE r[i - Len(f)]
    BY <1>6, ConcatProperties
  <1>8. DataInv'
    <2>1. ntemps' \in Nat  BY <1>0, <1>1 DEF Minimum
    <2>2. files' \in Seq(DOMAIN parts')  BY <1>5, <1>6, <1>7
    <2>. QED BY <1>0, <1>4, <2>1, <2>2 DEF DataInv, options
  <1>9. TempInv' /\ BufferInv' /\ CountInv' /\ WindowInv'
    BY <1>0 DEF TempInv, BufferInv, CountInv, WindowInv
  <1>10. SameInv'
    <2>1. temp \notin same  BY <1>0, <1>4 DEF DataInv
    <2>2. ASSUME NEW i \in 1 .. Len(files')  PROVE files'[i] \notin same
      <3>1. i \in 1 .. 1 + (Len(files) - nopened)  BY <1>3, <1>6, <1>7
      <3>2. CASE i = 1
        BY <1>3, <1>6, <1>7, <2>1, <3>1, <3>2
      <3>3. CASE i # 1
        <4>1. i - 1 \in 1 .. Len(files) - nopened /\ ~(i <= 1) /\ nopened + (i - 1) \in 1 .. Len(files)
          BY <1>1, <3>1, <3>3
        <4>2. files'[i] = r[i - 1]  BY <1>3, <1>6, <1>7, <3>1, <4>1
        <4>. QED BY <1>1, <1>3, <4>1, <4>2
      <3>. QED BY <3>2, <3>3
    <2>3. tempcopy # None =>
            /\ tempcopy \in DOMAIN parts /\ tempcopy > NFiles
            /\ \A x \in same \cap DOMAIN parts : parts[x] = parts[tempcopy]
      BY <1>0 DEF MergeInv, SameInv
    <2>4. \A x \in same \cap DOMAIN parts' : x \in DOMAIN parts  BY <1>4, <2>1
    <2>. QED BY <1>0, <1>4, <2>2, <2>3, <2>4 DEF SameInv, options
  <1>11. ContentInv'
    <2>1. PICK p, q, x : p = parts /\ q = parts' /\ x = temp  OBVIOUS
    <2>2. /\ IsStore(p) /\ x \notin DOMAIN p /\ IsStore(q) /\ DOMAIN q = DOMAIN p \cup {x}
          /\ q[x] = Contents(p, w) /\ \A y \in DOMAIN p : q[y] = p[y]
          /\ w \in Seq(DOMAIN p) /\ r \in Seq(DOMAIN p) /\ f = <<x>>
      BY <1>0, <1>2, <1>3, <1>4, <1>5, <2>1 DEF DataInv
    <2>3. Contents(q, f \o r) = Contents(p, w \o r)
      BY ONLY <2>2, MergedContents
    <2>. QED BY <1>0, <1>1, <1>2, <1>6, <2>1, <2>3 DEF ContentInv, Live, options
  <1>. QED BY <1>8, <1>9, <1>10, <1>11 DEF MergeInv

(* The output is what the last merge has read; the rest only ends.          *)
LEMMA EndOutputMerges ==
  ASSUME MergeInv, EndOutput
  PROVE  MergeInv'
  <1>. USE DEF Making, Buffering, Passing, Copying, Retreating, Last, Reading
  <1>0. /\ DataInv /\ pc = "merge" /\ purpose = "output" /\ pc' = "exit"
        /\ written' = Contents(parts, window)
        /\ UNCHANGED <<options, work, store>>
    BY ConcatIsContents DEF EndOutput, Merged, MergeInv
  <1>1. DataInv'
    BY <1>0, DataKept DEF DataInv, work, store
  <1>2. TempInv' /\ BufferInv' /\ CountInv' /\ SameInv' /\ WindowInv'
    BY <1>0 DEF TempInv, BufferInv, CountInv, SameInv, WindowInv
  <1>3. ContentInv'
    BY <1>0 DEF MergeInv, ContentInv, options
  <1>. QED BY <1>1, <1>2, <1>3 DEF MergeInv

LEMMA EndingMerges ==
  ASSUME MergeInv, Fail \/ ExitCleanup \/ Signal
  PROVE  MergeInv'
  <1>. USE DEF Making, Buffering, Passing, Copying, Retreating, Last, Reading
  <1>0. /\ DataInv /\ UNCHANGED <<options, work, blocked, parts, fresh, written>>
        /\ temphead' \in Seq(Nat)
        /\ pc' \in {"die", "failed", "killed"} \/ (pc = "exit" /\ pc' = "done")
    BY EmptySeq DEF MergeInv, DataInv, Fail, ExitCleanup, Signal, Cleanup, store
  <1>1. DataInv'
    BY <1>0, DataKept DEF DataInv, work
  <1>2. TempInv' /\ BufferInv' /\ CountInv' /\ SameInv' /\ WindowInv'
    BY <1>0 DEF TempInv, BufferInv, CountInv, SameInv, WindowInv
  <1>3. ContentInv'
    BY <1>0 DEF MergeInv, ContentInv, options
  <1>. QED BY <1>1, <1>2, <1>3 DEF MergeInv
------------------------------------------------------------------------------
(* Whatever sort is given, the files that it has still to read always have  *)
(* in them, one after the other, what was given.                            *)
THEOREM AlwaysMerging == Spec => []MergeInv
  <1>. USE DEF Making, Buffering, Passing, Copying, Retreating, Last, Reading
  <1>1. Init => MergeInv
    <2>. SUFFICES ASSUME Init  PROVE MergeInv
      OBVIOUS
    <2>1. /\ given \in Seq(Name) /\ mergeonly \in BOOLEAN /\ nmerge \in Nat \ {0, 1}
          /\ fresh = NFiles + 1 /\ parts = [x \in Elements(given) |-> <<x>>]
          /\ pc = (IF mergeonly THEN "loop" ELSE "sort")
          /\ files = (IF mergeonly THEN given ELSE <<>>)
          /\ ntemps = 0 /\ in = 0 /\ out = 0 /\ nopened = 0 /\ temp = 0 /\ tempcopy = None
          /\ temphead = <<>>
      BY GivenAssumption, NMergeAssumption DEF Init, None
    <2>2. /\ Len(given) \in Nat /\ \A i \in 1 .. Len(given) : given[i] \in Elements(given)
          /\ \A i \in 1 .. Len(given) : given[i] \in Name
          /\ Elements(given) \subseteq Name
      BY <2>1, LenProperties, ElementOfSeq DEF Elements
    <2>3. same \subseteq Name /\ (~ mergeonly => same = {}) /\ \A x, y \in same : x = y
      BY <2>2 DEF Init
    <2>4. given \in Seq(Elements(given))
      <3>1. given \in [1 .. Len(given) -> Elements(given)]
        BY <2>1, <2>2, LenProperties
      <3>. QED BY <2>2, <3>1, SeqDef
    <2>5. IsStore(parts) /\ DOMAIN parts = Elements(given)
      <3>1. \A x \in Elements(given) : <<x>> \in Seq(Name)  BY <2>2
      <3>. QED BY <2>1, <3>1 DEF IsStore
    <2>6. DataInv
      <3>1. files \in Seq(DOMAIN parts)  BY <2>1, <2>4, <2>5, EmptySeq
      <3>2. fresh \in Nat /\ fresh > NFiles /\ DOMAIN parts \subseteq 1 .. fresh - 1
        BY <2>1, <2>2, <2>5, NFilesAssumption DEF Name
      <3>3. temphead \in Seq(Nat)  BY <2>1, EmptySeq
      <3>4. temp \in Nat /\ tempcopy \in Nat /\ ntemps \in Nat /\ in \in Nat /\ out \in Nat /\ nopened \in Nat
        BY <2>1 DEF None
      <3>. QED BY <2>1, <2>3, <2>5, <3>1, <3>2, <3>3, <3>4 DEF DataInv
    <2>7. TempInv /\ WindowInv
      BY <2>1 DEF TempInv, WindowInv
    <2>8. BufferInv
      <3>1. CASE mergeonly  BY <2>1, <3>1 DEF BufferInv
      <3>2. CASE ~ mergeonly
        <4>1. Len(temphead) = 0 /\ Buffered = 0  BY <2>1, <3>2, EmptySeq DEF Buffered
        <4>2. \A i \in 1 .. 0 : FALSE  OBVIOUS
        <4>. QED BY <2>1, <2>2, <2>3, <3>2, <4>1, <4>2 DEF BufferInv
      <3>. QED BY <3>1, <3>2
    <2>9. CountInv
      <3>1. Len(files) \in Nat  BY <2>1, <2>2, EmptySeq
      <3>. QED BY <2>1, <3>1 DEF CountInv
    <2>10. SameInv  BY <2>1 DEF SameInv
    <2>11. ContentInv
      <3>1. Contents(parts, given) = given
        <4>1. \A k \in 1 .. Len(given) : parts[given[k]] = <<given[k]>>  BY <2>1, <2>2
        <4>. QED BY <2>1, <4>1, ContentsOfSingletons
      <3>. QED BY <2>1, <3>1 DEF ContentInv, Live
    <2>. QED BY <2>6, <2>7, <2>8, <2>9, <2>10, <2>11 DEF MergeInv
  <1>2. MergeInv /\ [Next]_vars => MergeInv'
    <2>1. ASSUME MergeInv, UNCHANGED vars  PROVE MergeInv'
      <3>1. UNCHANGED <<given, mergeonly, nmerge, same, pc, purpose, files, ntemps, in, out, nopened,
                        window, temp, tempcopy, temphead, parts, fresh, written>>
        BY <2>1 DEF vars, options, work, store
      <3>2. DataInv'  BY <2>1, <3>1 DEF MergeInv, DataInv
      <3>3. TempInv' /\ BufferInv'  BY <2>1, <3>1 DEF MergeInv, TempInv, BufferInv, Buffered
      <3>4. CountInv'  BY <2>1, <3>1 DEF MergeInv, CountInv, Temporary, CheapSlots, Remainder
      <3>5. SameInv' /\ WindowInv'  BY <2>1, <3>1 DEF MergeInv, SameInv, WindowInv
      <3>6. ContentInv'  BY <2>1, <3>1 DEF MergeInv, ContentInv, Live
      <3>. QED BY <3>2, <3>3, <3>4, <3>5, <3>6 DEF MergeInv
    <2>2. ASSUME MergeInv, Steps \/ Signal  PROVE MergeInv'
      BY <2>2, CreateTempMerges, LinkTempMerges, SortBufferMerges, WriteBufferMerges, PassMerges,
         NextMergeMerges, EndPassMerges, MergeFilesMerges, ZapMerges, EndMergeMerges, AvoidMerges,
         EndCopyMerges, MergeToOutputMerges, RetreatMerges, EndRetreatMerges, EndOutputMerges,
         EndingMerges DEF Steps
    <2>. QED BY <2>1, <2>2 DEF Next
  <1>. QED BY <1>1, <1>2, PTL DEF Spec

(* If sort succeeds, the output has everything that was given, once, in the *)
(* order given for lines that compare equal: through any number of passes,  *)
(* with however few files open, and even if the output file is one of those *)
(* given, of which avoid_trashing_input makes a copy before it is truncated. *)
THEOREM AlwaysKeepsEverythingInOrder == Spec => []KeepsEverythingInOrder
  <1>1. MergeInv => KeepsEverythingInOrder
    BY DEF MergeInv, ContentInv, KeepsEverythingInOrder
  <1>. QED BY <1>1, AlwaysMerging, PTL
===============================================================================
