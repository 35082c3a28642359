-------------------------- MODULE ParallelSortProofs --------------------------
(***************************************************************************)
(* sort with several threads, for any number of lines and threads, and     *)
(* whether or not a thread can be created, in whatever order nodes are     *)
(* popped: a node is never in the queue twice, MERGE_END is the last one   *)
(* there, a leaf is sorted in space that nobody else uses, and what is     *)
(* written is, line by line, what a stable sort writes.                    *)
(***************************************************************************)
EXTENDS ParallelSort, FiniteSetTheorems, WellFoundedInduction, TLAPS

(* A set of numbers that is not empty has a least one.                      *)
LEMMA LeastNumber ==
  ASSUME NEW B \in SUBSET Nat, B # {}
  PROVE  \E k \in B : \A y \in B : k <= y
  <1>. DEFINE R == { p \in Nat \X Nat : p[1] < p[2] }
  <1>0. IsWellFoundedOn(R, Nat)
    BY NatLessThanWellFounded DEF OpToRel
  <1>. HIDE DEF R
  <1>1. PICK k \in B : \A y \in B : ~(<<y, k>> \in R)
    BY <1>0, WFMin
  <1>2. \A y \in B : ~(y < k)
    BY <1>1 DEF R
  <1>. QED BY <1>2

(* What holds of the root, and of a node if of its parent, holds of all.    *)
LEMMA FromTheTop ==
  ASSUME NEW N \in Nat, NEW A, 1 \in A, \A n \in 2 .. N : n \div 2 \in A => n \in A
  PROVE  \A n \in 1 .. N : n \in A
  <1>. DEFINE B == (1 .. N) \ A
  <1>1. ASSUME B # {}  PROVE FALSE
    <2>1. B \in SUBSET Nat  OBVIOUS
    <2>. HIDE DEF B
    <2>2. PICK k \in B : \A y \in B : k <= y  BY <1>1, <2>1, LeastNumber
    <2>. USE DEF B
    <2>3. k \in 2 .. N /\ k \div 2 \in 1 .. N /\ k \div 2 < k  OBVIOUS
    <2>. QED BY <2>2, <2>3
  <1>. QED BY <1>1

(* What the first N nodes get, each from what its parent has.               *)
IsRule(g, N, S) == N \in Nat /\ g \in [(2 .. N) \X S -> S]
Follows(f, top, g, N, S) ==
  /\ f \in [1 .. N -> S]
  /\ \A n \in 1 .. N : f[n] = IF n = 1 THEN top ELSE g[<<n, f[n \div 2]>>]

(* There is such a function.                                                *)
LEMMA HalvingExists ==
  ASSUME NEW S, NEW top \in S, NEW N, NEW g, IsRule(g, N, S)
  PROVE  \E f : Follows(f, top, g, N, S)
  <1>0. N \in Nat /\ g \in [(2 .. N) \X S -> S]  BY DEF IsRule
  <1>. DEFINE Rec(f, k) == \A n \in 1 .. k : f[n] = IF n = 1 THEN top ELSE g[<<n, f[n \div 2]>>]
              Good(k) == \E f \in [1 .. k -> S] : Rec(f, k)
  <1>1. Good(0)
    <2>1. [n \in 1 .. 0 |-> top] \in [1 .. 0 -> S] /\ 1 .. 0 = {}  OBVIOUS
    <2>. QED BY <2>1
  <1>2. ASSUME NEW k \in Nat, k # 0, k <= N, Good(k - 1)  PROVE Good(k)
    <2>1. PICK f \in [1 .. k - 1 -> S] : Rec(f, k - 1)  BY <1>2
    <2>. DEFINE new == IF k = 1 THEN top ELSE g[<<k, f[k \div 2]>>]
                d == [n \in 1 .. k |-> IF n = k THEN new ELSE f[n]]
    <2>2. new \in S
      <3>1. CASE k = 1  BY <3>1
      <3>2. CASE k # 1
        <4>1. k \in 2 .. N /\ k \div 2 \in 1 .. k - 1  BY <1>0, <1>2, <3>2
        <4>. QED BY <1>0, <2>1, <3>2, <4>1
      <3>. QED BY <3>1, <3>2
    <2>3. d \in [1 .. k -> S]
      <3>1. \A n \in 1 .. k : n # k => n \in 1 .. k - 1  BY <1>2
      <3>. QED BY <2>1, <2>2, <3>1
    <2>4. ASSUME NEW n \in 1 .. k  PROVE d[n] = IF n = 1 THEN top ELSE g[<<n, d[n \div 2]>>]
      <3>1. CASE n = 1
        <4>1. CASE k = 1  BY <3>1, <4>1
        <4>2. CASE k # 1
          <5>1. n # k /\ n \in 1 .. k - 1 /\ n \in 1 .. k  BY <1>2, <3>1, <4>2
          <5>. QED BY <2>1, <3>1, <5>1
        <4>. QED BY <4>1, <4>2
      <3>2. CASE n # 1
        <4>1. n \div 2 \in 1 .. k /\ n \div 2 # k /\ n \div 2 # n  BY <3>2
        <4>2. d[n \div 2] = f[n \div 2]  BY <4>1
        <4>3. CASE n = k  BY <3>2, <4>2, <4>3
        <4>4. CASE n # k
          <5>1. n \in 1 .. k - 1  BY <4>4
          <5>. QED BY <2>1, <3>2, <4>2, <4>4, <5>1
        <4>. QED BY <4>3, <4>4
      <3>. QED BY <3>1, <3>2
    <2>. HIDE DEF d
    <2>. QED BY <2>3, <2>4
  <1>3. ASSUME ~Good(N)  PROVE FALSE
    <2>. DEFINE B == { k \in Nat : k <= N /\ ~Good(k) }
    <2>. HIDE DEF Good
    <2>1. B \subseteq Nat /\ N \in B  BY <1>0, <1>3
    <2>2. PICK k \in B : \A y \in B : k <= y  BY <2>1, LeastNumber
    <2>3. k \in Nat /\ k # 0 /\ k <= N /\ ~Good(k)  BY <1>1, <2>2
    <2>4. k - 1 \in Nat /\ k - 1 <= N /\ k - 1 \notin B  BY <1>0, <2>2, <2>3
    <2>. QED BY <1>2, <2>3, <2>4
  <1>. QED BY <1>3 DEF Follows

(* The number of threads for a node.                                        *)
LEMMA ThreadsDef ==
  /\ \A n \in 1 .. Bound :
       Threads[n] = IF n = Root THEN NThreads
                    ELSE IF Threads[n \div 2] <= 1 THEN 0
                    ELSE IF IsLo(n) THEN Threads[n \div 2] \div 2
                    ELSE Threads[n \div 2] - Threads[n \div 2] \div 2
  /\ \A n \in 1 .. Bound : Threads[n] \in Nat
  <1>. DEFINE Share(n, up) == IF up <= 1 THEN 0 ELSE IF IsLo(n) THEN up \div 2 ELSE up - up \div 2
              g == [p \in (2 .. Bound) \X Nat |-> Share(p[1], p[2])]
              F(f) == [n \in 1 .. Bound |-> IF n = Root THEN NThreads ELSE Share(n, f[n \div 2])]
  <1>1. NThreads \in Nat /\ Bound \in Nat /\ 1 \in 1 .. Bound  BY SizeAssumption DEF Bound
  <1>2. \A n \in 2 .. Bound, up \in Nat : Share(n, up) \in Nat  OBVIOUS
  <1>3. \A n \in 2 .. Bound, up \in Nat : g[<<n, up>>] = Share(n, up)  OBVIOUS
  <1>4. IsRule(g, Bound, Nat)  BY <1>1, <1>2 DEF IsRule
  <1>5. Threads = CHOOSE f : f = F(f)  BY DEF Threads
  <1>. HIDE DEF g, Share
  <1>6. PICK f : Follows(f, NThreads, g, Bound, Nat)  BY <1>1, <1>4, HalvingExists
  <1>7. f = F(f)
    <2>1. ASSUME NEW n \in 1 .. Bound  PROVE f[n] = F(f)[n]
      <3>1. CASE n = 1  BY <1>6, <3>1 DEF Root, Follows
      <3>2. CASE n # 1
        <4>1. n \in 2 .. Bound /\ n \div 2 \in 1 .. Bound  BY <1>1, <3>2
        <4>. QED BY <1>3, <1>6, <3>2, <4>1 DEF Root, Follows
      <3>. QED BY <3>1, <3>2
    <2>. QED BY <1>6, <2>1 DEF Follows
  <1>8. Threads = F(Threads)  BY <1>5, <1>7
  <1>9. \A n \in 1 .. Bound : Threads[n] \in Nat
    <2>. DEFINE A == { n \in 1 .. Bound : Threads[n] \in Nat }
    <2>1. 1 \in A  BY <1>1, <1>8 DEF Root
    <2>2. ASSUME NEW n \in 2 .. Bound, n \div 2 \in A  PROVE n \in A
      <3>1. n \in 1 .. Bound /\ n # 1  BY <1>1
      <3>2. Threads[n] = Share(n, Threads[n \div 2])  BY <1>8, <3>1 DEF Root
      <3>. QED BY <1>2, <2>2, <3>1, <3>2
    <2>. HIDE DEF A
    <2>3. \A n \in 1 .. Bound : n \in A  BY <1>1, <2>1, <2>2, FromTheTop
    <2>. QED BY <2>3 DEF A
  <1>. QED BY <1>8, <1>9 DEF Share

(* The number of lines of a node.                                           *)
LEMMA NTotalDef ==
  /\ \A n \in 1 .. Bound :
       NTotal[n] = IF n = Root THEN NLines
                   ELSE IF IsLo(n) THEN NTotal[n \div 2] \div 2
                   ELSE NTotal[n \div 2] - NTotal[n \div 2] \div 2
  /\ \A n \in 1 .. Bound : NTotal[n] \in Nat
  <1>. DEFINE Share(n, up) == IF IsLo(n) THEN up \div 2 ELSE up - up \div 2
              g == [p \in (2 .. Bound) \X Nat |-> Share(p[1], p[2])]
              F(f) == [n \in 1 .. Bound |-> IF n = Root THEN NLines ELSE Share(n, f[n \div 2])]
  <1>1. NLines \in Nat /\ Bound \in Nat /\ 1 \in 1 .. Bound  BY SizeAssumption DEF Bound
  <1>2. \A n \in 2 .. Bound, up \in Nat : Share(n, up) \in Nat  OBVIOUS
  <1>3. \A n \in 2 .. Bound, up \in Nat : g[<<n, up>>] = Share(n, up)  OBVIOUS
  <1>4. IsRule(g, Bound, Nat)  BY <1>1, <1>2 DEF IsRule
  <1>5. NTotal = CHOOSE f : f = F(f)  BY DEF NTotal
  <1>. HIDE DEF g, Share
  <1>6. PICK f : Follows(f, NLines, g, Bound, Nat)  BY <1>1, <1>4, HalvingExists
  <1>7. f = F(f)
    <2>1. ASSUME NEW n \in 1 .. Bound  PROVE f[n] = F(f)[n]
      <3>1. CASE n = 1  BY <1>6, <3>1 DEF Root, Follows
      <3>2. CASE n # 1
        <4>1. n \in 2 .. Bound /\ n \div 2 \in 1 .. Bound  BY <1>1, <3>2
        <4>. QED BY <1>3, <1>6, <3>2, <4>1 DEF Root, Follows
      <3>. QED BY <3>1, <3>2
    <2>. QED BY <1>6, <2>1 DEF Follows
  <1>8. NTotal = F(NTotal)  BY <1>5, <1>7
  <1>9. \A n \in 1 .. Bound : NTotal[n] \in Nat
    <2>. DEFINE A == { n \in 1 .. Bound : NTotal[n] \in Nat }
    <2>1. 1 \in A  BY <1>1, <1>8 DEF Root
    <2>2. ASSUME NEW n \in 2 .. Bound, n \div 2 \in A  PROVE n \in A
      <3>1. n \in 1 .. Bound /\ n # 1  BY <1>1
      <3>2. NTotal[n] = Share(n, NTotal[n \div 2])  BY <1>8, <3>1 DEF Root
      <3>. QED BY <1>2, <2>2, <3>1, <3>2
    <2>. HIDE DEF A
    <2>3. \A n \in 1 .. Bound : n \in A  BY <1>1, <2>1, <2>2, FromTheTop
    <2>. QED BY <2>3 DEF A
  <1>. QED BY <1>8, <1>9 DEF Share

(* Where its lines start.                                                   *)
LEMMA LinesDef ==
  /\ \A n \in 1 .. Bound :
       Lines[n] = IF n = Root THEN 0 ELSE Lines[n \div 2] + Offset(n)
  /\ \A n \in 1 .. Bound : Lines[n] \in Nat
  <1>. DEFINE Share(n, up) == up + Offset(n)
              g == [p \in (2 .. Bound) \X Nat |-> Share(p[1], p[2])]
              F(f) == [n \in 1 .. Bound |-> IF n = Root THEN 0 ELSE Share(n, f[n \div 2])]
  <1>1. Bound \in Nat /\ 1 \in 1 .. Bound  BY SizeAssumption DEF Bound
  <1>2. \A n \in 2 .. Bound, up \in Nat : Share(n, up) \in Nat
    <2>1. ASSUME NEW n \in 2 .. Bound  PROVE Offset(n) \in Nat
      <3>1. n \div 2 \in 1 .. Bound  BY <1>1
      <3>2. NTotal[n \div 2] \in Nat  BY <3>1, NTotalDef
      <3>. QED BY <3>2 DEF Offset, Lo
    <2>. QED BY <2>1
  <1>3. \A n \in 2 .. Bound, up \in Nat : g[<<n, up>>] = Share(n, up)  OBVIOUS
  <1>4. IsRule(g, Bound, Nat)  BY <1>1, <1>2 DEF IsRule
  <1>5. Lines = CHOOSE f : f = F(f)  BY DEF Lines
  <1>. HIDE DEF g, Share
  <1>6. PICK f : Follows(f, 0, g, Bound, Nat)
    <2>1. PICK z \in Nat : z = 0  OBVIOUS
    <2>2. \E f : Follows(f, z, g, Bound, Nat)  BY <1>4, HalvingExists
    <2>. QED BY <2>1, <2>2
  <1>7. f = F(f)
    <2>1. ASSUME NEW n \in 1 .. Bound  PROVE f[n] = F(f)[n]
      <3>1. CASE n = 1  BY <1>6, <3>1 DEF Root, Follows
      <3>2. CASE n # 1
        <4>1. n \in 2 .. Bound /\ n \div 2 \in 1 .. Bound  BY <1>1, <3>2
        <4>. QED BY <1>3, <1>6, <3>2, <4>1 DEF Root, Follows
      <3>. QED BY <3>1, <3>2
    <2>. QED BY <1>6, <2>1 DEF Follows
  <1>8. Lines = F(Lines)  BY <1>5, <1>7
  <1>9. \A n \in 1 .. Bound : Lines[n] \in Nat
    <2>. DEFINE A == { n \in 1 .. Bound : Lines[n] \in Nat }
    <2>1. 1 \in A  BY <1>1, <1>8 DEF Root
    <2>2. ASSUME NEW n \in 2 .. Bound, n \div 2 \in A  PROVE n \in A
      <3>1. n \in 1 .. Bound /\ n # 1  BY <1>1
      <3>2. Lines[n] = Share(n, Lines[n \div 2])  BY <1>8, <3>1 DEF Root
      <3>. QED BY <1>2, <2>2, <3>1, <3>2
    <2>. HIDE DEF A
    <2>3. \A n \in 1 .. Bound : n \in A  BY <1>1, <2>1, <2>2, FromTheTop
    <2>. QED BY <2>3 DEF A
  <1>. QED BY <1>8, <1>9 DEF Share

(* Its level.                                                               *)
LEMMA LevelDef ==
  /\ Level[Root] = 1
  /\ \A n \in 2 .. Bound : Level[n] = Level[n \div 2] + 1
  /\ \A n \in 1 .. Bound : Level[n] \in Nat \ {0}
  <1>. DEFINE g == [p \in (2 .. Bound) \X Nat |-> p[2] + 1]
              F(f) == [n \in 0 .. Bound |-> IF n = End THEN 0 ELSE f[n \div 2] + 1]
  <1>1. Bound \in Nat /\ 1 \in 1 .. Bound  BY SizeAssumption DEF Bound
  <1>3. \A n \in 2 .. Bound, up \in Nat : g[<<n, up>>] = up + 1  OBVIOUS
  <1>4. IsRule(g, Bound, Nat)  BY <1>1 DEF IsRule
  <1>5. Level = CHOOSE f : f = F(f)  BY DEF Level
  <1>. HIDE DEF g
  <1>6. PICK f : Follows(f, 1, g, Bound, Nat)
    <2>1. PICK z \in Nat : z = 1  OBVIOUS
    <2>2. \E f : Follows(f, z, g, Bound, Nat)  BY <1>4, HalvingExists
    <2>. QED BY <2>1, <2>2
  <1>. DEFINE d == [n \in 0 .. Bound |-> IF n = 0 THEN 0 ELSE f[n]]
  <1>7. d = F(d)
    <2>1. ASSUME NEW n \in 0 .. Bound  PROVE d[n] = F(d)[n]
      <3>1. CASE n = 0  BY <3>1 DEF End
      <3>2. CASE n = 1
        <4>1. n \div 2 = 0 /\ 0 \in 0 .. Bound /\ n \in 1 .. Bound  BY <1>1, <3>2
        <4>2. d[n] = 1 /\ d[n \div 2] = 0  BY <1>6, <3>2, <4>1 DEF Follows
        <4>. QED BY <3>2, <4>2 DEF End
      <3>3. CASE n \notin {0, 1}
        <4>1. n \in 2 .. Bound /\ n \div 2 \in 1 .. Bound /\ n \div 2 \in 0 .. Bound
          BY <1>1, <3>3
        <4>2. d[n] = g[<<n, f[n \div 2]>>] /\ f[n \div 2] \in Nat
          BY <1>6, <3>3, <4>1 DEF Follows
        <4>3. d[n \div 2] = f[n \div 2]  BY <4>1
        <4>. QED BY <1>3, <3>3, <4>1, <4>2, <4>3 DEF End
      <3>. QED BY <3>1, <3>2, <3>3
    <2>. HIDE DEF d
    <2>2. d = [n \in 0 .. Bound |-> d[n]]  BY DEF d
    <2>. QED BY <2>1, <2>2
  <1>8. Level = F(Level)  BY <1>5, <1>7
  <1>9. Level[Root] = 1
    <2>1. 1 \div 2 = 0 /\ 0 \in 0 .. Bound /\ 1 \in 0 .. Bound  BY <1>1
    <2>. QED BY <1>8, <2>1 DEF Root, End
  <1>10. \A n \in 2 .. Bound : Level[n] = Level[n \div 2] + 1  BY <1>1, <1>8 DEF End
  <1>11. \A n \in 1 .. Bound : Level[n] \in Nat \ {0}
    <2>. DEFINE A == { n \in 1 .. Bound : Level[n] \in Nat \ {0} }
    <2>1. 1 \in A  BY <1>1, <1>9 DEF Root
    <2>2. ASSUME NEW n \in 2 .. Bound, n \div 2 \in A  PROVE n \in A
      <3>1. n \in 1 .. Bound  BY <1>1
      <3>. QED BY <1>10, <2>2, <3>1
    <2>. HIDE DEF A
    <2>3. \A n \in 1 .. Bound : n \in A  BY <1>1, <2>1, <2>2, FromTheTop
    <2>. QED BY <2>3 DEF A
  <1>. QED BY <1>9, <1>10, <1>11

(* Nodes are numbers, the root is one, MERGE_END is none.                   *)
LEMMA NodeFacts ==
  /\ Node \subseteq 1 .. Bound /\ Root \in Node /\ End \notin Node /\ Free \notin Node
  /\ Thread \subseteq Node /\ Root \in Thread
  /\ \A n \in Node : n \in Nat \ {0} /\ Threads[n] \in Nat \ {0}
  <1>1. 1 \in 1 .. Bound /\ Threads[1] = NThreads
    BY SizeAssumption, ThreadsDef DEF Bound, Root
  <1>. QED BY <1>1, SizeAssumption, ThreadsDef DEF Node, Root, End, Free, Thread, Bound

(* Few threads are left far from the root.                                  *)
LEMMA FewThreads ==
  \A n \in 1 .. Bound :
    Threads[n] > 0 => (Threads[n] - 1) * (n + 1) <= 2 * (NThreads - 1)
  <1>. DEFINE Few(n) == Threads[n] > 0 => (Threads[n] - 1) * (n + 1) <= 2 * (NThreads - 1)
              A == { n \in 1 .. Bound : Few(n) }
  <1>0. NThreads \in Nat \ {0} /\ Bound \in Nat /\ 1 \in 1 .. Bound
    BY SizeAssumption DEF Bound
  <1>1. 1 \in A
    <2>1. Threads[1] = NThreads  BY <1>0, ThreadsDef DEF Root
    <2>. QED BY <1>0, <2>1
  <1>2. ASSUME NEW n \in 2 .. Bound, n \div 2 \in A  PROVE n \in A
    <2>1. n \in 1 .. Bound /\ n # Root /\ n \div 2 \in 1 .. Bound  BY <1>0 DEF Root
    <2>2. PICK t \in Nat, u \in Nat, h \in Nat :
            t = Threads[n] /\ u = Threads[n \div 2] /\ h = n \div 2
      BY <2>1, ThreadsDef
    <2>3. ASSUME t > 0  PROVE (t - 1) * (n + 1) <= 2 * (NThreads - 1)
      <3>1. u > 1 /\ (u - 1) * (h + 1) <= 2 * (NThreads - 1)
        BY <1>2, <2>1, <2>2, <2>3, ThreadsDef
      <3>2. t = IF IsLo(n) THEN u \div 2 ELSE u - u \div 2
        BY <2>1, <2>2, <3>1, ThreadsDef
      <3>3. 2 * (t - 1) <= u - 1 /\ n + 1 <= 2 * (h + 1)
        BY <2>2, <3>2
      <3>4. PICK a \in Nat, b \in Nat, c \in Nat : a = t - 1 /\ b = u - 1 /\ c = h + 1
        BY <2>2, <2>3, <3>1
      <3>5. a * (n + 1) <= a * (2 * c)
        BY <3>3, <3>4
      <3>6. a * (2 * c) = (2 * a) * c
        BY <3>4
      <3>7. (2 * a) * c <= b * c
        BY <3>3, <3>4
      <3>8. PICK p \in Int, q \in Int, r \in Int :
               p = a * (n + 1) /\ q = a * (2 * c) /\ r = b * c
        BY <3>4
      <3>9. p <= q /\ q <= r /\ r <= 2 * (NThreads - 1)
        BY <3>1, <3>4, <3>5, <3>6, <3>7, <3>8
      <3>. QED BY <1>0, <3>4, <3>8, <3>9
    <2>. QED BY <2>1, <2>2, <2>3
  <1>. HIDE DEF A
  <1>3. \A n \in 1 .. Bound : n \in A  BY <1>0, <1>1, <1>2, FromTheTop
  <1>. QED BY <1>3 DEF A

(* A node with more than one thread has two children; the low one is where  *)
(* the thread starts that is created there.                                 *)
LEMMA Children ==
  ASSUME NEW n \in Node, Threads[n] > 1
  PROVE  /\ 2 * n \in Node /\ 2 * n + 1 \in Node /\ 2 * n \in Thread
         /\ 2 * n # Root /\ 2 * n + 1 # Root
         /\ IsLo(2 * n) /\ ~IsLo(2 * n + 1)
         /\ (2 * n) \div 2 = n /\ (2 * n + 1) \div 2 = n
  <1>0. n \in Nat \ {0} /\ n \in 1 .. Bound /\ NThreads \in Nat \ {0}
    BY NodeFacts, SizeAssumption
  <1>1. /\ 2 * n # Root /\ 2 * n + 1 # Root
        /\ IsLo(2 * n) /\ ~IsLo(2 * n + 1)
        /\ (2 * n) \div 2 = n /\ (2 * n + 1) \div 2 = n
    BY <1>0 DEF Root, IsLo
  <1>2. 2 * n + 1 <= Bound
    <2>1. PICK t \in Nat : t = Threads[n] /\ t > 1  BY NodeFacts
    <2>2. (t - 1) * (n + 1) <= 2 * (NThreads - 1)  BY <1>0, <2>1, FewThreads
    <2>3. n + 1 <= (t - 1) * (n + 1)  BY <1>0, <2>1
    <2>4. PICK p \in Int : p = (t - 1) * (n + 1)  BY <1>0, <2>1
    <2>. QED BY <1>0, <2>2, <2>3, <2>4 DEF Bound
  <1>3. 2 * n \in 1 .. Bound /\ 2 * n + 1 \in 1 .. Bound  BY <1>0, <1>2 DEF Bound
  <1>4. Threads[2 * n] > 0 /\ Threads[2 * n + 1] > 0
    <2>1. PICK t \in Nat : t = Threads[n] /\ t > 1  BY NodeFacts
    <2>2. Threads[2 * n] = t \div 2  BY <1>1, <1>3, <2>1, ThreadsDef
    <2>3. Threads[2 * n + 1] = t - t \div 2  BY <1>1, <1>3, <2>1, ThreadsDef
    <2>. QED BY <2>1, <2>2, <2>3
  <1>. QED BY <1>1, <1>3, <1>4 DEF Node, Thread

(* Every node but the root is a child of another.                           *)
LEMMA Parent ==
  ASSUME NEW n \in Node, n # Root
  PROVE  /\ n \div 2 \in Node /\ Threads[n \div 2] > 1
         /\ n = IF IsLo(n) THEN 2 * (n \div 2) ELSE 2 * (n \div 2) + 1
         /\ n \div 2 < n
  <1>1. n \in 2 .. Bound /\ n \in 1 .. Bound /\ Threads[n] > 0  BY NodeFacts DEF Root, Node
  <1>2. n \div 2 \in 1 .. Bound /\ n \div 2 < n  BY <1>1, SizeAssumption DEF Bound
  <1>3. Threads[n \div 2] > 1  BY <1>1, <1>2, ThreadsDef
  <1>4. n = IF IsLo(n) THEN 2 * (n \div 2) ELSE 2 * (n \div 2) + 1
    <2>1. PICK k \in Nat : k = n  BY <1>1, SizeAssumption DEF Bound
    <2>. QED BY <2>1 DEF IsLo
  <1>5. n \div 2 \in Node
    <2>1. Threads[n \div 2] > 0  BY <1>2, <1>3, ThreadsDef
    <2>. QED BY <1>2, <2>1 DEF Node
  <1>. QED BY <1>2, <1>3, <1>4, <1>5

(* The lines of a node are those of its children.                           *)
LEMMA Totals ==
  ASSUME NEW n \in Node
  PROVE  /\ NTotal[n] \in Nat /\ Lo(n) \in Nat /\ Hi(n) \in Nat /\ Lo(n) + Hi(n) = NTotal[n]
         /\ Lo(n) <= Hi(n)
         /\ NTotal[n] >= 2 => Lo(n) >= 1
         /\ NTotal[n] >= 4 => Lo(n) >= 2
         /\ Place(n) \in Nat /\ Lines[n] \in Nat /\ Level[n] \in Nat \ {0}
         /\ n # Root => NTotal[n] = IF IsLo(n) THEN Lo(n \div 2) ELSE Hi(n \div 2)
         /\ n # Root => Lines[n] = Lines[n \div 2] + Offset(n)
         /\ n # Root => Level[n] = Level[n \div 2] + 1
  <1>1. n \in 1 .. Bound /\ (n # Root => n \in 2 .. Bound)  BY NodeFacts DEF Root
  <1>2. NTotal[n] \in Nat /\ Lines[n] \in Nat /\ Level[n] \in Nat \ {0}
    BY <1>1, NTotalDef, LinesDef, LevelDef
  <1>3. PICK k \in Nat : k = NTotal[n]  BY <1>2
  <1>4. Lo(n) = k \div 2 /\ Hi(n) = k - k \div 2  BY <1>3 DEF Lo, Hi
  <1>5. /\ k \div 2 \in Nat /\ k - k \div 2 \in Nat /\ k \div 2 <= k - k \div 2
        /\ k >= 2 => k \div 2 >= 1
        /\ k >= 4 => k \div 2 >= 2
    OBVIOUS
  <1>6. Place(n) \in Nat
    <2>1. PICK a \in Nat, b \in Nat : a = Lines[n] /\ b = Level[n]  BY <1>2
    <2>. QED BY <2>1, SizeAssumption DEF Place
  <1>7. n # Root => NTotal[n] = IF IsLo(n) THEN Lo(n \div 2) ELSE Hi(n \div 2)
    BY <1>1, NTotalDef DEF Lo, Hi
  <1>8. n # Root => Lines[n] = Lines[n \div 2] + Offset(n) /\ Level[n] = Level[n \div 2] + 1
    BY <1>1, LinesDef, LevelDef
  <1>9. /\ Lo(n) \in Nat /\ Hi(n) \in Nat /\ Lo(n) + Hi(n) = NTotal[n] /\ Lo(n) <= Hi(n)
        /\ NTotal[n] >= 2 => Lo(n) >= 1
        /\ NTotal[n] >= 4 => Lo(n) >= 2
    BY <1>3, <1>4, <1>5
  <1>. QED BY <1>2, <1>6, <1>7, <1>8, <1>9
-----------------------------------------------------------------------------
Places == {"none", "sortlines", "sort", "pop", "wait", "lock", "merge", "rest", "check",
           "parent", "unlock", "end", "join", "done"}
NodeRecord == [lo : Int, hi : Int, end_lo : Int, end_hi : Int, nlo : Int, nhi : Int,
               queued : BOOLEAN]
RegRecord == [lo : Int, hi : Int, dest : Int, to_merge : Nat]

TypeInv ==
  /\ mem = [a \in Cells |-> mem[a]]
  /\ node \in [Node \cup {End} -> NodeRecord]
  /\ lock \in [Node \cup {End} -> Thread \cup {Free}]
  /\ queue \in [Node \cup {End} -> Nat]
  /\ pc \in [Thread -> Places]
  /\ at \in [Thread -> Node \cup {End}]
  /\ reg \in [Thread -> RegRecord]
  /\ joins \in [Thread -> SUBSET Nat]

Sorting(t) == pc[t] \in {"sortlines", "sort"}
Merging(t) == pc[t] \in {"merge", "rest"}
Holding(t) == pc[t] \in {"merge", "rest", "check", "parent", "unlock"}

(* The nodes that have been given to two threads, the nodes that threads    *)
(* work with, and those that are still to be sorted.                        *)
Split(n) == \E t \in Thread : 2 * n \in joins[t]
InPlay(n) == n = Root \/ (n \in Node /\ Split(n \div 2))
Unsorted(n) == \E t \in Thread : Sorting(t) /\ at[t] = n

Initially(n) == MergeNode(Place(n), Place(n) + Lo(n), Place(n), Place(n) + Lo(n), Lo(n), Hi(n))

(* A thread has been created for a node that has been split; a leaf that is *)
(* not yet sorted has one thread, and nobody has touched it.                *)
TreeInv ==
  /\ \A t \in Thread : pc[t] = "none" => at[t] = t /\ ~InPlay(t)
  /\ \A t \in Thread : pc[t] # "none" => InPlay(t) /\ (at[t] # End => InPlay(at[t]))
  /\ \A n \in Nat : Split(n) => n \in Node /\ Splits(n) /\ InPlay(n) /\ ~Unsorted(n)
  /\ \A t \in Thread : Sorting(t) => at[t] # End /\ \A u \in Thread : at[u] = at[t] => u = t
  /\ \A n \in Node : ~InPlay(n) \/ Unsorted(n) =>
       node[n] = Initially(n) /\ lock[n] = Free /\ queue[n] = 0

LockInv ==
  /\ \A t \in Thread : Holding(t) => at[t] # End /\ lock[at[t]] = t
  /\ \A n \in Node : lock[n] # Free => Holding(lock[n]) /\ at[lock[n]] = n

(* The lines of a node that are still to be merged, whether or not nlo and  *)
(* nhi say so yet; and how far they have been merged into the parent.       *)
Busy(n) == lock[n] # Free /\ Merging(lock[n])
LeftLo(n) == node[n].nlo - (IF Busy(n) THEN node[n].lo - reg[lock[n]].lo ELSE 0)
LeftHi(n) == node[n].nhi - (IF Busy(n) THEN node[n].hi - reg[lock[n]].hi ELSE 0)
Left(n) == LeftLo(n) + LeftHi(n)
Sent(n) == IF Busy(n) THEN reg[lock[n]].dest ELSE Dest(n)

(* What the parent has of a node: how far it has read, how much is left.    *)
Taken(n) == IF IsLo(n) THEN node[n \div 2].lo ELSE node[n \div 2].hi
LeftOf(n) == IF IsLo(n) THEN LeftLo(n \div 2) ELSE LeftHi(n \div 2)
Base(n) == Place(n \div 2) + Offset(n)

(* The parent reads only what has been published, and that only what has    *)
(* been merged; nothing is lost between a node and its parent.              *)
CountInv ==
  /\ \A n \in Node : LeftLo(n) \in 0 .. Lo(n) /\ LeftHi(n) \in 0 .. Hi(n)
  /\ \A n \in Node : InPlay(n) /\ n # Root =>
       /\ Taken(n) <= Dest(n) /\ Dest(n) <= Sent(n)
       /\ Taken(n) = Base(n) + NTotal[n] - LeftOf(n)
       /\ Sent(n) = Base(n) + NTotal[n] - Left(n)
  /\ \A n \in Node : InPlay(n) /\ ~Split(n) /\ ~Unsorted(n) =>
       /\ node[n].end_lo - node[n].lo = LeftLo(n)
       /\ node[n].end_hi - node[n].hi = LeftHi(n)

(* What is in the queue, or has been popped and waits for its lock, has     *)
(* lines left; while it is merged it is not there.                          *)
QueueInv ==
  /\ \A n \in Node \cup {End} : queue[n] <= 1
  /\ \A t \in Thread : pc[t] = "lock" => queue[at[t]] = 0
  /\ \A t, u \in Thread : pc[t] = "lock" /\ pc[u] = "lock" /\ at[t] = at[u] => t = u
  /\ \A n \in Node : queue[n] > 0 => node[n].queued /\ Left(n) > 0
  /\ \A t \in Thread : pc[t] = "lock" /\ at[t] # End => node[at[t]].queued /\ Left(at[t]) > 0
  /\ \A t \in Thread : pc[t] \in {"merge", "rest", "check"} => ~node[at[t]].queued

(* MERGE_END is in one place, if it has been inserted; there is nothing     *)
(* left then, and it will not be inserted again by the root.                *)
HasEnd(t) == at[t] = End /\ pc[t] \in {"lock", "end"}
EndInserted == queue[End] > 0 \/ \E t \in Thread : HasEnd(t)

EndInv ==
  /\ \A t \in Thread : pc[t] = "end" => at[t] = End
  /\ \A t \in Thread : HasEnd(t) => queue[End] = 0
  /\ \A t, u \in Thread : HasEnd(t) /\ HasEnd(u) => t = u
  /\ EndInserted =>
       /\ Left(Root) = 0
       /\ \A t \in Thread : pc[t] \in {"merge", "rest", "check", "parent"} => at[t] # Root

(* A node does not start before its children have.                          *)
StartInv ==
  \A n \in Node : InPlay(n) /\ n # Root /\ Left(n \div 2) < NTotal[n \div 2] => Left(n) < NTotal[n]

SortInv ==
  /\ TypeInv /\ TreeInv /\ LockInv /\ CountInv /\ QueueInv /\ EndInv /\ StartInv

-----------------------------------------------------------------------------
(* Thread t goes on to a place, and one that waits may have been woken.     *)
Moves(t, place) ==
  /\ pc' \in [Thread -> Places]
  /\ pc'[t] = place
  /\ \A u \in Thread \ {t} : pc'[u] = pc[u] \/ (pc[u] = "wait" /\ pc'[u] = "pop")

(* So it is whether or not a signal is sent.                                *)
LEMMA GotoMoves ==
  ASSUME TypeInv, NEW t \in Thread, NEW place \in Places, pc[t] # "wait",
         Goto(t, place) \/ GotoAndSignal(t, place)
  PROVE  Moves(t, place)
  <1>0. pc \in [Thread -> Places]  BY DEF TypeInv
  <1>1. CASE Goto(t, place)  BY <1>0, <1>1 DEF Goto, Moves
  <1>2. CASE \E w \in Thread : pc[w] = "wait" /\ pc' = [pc EXCEPT ![t] = place, ![w] = "pop"]
    <2>1. PICK w \in Thread : pc[w] = "wait" /\ pc' = [pc EXCEPT ![t] = place, ![w] = "pop"]
      BY <1>2
    <2>2. "pop" \in Places /\ w # t  BY <2>1 DEF Places
    <2>. QED BY <1>0, <2>1, <2>2 DEF Moves
  <1>. QED BY <1>1, <1>2 DEF GotoAndSignal

(* One field of the nodes.                                                  *)
SameButQueued(n) ==
  /\ node' \in [Node \cup {End} -> NodeRecord]
  /\ \A m \in Node \cup {End} :
       /\ node'[m].lo = node[m].lo /\ node'[m].end_lo = node[m].end_lo
       /\ node'[m].hi = node[m].hi /\ node'[m].end_hi = node[m].end_hi
       /\ node'[m].nlo = node[m].nlo /\ node'[m].nhi = node[m].nhi
       /\ m # n => node'[m] = node[m]

(* Only that field changes.                                                 *)
LEMMA QueuedChanges ==
  ASSUME TypeInv, NEW n \in Node \cup {End}, NEW b \in BOOLEAN,
         node' = [node EXCEPT ![n].queued = b]
  PROVE  SameButQueued(n) /\ node'[n].queued = b
  <1>1. node \in [Node \cup {End} -> NodeRecord]  BY DEF TypeInv
  <1>2. node[n] \in NodeRecord  BY <1>1
  <1>3. PICK r : r = [node[n] EXCEPT !.queued = b]  OBVIOUS
  <1>4. /\ r \in NodeRecord /\ r.queued = b /\ r.lo = node[n].lo /\ r.hi = node[n].hi
        /\ r.end_lo = node[n].end_lo /\ r.end_hi = node[n].end_hi
        /\ r.nlo = node[n].nlo /\ r.nhi = node[n].nhi
    BY <1>2, <1>3 DEF NodeRecord
  <1>5. node' = [node EXCEPT ![n] = r]  BY <1>3
  <1>. QED BY <1>1, <1>4, <1>5 DEF SameButQueued

(* Nothing is merged, and nothing published that has been.                  *)
SameLeft ==
  \A n \in Node :
    /\ LeftLo(n)' = LeftLo(n) /\ LeftHi(n)' = LeftHi(n)
    /\ InPlay(n) /\ n # Root => Sent(n)' = Sent(n)
SameEnds ==
  \A n \in Node :
    /\ node'[n].lo = node[n].lo /\ node'[n].end_lo = node[n].end_lo
    /\ node'[n].hi = node[n].hi /\ node'[n].end_hi = node[n].end_hi

(* What is left of the nodes stays as it was.                               *)
LEMMA SameLefts ==
  ASSUME SameLeft
  PROVE  \A n \in Node : Left(n)' = Left(n)
  BY DEF SameLeft, Left

(* The counts agree as long as nothing is merged, and what is published has *)
(* been merged.                                                             *)
LEMMA CountStep ==
  ASSUME CountInv, StartInv, SameLeft, joins' = joins,
         \A n \in Node : InPlay(n) /\ n # Root =>
           Taken(n)' = Taken(n) /\ Taken(n) <= Dest(n)' /\ Dest(n)' <= Sent(n),
         \A n \in Node : InPlay(n) /\ ~Split(n) /\ ~Unsorted(n)' =>
           /\ node'[n].end_lo - node'[n].lo = LeftLo(n)
           /\ node'[n].end_hi - node'[n].hi = LeftHi(n)
  PROVE  CountInv' /\ StartInv'
  <1>1. \A n \in Node : (InPlay(n)' <=> InPlay(n)) /\ (Split(n)' <=> Split(n))
    BY DEF InPlay, Split
  <1>2. \A n \in Node : Left(n)' = Left(n)  BY SameLefts
  <1>3. ASSUME NEW n \in Node, n # Root
        PROVE  LeftOf(n)' = LeftOf(n) /\ Left(n \div 2)' = Left(n \div 2)
    <2>1. n \div 2 \in Node  BY <1>3, Parent
    <2>. QED BY <1>2, <2>1 DEF LeftOf, SameLeft
  <1>4. CountInv'
    <2>1. \A n \in Node : LeftLo(n)' \in 0 .. Lo(n) /\ LeftHi(n)' \in 0 .. Hi(n)
      BY DEF CountInv, SameLeft
    <2>2. ASSUME NEW n \in Node, InPlay(n)', n # Root
          PROVE  /\ Taken(n)' <= Dest(n)' /\ Dest(n)' <= Sent(n)'
                 /\ Taken(n)' = Base(n) + NTotal[n] - LeftOf(n)'
                 /\ Sent(n)' = Base(n) + NTotal[n] - Left(n)'
      <3>1. Sent(n)' = Sent(n)  BY <1>1, <2>2 DEF SameLeft
      <3>2. Taken(n)' = Taken(n) /\ Taken(n) <= Dest(n)' /\ Dest(n)' <= Sent(n)
        BY <1>1, <2>2
      <3>. QED BY <1>1, <1>2, <1>3, <2>2, <3>1, <3>2 DEF CountInv
    <2>3. ASSUME NEW n \in Node, InPlay(n)', ~Split(n)', ~Unsorted(n)'
          PROVE  /\ (node[n].end_lo - node[n].lo = LeftLo(n))'
                 /\ (node[n].end_hi - node[n].hi = LeftHi(n))'
      <3>1. LeftLo(n)' = LeftLo(n) /\ LeftHi(n)' = LeftHi(n)  BY DEF SameLeft
      <3>. QED BY <1>1, <2>3, <3>1
    <2>. QED BY <2>1, <2>2, <2>3 DEF CountInv, Base
  <1>5. StartInv'
    <2>1. ASSUME NEW n \in Node, InPlay(n)', n # Root, Left(n \div 2)' < NTotal[n \div 2]
          PROVE  Left(n)' < NTotal[n]
      BY <1>1, <1>2, <1>3, <2>1 DEF StartInv
    <2>. QED BY <2>1 DEF StartInv
  <1>. QED BY <1>4, <1>5

(* So they do if the nodes are as they were.                                *)
LEMMA CountKept ==
  ASSUME CountInv, StartInv, SameLeft, SameEnds, joins' = joins,
         \A n \in Node : Unsorted(n) => Unsorted(n)'
  PROVE  CountInv' /\ StartInv'
  <1>1. ASSUME NEW n \in Node, InPlay(n), n # Root
        PROVE  Taken(n)' = Taken(n) /\ Taken(n) <= Dest(n)' /\ Dest(n)' <= Sent(n)
    <2>1. n \div 2 \in Node  BY <1>1, Parent
    <2>2. Taken(n)' = Taken(n) /\ Dest(n)' = Dest(n)  BY <2>1 DEF Taken, Dest, SameEnds
    <2>. QED BY <1>1, <2>2 DEF CountInv
  <1>2. ASSUME NEW n \in Node, InPlay(n), ~Split(n), ~Unsorted(n)'
        PROVE  /\ node'[n].end_lo - node'[n].lo = LeftLo(n)
               /\ node'[n].end_hi - node'[n].hi = LeftHi(n)
    BY <1>2 DEF CountInv, SameEnds
  <1>. QED BY <1>1, <1>2, CountStep

(* Those that merge are the same, and are as far as they were.              *)
LEMMA LeftKept ==
  ASSUME TypeInv, NEW n, SameButQueued(n) \/ node' = node, lock' = lock,
         \A t \in Thread : Merging(t)' <=> Merging(t),
         \A t \in Thread : Merging(t) =>
           reg'[t].lo = reg[t].lo /\ reg'[t].hi = reg[t].hi /\ reg'[t].dest = reg[t].dest
  PROVE  SameLeft /\ SameEnds
  <1>1. SameEnds  BY DEF SameEnds, SameButQueued
  <1>2. ASSUME NEW m \in Node  PROVE LeftLo(m)' = LeftLo(m) /\ LeftHi(m)' = LeftHi(m)
    <2>1. lock[m] # Free => lock[m] \in Thread  BY DEF TypeInv
    <2>2. node'[m].nlo = node[m].nlo /\ node'[m].nhi = node[m].nhi  BY DEF SameButQueued
    <2>3. Busy(m)' <=> Busy(m)  BY <2>1 DEF Busy
    <2>4. Busy(m) => reg'[lock[m]].lo = reg[lock[m]].lo /\ reg'[lock[m]].hi = reg[lock[m]].hi
      BY <2>1 DEF Busy
    <2>. QED BY <1>1, <2>2, <2>3, <2>4 DEF LeftLo, LeftHi, SameEnds
  <1>3. ASSUME NEW m \in Node, m # Root  PROVE Sent(m)' = Sent(m)
    <2>1. lock[m] # Free => lock[m] \in Thread  BY DEF TypeInv
    <2>2. m \div 2 \in Node  BY <1>3, Parent
    <2>3. Busy(m)' <=> Busy(m)  BY <2>1 DEF Busy
    <2>4. Busy(m) => reg'[lock[m]].dest = reg[lock[m]].dest  BY <2>1 DEF Busy
    <2>5. Dest(m)' = Dest(m)  BY <1>1, <2>2 DEF Dest, SameEnds
    <2>. QED BY <2>3, <2>4, <2>5 DEF Sent
  <1>. QED BY <1>1, <1>2, <1>3 DEF SameLeft

(* The tree is as it was: thread t goes on, but not to sort another node,   *)
(* and only nodes that have been sorted are touched.                        *)
LEMMA TreeKept ==
  ASSUME TypeInv, TreeInv, NEW t \in Thread, NEW place \in Places, Moves(t, place),
         joins' = joins, pc[t] # "none", place # "none",
         at' \in [Thread -> Node \cup {End}], \A u \in Thread : u # t => at'[u] = at[u],
         at'[t] # End => InPlay(at'[t]),
         place \in {"sortlines", "sort"} => Sorting(t) /\ at'[t] = at[t],
         at'[t] = at[t] \/ \A u \in Thread : Sorting(u) => at[u] # at'[t],
         \A n \in Node : ~InPlay(n) \/ (Unsorted(n) /\ (n = at[t] => Sorting(t)')) =>
           node'[n] = node[n] /\ lock'[n] = lock[n] /\ queue'[n] = queue[n]
  PROVE  TreeInv'
  <1>1. \A n : (InPlay(n)' <=> InPlay(n)) /\ (Split(n)' <=> Split(n))
    BY DEF InPlay, Split
  <1>2. \A u \in Thread : u # t => (Sorting(u)' <=> Sorting(u)) /\ (pc'[u] = "none" <=> pc[u] = "none")
    BY DEF Moves, Sorting
  <1>3. Sorting(t)' => Sorting(t) /\ at'[t] = at[t]
    BY DEF Moves, Sorting
  <1>4. \A n : Unsorted(n)' => Unsorted(n) /\ (n = at[t] => Sorting(t)')
    <2>1. ASSUME NEW n, Unsorted(n)'  PROVE Unsorted(n) /\ (n = at[t] => Sorting(t)')
      <3>1. PICK u \in Thread : Sorting(u)' /\ at'[u] = n  BY <2>1 DEF Unsorted
      <3>2. CASE u = t  BY <1>3, <3>1, <3>2 DEF Unsorted
      <3>3. CASE u # t
        <4>1. Sorting(u) /\ at[u] = n  BY <1>2, <3>1, <3>3
        <4>2. n # at[t]  BY <3>3, <4>1 DEF TreeInv
        <4>. QED BY <4>1, <4>2 DEF Unsorted
      <3>. QED BY <3>2, <3>3
    <2>. QED BY <2>1
  <1>5. \A u \in Thread : pc'[u] = "none" => at'[u] = u /\ ~InPlay(u)'
    BY <1>1, <1>2 DEF TreeInv, Moves
  <1>6. \A u \in Thread : pc'[u] # "none" => InPlay(u)' /\ (at'[u] # End => InPlay(at[u])')
    <2>1. ASSUME NEW u \in Thread, pc'[u] # "none"
          PROVE InPlay(u)' /\ (at'[u] # End => InPlay(at[u])')
      <3>1. pc[u] # "none"  BY <1>2, <2>1
      <3>2. InPlay(u)  BY <3>1 DEF TreeInv
      <3>3. at'[u] # End => InPlay(at'[u])
        <4>1. CASE u = t  BY <4>1
        <4>2. CASE u # t  BY <3>1, <4>2 DEF TreeInv
        <4>. QED BY <4>1, <4>2
      <3>4. InPlay(u)'  BY <1>1, <3>2
      <3>5. at'[u] # End => InPlay(at[u])'
        <4>1. PICK m : m = at'[u]  OBVIOUS
        <4>2. m # End => InPlay(m)  BY <3>3, <4>1
        <4>. QED BY <4>1, <4>2 DEF InPlay, Split
      <3>. QED BY <3>4, <3>5
    <2>. QED BY <2>1
  <1>7. \A n \in Nat : Split(n)' => n \in Node /\ Splits(n) /\ InPlay(n)' /\ ~Unsorted(n)'
    BY <1>1, <1>4 DEF TreeInv
  <1>8. ASSUME NEW u \in Thread, Sorting(u)'
        PROVE  at'[u] # End /\ \A v \in Thread : at'[v] = at'[u] => v = u
    <2>1. Sorting(u) /\ at'[u] = at[u]  BY <1>2, <1>3, <1>8
    <2>2. at[u] # End /\ \A v \in Thread : at[v] = at[u] => v = u  BY <2>1 DEF TreeInv
    <2>3. ASSUME NEW v \in Thread, at'[v] = at'[u]  PROVE v = u
      <3>1. CASE v # t  BY <2>1, <2>2, <2>3, <3>1
      <3>2. CASE v = t  BY <2>1, <2>2, <2>3, <3>2
      <3>. QED BY <3>1, <3>2
    <2>. QED BY <2>1, <2>2, <2>3
  <1>9. ASSUME NEW n \in Node, ~InPlay(n)' \/ Unsorted(n)'
        PROVE  node'[n] = Initially(n) /\ lock'[n] = Free /\ queue'[n] = 0
    <2>1. ~InPlay(n) \/ (Unsorted(n) /\ (n = at[t] => Sorting(t)'))  BY <1>1, <1>4, <1>9
    <2>2. node[n] = Initially(n) /\ lock[n] = Free /\ queue[n] = 0  BY <2>1 DEF TreeInv
    <2>. QED BY <2>1, <2>2
  <1>. QED BY <1>5, <1>6, <1>7, <1>8, <1>9 DEF TreeInv, Initially

(* The locks are as they were, and so are those that hold them.             *)
LEMMA LockKept ==
  ASSUME TypeInv, LockInv, NEW t \in Thread, NEW place \in Places, Moves(t, place),
         lock' = lock, \A u \in Thread : u # t => at'[u] = at[u],
         place \in {"merge", "rest", "check", "parent", "unlock"} <=> Holding(t),
         Holding(t) => at'[t] = at[t]
  PROVE  LockInv'
  <1>1. \A u \in Thread : (Holding(u)' <=> Holding(u)) /\ (Holding(u) => at'[u] = at[u])
    BY DEF Moves, Holding
  <1>2. \A n \in Node : lock[n] # Free => lock[n] \in Thread  BY DEF TypeInv
  <1>. QED BY <1>1, <1>2 DEF LockInv

(* Nothing is inserted, popped or merged.                                   *)
LEMMA QueueKept ==
  ASSUME TypeInv, QueueInv, NEW t \in Thread, NEW place \in Places, Moves(t, place),
         queue' = queue, SameLeft, \A u \in Thread : u # t => at'[u] = at[u],
         place # "lock",
         place \in {"merge", "rest", "check"} => ~node'[at'[t]].queued,
         \A n \in Node \cup {End} : node'[n].queued = node[n].queued
  PROVE  QueueInv'
  <1>1. \A n \in Node : Left(n)' = Left(n)  BY SameLefts
  <1>2. \A u \in Thread : pc'[u] = "lock" => u # t /\ pc[u] = "lock" /\ at'[u] = at[u]
    BY DEF Moves
  <1>3. \A u \in Thread : pc'[u] \in {"merge", "rest", "check"} /\ u # t =>
          pc[u] \in {"merge", "rest", "check"} /\ at'[u] = at[u]
    BY DEF Moves
  <1>4. \A u \in Thread : at[u] \in Node \cup {End}  BY DEF TypeInv
  <1>5. \A u \in Thread : pc'[u] \in {"merge", "rest", "check"} => ~node'[at'[u]].queued
    BY <1>3, <1>4 DEF QueueInv, Moves
  <1>6. \A u \in Thread : pc'[u] = "lock" /\ at'[u] # End =>
          node'[at'[u]].queued /\ Left(at[u])' > 0 /\ at'[u] = at[u]
    BY <1>1, <1>2, <1>4 DEF QueueInv
  <1>. QED BY <1>1, <1>2, <1>4, <1>5, <1>6 DEF QueueInv

(* Nobody gets at MERGE_END or the root.                                    *)
LEMMA EndKept ==
  ASSUME TypeInv, EndInv, NEW t \in Thread, NEW place \in Places, Moves(t, place),
         queue'[End] = queue[End], Left(Root)' = Left(Root),
         \A u \in Thread : u # t => at'[u] = at[u],
         place \notin {"lock", "end"},
         place \in {"merge", "rest", "check", "parent"} =>
            pc[t] \in {"merge", "rest", "check", "parent"} /\ at'[t] = at[t]
  PROVE  EndInv'
  <1>1. \A u \in Thread : HasEnd(u)' => HasEnd(u) /\ u # t
    BY DEF HasEnd, Moves
  <1>2. \A u \in Thread : pc'[u] = "end" => u # t /\ pc[u] = "end"  BY DEF Moves
  <1>3. EndInserted' => EndInserted  BY <1>1 DEF EndInserted
  <1>4. \A u \in Thread : pc'[u] \in {"merge", "rest", "check", "parent"} =>
          pc[u] \in {"merge", "rest", "check", "parent"} /\ at'[u] = at[u]
    BY DEF Moves
  <1>. QED BY <1>1, <1>2, <1>3, <1>4 DEF EndInv

-----------------------------------------------------------------------------
(* Actions that only change where a thread is, and its variables.           *)
Rests(t, place) ==
  /\ Moves(t, place)
  /\ UNCHANGED <<node, lock, queue, at, joins>>
  /\ mem' = [a \in Cells |-> mem'[a]]
  /\ reg' \in [Thread -> RegRecord]
  /\ \A u \in Thread : reg'[u].lo = reg[u].lo /\ reg'[u].hi = reg[u].hi /\ reg'[u].dest = reg[u].dest

(* They disturb nothing.                                                    *)
LEMMA RestsSafe ==
  ASSUME SortInv, NEW t \in Thread, NEW place \in Places, Rests(t, place),
         pc[t] # "none", place \notin {"none", "lock", "end", "check"},
         place \in {"sortlines", "sort"} <=> Sorting(t),
         place \in {"merge", "rest", "check", "parent", "unlock"} <=> Holding(t),
         place \in {"merge", "rest"} <=> Merging(t),
         place = "parent" => pc[t] = "parent"
  PROVE  SortInv'
  <1>. USE DEF SortInv
  <1>0. Moves(t, place) /\ lock' = lock /\ at' = at /\ queue' = queue /\ joins' = joins /\ node' = node
    BY DEF Rests
  <1>1. TypeInv'  BY <1>0 DEF TypeInv, Rests, Moves
  <1>2. TreeInv'
    <2>1. at[t] # End => InPlay(at[t])  BY DEF TreeInv
    <2>. QED BY <1>0, <2>1, TreeKept DEF TypeInv
  <1>3. LockInv'  BY <1>0, LockKept
  <1>4. \A u \in Thread : Merging(u)' <=> Merging(u)
    BY <1>0 DEF Merging, Moves
  <1>5. SameLeft /\ SameEnds  BY <1>0, <1>4, LeftKept DEF Rests
  <1>6. \A n \in Node : Unsorted(n) => Unsorted(n)'
    BY <1>0 DEF Unsorted, Sorting, Moves
  <1>7. CountInv' /\ StartInv'  BY <1>0, <1>5, <1>6, CountKept
  <1>8. QueueInv'
    <2>1. place \in {"merge", "rest", "check"} => ~node[at[t]].queued
      BY DEF QueueInv, Merging
    <2>. QED BY <1>0, <1>5, <2>1, QueueKept
  <1>9. EndInv'
    <2>1. Left(Root)' = Left(Root)  BY <1>5, SameLefts, NodeFacts
    <2>. QED BY <1>0, <2>1, EndKept DEF Merging
  <1>. QED BY <1>1, <1>2, <1>3, <1>7, <1>8, <1>9

(* A thread starts to sort its leaf.                                        *)
LEMMA SortSequentiallySafe ==
  ASSUME SortInv, NEW t \in Thread, SortSequentially(t)
  PROVE  SortInv'
  <1>1. Moves(t, "sort")
    BY GotoMoves DEF SortSequentially, SortInv, Places
  <1>2. Rests(t, "sort")
    BY <1>1 DEF SortSequentially, Rests, SortInv, TypeInv
  <1>. QED BY <1>2, RestsSafe DEF SortSequentially, Sorting, Holding, Merging, Places

(* A thread returns.                                                        *)
LEMMA JoinSafe ==
  ASSUME SortInv, NEW t \in Thread, Join(t)
  PROVE  SortInv'
  <1>1. Moves(t, "done")
    BY GotoMoves DEF Join, SortInv, Places
  <1>2. Rests(t, "done")
    BY <1>1 DEF Join, Rests, SortInv, TypeInv
  <1>. QED BY <1>2, RestsSafe DEF Join, Sorting, Holding, Merging, Places

(* A thread wakes up.                                                       *)
LEMMA SpuriousWakeupSafe ==
  ASSUME SortInv, NEW t \in Thread, SpuriousWakeup(t)
  PROVE  SortInv'
  <1>1. Moves(t, "pop")
    BY DEF SpuriousWakeup, Goto, Moves, SortInv, TypeInv, Places
  <1>2. Rests(t, "pop")
    BY <1>1 DEF SpuriousWakeup, Rests, SortInv, TypeInv
  <1>. QED BY <1>2, RestsSafe DEF SpuriousWakeup, Sorting, Holding, Merging, Places

(* The first loop of mergelines_node ends.                                  *)
LEMMA EndBothSafe ==
  ASSUME SortInv, NEW t \in Thread, EndBoth(t)
  PROVE  SortInv'
  <1>1. Moves(t, "rest")
    BY GotoMoves DEF EndBoth, SortInv, Places
  <1>2. /\ reg' \in [Thread -> RegRecord]
        /\ \A u \in Thread : reg'[u].lo = reg[u].lo /\ reg'[u].hi = reg[u].hi /\ reg'[u].dest = reg[u].dest
    <2>1. reg \in [Thread -> RegRecord]  BY DEF SortInv, TypeInv
    <2>2. CASE reg' = reg  BY <2>1, <2>2
    <2>3. CASE reg' = [reg EXCEPT ![t].to_merge = NLines]
      <3>1. PICK r : r = [reg[t] EXCEPT !.to_merge = NLines]  OBVIOUS
      <3>2. r \in RegRecord /\ r.lo = reg[t].lo /\ r.hi = reg[t].hi /\ r.dest = reg[t].dest
        BY <2>1, <3>1, SizeAssumption DEF RegRecord
      <3>3. reg' = [reg EXCEPT ![t] = r]  BY <2>3, <3>1
      <3>. QED BY <2>1, <3>2, <3>3
    <2>. QED BY <2>2, <2>3 DEF EndBoth
  <1>3. Rests(t, "rest")
    BY <1>1, <1>2 DEF EndBoth, Rests, SortInv, TypeInv
  <1>. QED BY <1>3, RestsSafe DEF EndBoth, Sorting, Holding, Merging, Places

(* Nothing happens.                                                         *)
LEMMA StutterSafe ==
  ASSUME SortInv, UNCHANGED vars
  PROVE  SortInv'
  BY DEF vars, SortInv, TypeInv, TreeInv, LockInv, CountInv, QueueInv, EndInv, StartInv,
         InPlay, Split, Unsorted, Sorting, Initially, Holding, Merging, Left, LeftLo, LeftHi,
         LeftOf, Taken, Dest, Sent, Busy, HasEnd, EndInserted

-----------------------------------------------------------------------------
(* A node in play has two lines at least; its parent is in play too.        *)
LEMMA InPlayFacts ==
  ASSUME TreeInv, NEW n \in Node, InPlay(n)
  PROVE  /\ NTotal[n] >= 2
         /\ n # Root => /\ InPlay(n \div 2) /\ Split(n \div 2) /\ n \div 2 \in Node
                        /\ ~Unsorted(n \div 2)
         /\ Split(n) => /\ 2 * n \in Node /\ 2 * n + 1 \in Node
                        /\ InPlay(2 * n) /\ InPlay(2 * n + 1)
  <1>2. ASSUME n # Root
        PROVE  /\ InPlay(n \div 2) /\ Split(n \div 2) /\ n \div 2 \in Node
               /\ ~Unsorted(n \div 2) /\ NTotal[n] >= 2
    <2>1. Split(n \div 2) /\ n \div 2 \in Node  BY <1>2, Parent DEF InPlay
    <2>2. n \div 2 \in Nat  BY <2>1, NodeFacts
    <2>3. Splits(n \div 2) /\ InPlay(n \div 2) /\ ~Unsorted(n \div 2)
      BY <2>1, <2>2 DEF TreeInv
    <2>4. NTotal[n \div 2] >= 4  BY <2>1, <2>3, Totals, EnoughLines, SizeAssumption DEF Splits
    <2>5. Lo(n \div 2) >= 2 /\ Hi(n \div 2) >= 2  BY <2>1, <2>4, Totals
    <2>6. NTotal[n] >= 2  BY <1>2, <2>5, Totals
    <2>. QED BY <2>1, <2>3, <2>6
  <1>3. ASSUME Split(n)
        PROVE  2 * n \in Node /\ 2 * n + 1 \in Node /\ InPlay(2 * n) /\ InPlay(2 * n + 1)
    <2>1. Threads[n] > 1  BY <1>3, NodeFacts DEF TreeInv, Splits
    <2>. QED BY <1>3, <2>1, Children DEF InPlay
  <1>4. NTotal[n] >= 2
    <2>1. CASE n = Root
      <3>1. Root \in 1 .. Bound  BY NodeFacts
      <3>2. NTotal[Root] = NLines  BY <3>1, NTotalDef
      <3>. QED BY <2>1, <3>2, EnoughLines, SizeAssumption
    <2>. QED BY <1>2, <2>1
  <1>. QED BY <1>2, <1>3, <1>4

(* Whatever is left of a node is left of its parent.                        *)
LEMMA LeftUp ==
  ASSUME SortInv, NEW n \in Node, InPlay(n), n # Root
  PROVE  Left(n) <= LeftOf(n) /\ LeftOf(n) <= Left(n \div 2) /\ Left(n) \in Nat /\ LeftOf(n) \in Nat
  <1>1. n \div 2 \in Node  BY Parent
  <1>2. PICK ll \in Nat, lh \in Nat, ul \in Nat, uh \in Nat :
          /\ ll = LeftLo(n) /\ lh = LeftHi(n)
          /\ ul = LeftLo(n \div 2) /\ uh = LeftHi(n \div 2)
    BY <1>1, Totals DEF SortInv, CountInv
  <1>3. PICK k \in Nat : k = NTotal[n]  BY Totals
  <1>4. PICK b \in Nat : b = Base(n)  BY <1>1, Totals DEF Base, Offset
  <1>5. PICK ta \in Int, de \in Int : ta = Taken(n) /\ de = Dest(n)
    BY <1>1 DEF Taken, Dest, SortInv, TypeInv, NodeRecord
  <1>6. ta <= de /\ de <= b + k - (ll + lh) /\ ta = b + k - LeftOf(n)
    BY <1>2, <1>3, <1>4, <1>5 DEF SortInv, CountInv, Left
  <1>7. LeftOf(n) = ul \/ LeftOf(n) = uh  BY <1>2 DEF LeftOf
  <1>8. Left(n) = ll + lh /\ Left(n \div 2) = ul + uh  BY <1>2 DEF Left
  <1>. QED BY <1>2, <1>3, <1>4, <1>5, <1>6, <1>7, <1>8

(* What the parent can read of a node, the node has sent.                   *)
LEMMA TakenLess ==
  ASSUME SortInv, NEW n \in Node, InPlay(n), n # Root, Taken(n) # Dest(n)
  PROVE  LeftOf(n) > 0 /\ Left(n) < NTotal[n]
  <1>0. n \div 2 \in Node  BY Parent
  <1>1. PICK l \in Nat, o \in Nat : l = Left(n) /\ o = LeftOf(n)  BY LeftUp
  <1>2. PICK k \in Nat : k = NTotal[n]  BY Totals
  <1>3. PICK b \in Nat : b = Base(n)  BY <1>0, Totals DEF Base, Offset
  <1>4. PICK ta \in Int, de \in Int : ta = Taken(n) /\ de = Dest(n)
    BY <1>0 DEF Taken, Dest, SortInv, TypeInv, NodeRecord
  <1>5. ta <= de /\ de <= b + k - l /\ ta = b + k - o
    BY <1>1, <1>2, <1>3, <1>4 DEF SortInv, CountInv
  <1>6. ta # de  BY <1>4
  <1>7. o <= k
    <2>1. NTotal[n] = IF IsLo(n) THEN Lo(n \div 2) ELSE Hi(n \div 2)  BY Totals
    <2>2. LeftLo(n \div 2) \in 0 .. Lo(n \div 2) /\ LeftHi(n \div 2) \in 0 .. Hi(n \div 2)
      BY <1>0 DEF SortInv, CountInv
    <2>3. Lo(n \div 2) \in Nat /\ Hi(n \div 2) \in Nat  BY <1>0, Totals
    <2>. QED BY <1>1, <1>2, <2>1, <2>2, <2>3 DEF LeftOf
  <1>8. ta < b + k  BY <1>5, <1>6
  <1>9. o > 0 /\ l < k  BY <1>5, <1>6, <1>7, <1>8
  <1>. QED BY <1>1, <1>2, <1>9

(* What a node can read is left of it.                                      *)
LEMMA AvailableLeft ==
  ASSUME SortInv, NEW n \in Node, InPlay(n)
  PROVE  /\ node[n].lo # node[n].end_lo =>
              LeftLo(n) > 0 /\ ~Unsorted(n) /\ (Split(n) => Left(2 * n) < NTotal[2 * n])
         /\ node[n].hi # node[n].end_hi =>
              LeftHi(n) > 0 /\ ~Unsorted(n) /\ (Split(n) => Left(2 * n + 1) < NTotal[2 * n + 1])
  <1>0. LeftLo(n) \in Nat /\ LeftHi(n) \in Nat  BY Totals DEF SortInv, CountInv
  <1>1. node[n].lo # node[n].end_lo \/ node[n].hi # node[n].end_hi => ~Unsorted(n)
    <2>1. ASSUME Unsorted(n)  PROVE node[n].lo = node[n].end_lo /\ node[n].hi = node[n].end_hi
      <3>1. node[n] = Initially(n)  BY <2>1 DEF SortInv, TreeInv
      <3>. QED BY <3>1 DEF Initially, MergeNode
    <2>. QED BY <2>1
  <1>2. node[n] \in NodeRecord  BY DEF SortInv, TypeInv
  <1>3. CASE ~Split(n)
    <2>1. ~Unsorted(n) => /\ node[n].end_lo - node[n].lo = LeftLo(n)
                          /\ node[n].end_hi - node[n].hi = LeftHi(n)
      BY <1>3 DEF SortInv, CountInv
    <2>2. PICK a \in Nat, b \in Nat : a = LeftLo(n) /\ b = LeftHi(n)  BY <1>0
    <2>3. PICK l \in Int, el \in Int, h \in Int, eh \in Int :
            l = node[n].lo /\ el = node[n].end_lo /\ h = node[n].hi /\ eh = node[n].end_hi
      BY <1>2 DEF NodeRecord
    <2>4. (l # el => a > 0) /\ (h # eh => b > 0)  BY <1>1, <2>1, <2>2, <2>3
    <2>. QED BY <1>1, <1>3, <2>2, <2>3, <2>4
  <1>4. CASE Split(n)
    <2>1. Threads[n] > 1  BY <1>4, NodeFacts DEF SortInv, TreeInv, Splits
    <2>2. /\ 2 * n \in Node /\ 2 * n + 1 \in Node /\ InPlay(2 * n) /\ InPlay(2 * n + 1)
          /\ 2 * n # Root /\ 2 * n + 1 # Root
      BY <1>4, <2>1, Children, InPlayFacts DEF SortInv
    <2>3. /\ Taken(2 * n) = node[n].lo /\ Dest(2 * n) = node[n].end_lo
          /\ Taken(2 * n + 1) = node[n].hi /\ Dest(2 * n + 1) = node[n].end_hi
          /\ LeftOf(2 * n) = LeftLo(n) /\ LeftOf(2 * n + 1) = LeftHi(n)
      BY <2>1, Children DEF Taken, Dest, LeftOf
    <2>4. node[n].lo # node[n].end_lo => LeftLo(n) > 0 /\ Left(2 * n) < NTotal[2 * n]
      BY <2>2, <2>3, TakenLess
    <2>5. node[n].hi # node[n].end_hi => LeftHi(n) > 0 /\ Left(2 * n + 1) < NTotal[2 * n + 1]
      BY <2>2, <2>3, TakenLess
    <2>. QED BY <1>1, <2>4, <2>5
  <1>. QED BY <1>3, <1>4

(* What is ready has lines left.                                            *)
LEMMA ReadyLeft ==
  ASSUME SortInv, NEW n \in Node, InPlay(n), Ready(n)
  PROVE  Left(n) > 0 /\ ~Unsorted(n)
  <1>1. LeftLo(n) \in Nat /\ LeftHi(n) \in Nat  BY Totals DEF SortInv, CountInv
  <1>2. node[n].lo # node[n].end_lo \/ node[n].hi # node[n].end_hi  BY DEF Ready
  <1>. QED BY <1>1, <1>2, AvailableLeft DEF Left

(* A leaf that is not yet sorted has all of its lines left.                 *)
LEMMA UnsortedLeft ==
  ASSUME SortInv, NEW n \in Node, Unsorted(n)
  PROVE  Left(n) = NTotal[n] /\ Left(n) > 0 /\ InPlay(n)
  <1>1. node[n] = Initially(n) /\ lock[n] = Free  BY DEF SortInv, TreeInv
  <1>2. LeftLo(n) = Lo(n) /\ LeftHi(n) = Hi(n)
    BY <1>1, Totals DEF LeftLo, LeftHi, Busy, Initially, MergeNode
  <1>3. InPlay(n)
    <2>1. PICK t \in Thread : Sorting(t) /\ at[t] = n  BY DEF Unsorted
    <2>2. pc[t] # "none" /\ at[t] # End  BY <2>1, NodeFacts DEF Sorting
    <2>. QED BY <2>1, <2>2 DEF SortInv, TreeInv
  <1>4. NTotal[n] >= 2  BY <1>3, InPlayFacts DEF SortInv
  <1>. QED BY <1>2, <1>3, <1>4, Totals DEF Left

(* If nothing is left of the root, nothing is left of any node.             *)
LEMMA NothingLeft ==
  ASSUME SortInv, Left(Root) = 0, NEW n \in Node, InPlay(n)
  PROVE  Left(n) = 0
  <1>. DEFINE A == { m \in 1 .. Bound : m \in Node /\ InPlay(m) => Left(m) = 0 }
  <1>1. Bound \in Nat /\ 1 \in A  BY SizeAssumption, NodeFacts DEF Bound, Root
  <1>2. ASSUME NEW m \in 2 .. Bound, m \div 2 \in A  PROVE m \in A
    <2>1. ASSUME m \in Node, InPlay(m)  PROVE Left(m) = 0
      <3>1. m # Root  BY DEF Root
      <3>2. m \div 2 \in Node /\ InPlay(m \div 2)  BY <2>1, <3>1, InPlayFacts DEF SortInv
      <3>3. Left(m \div 2) = 0  BY <1>2, <3>2
      <3>. QED BY <2>1, <3>1, <3>3, LeftUp
    <2>2. m \in 1 .. Bound  OBVIOUS
    <2>. QED BY <2>1, <2>2
  <1>. HIDE DEF A
  <1>3. \A m \in 1 .. Bound : m \in A  BY <1>1, <1>2, FromTheTop
  <1>. QED BY <1>3, NodeFacts DEF A

-----------------------------------------------------------------------------
(* Thread t inserts a node that is nowhere near the queue and has lines     *)
(* left, or MERGE_END when nothing is left.                                 *)
LEMMA InsertSafe ==
  ASSUME SortInv, NEW t \in Thread, NEW place \in {"parent", "unlock", "join"},
         NEW n \in Node \cup {End}, QueueInsert(t, n, place),
         UNCHANGED <<mem, lock, at, reg, joins>>,
         pc[t] \in {"check", "parent", "end"},
         place \in {"parent", "unlock"} <=> Holding(t),
         place = "parent" => pc[t] = "check",
         queue[n] = 0, \A u \in Thread : pc[u] = "lock" => at[u] # n,
         n # End => /\ InPlay(n) /\ ~Unsorted(n) /\ Left(n) > 0
                    /\ \A u \in Thread \ {t} : pc[u] \in {"merge", "rest", "check"} => at[u] # n,
         n = End => /\ Left(Root) = 0 /\ place # "parent"
                    /\ \A u \in Thread \ {t} : /\ pc[u] # "end"
                                               /\ pc[u] \in {"merge", "rest", "check", "parent"} => at[u] # Root
  PROVE  SortInv'
  <1>. USE DEF SortInv
  <1>0. queue' = [queue EXCEPT ![n] = 1]  BY DEF QueueInsert, TypeInv
  <1>1. SameButQueued(n) /\ node'[n].queued = TRUE
    BY QueuedChanges DEF QueueInsert
  <1>2. place \in Places /\ Moves(t, place)
    <2>1. place \in Places  BY DEF Places
    <2>. QED BY <2>1, GotoMoves DEF QueueInsert
  <1>3. TypeInv'
    BY <1>0, <1>1, <1>2 DEF TypeInv, SameButQueued, Moves
  <1>4. TreeInv'
    <2>1. at[t] # End => InPlay(at[t])  BY DEF TreeInv
    <2>2. ASSUME NEW m \in Node, ~InPlay(m) \/ Unsorted(m)
          PROVE node'[m] = node[m] /\ lock'[m] = lock[m] /\ queue'[m] = queue[m]
      <3>1. m # n  BY <2>2, NodeFacts
      <3>. QED BY <1>0, <1>1, <3>1 DEF SameButQueued
    <2>. QED BY <1>2, <2>1, <2>2, TreeKept DEF TypeInv
  <1>5. LockInv'  BY <1>2, LockKept
  <1>6. \A u \in Thread : Merging(u)' <=> Merging(u)
    BY <1>2 DEF Merging, Moves
  <1>7. SameLeft /\ SameEnds  BY <1>1, <1>6, LeftKept
  <1>8. \A m \in Node : Unsorted(m) => Unsorted(m)'
    BY <1>2 DEF Unsorted, Sorting, Moves
  <1>9. CountInv' /\ StartInv'  BY <1>7, <1>8, CountKept
  <1>10. \A m \in Node : Left(m)' = Left(m)  BY <1>7, SameLefts
  <1>11. QueueInv'
    <2>1. \A m \in Node \cup {End} : queue'[m] = IF m = n THEN 1 ELSE queue[m]
      BY <1>0 DEF TypeInv
    <2>2. \A u \in Thread : at[u] \in Node \cup {End}  BY DEF TypeInv
    <2>3. \A u \in Thread : pc'[u] = "lock" => pc[u] = "lock" /\ at[u] # n
      BY <1>2 DEF Moves
    <2>4. \A m \in Node \cup {End} : queue'[m] <= 1  BY <2>1 DEF QueueInv
    <2>5. \A u \in Thread : pc'[u] = "lock" => queue'[at[u]] = 0
      BY <2>1, <2>2, <2>3 DEF QueueInv
    <2>6. \A m \in Node : queue'[m] > 0 => node'[m].queued /\ Left(m)' > 0
      BY <1>1, <1>10, <2>1, NodeFacts DEF QueueInv, SameButQueued
    <2>7. ASSUME NEW u \in Thread, pc'[u] = "lock", at[u] # End
          PROVE  node'[at[u]].queued /\ Left(at[u])' > 0
      <3>1. PICK m \in Node : m = at[u]  BY <2>2, <2>7
      <3>2. node[m].queued /\ Left(m) > 0 /\ m # n  BY <2>3, <2>7, <3>1 DEF QueueInv
      <3>3. node'[m].queued /\ Left(m)' > 0  BY <1>1, <1>10, <3>2 DEF SameButQueued
      <3>4. at' = at  OBVIOUS
      <3>. QED BY <3>1, <3>3, <3>4 DEF Left, LeftLo, LeftHi, Busy
    <2>8. ASSUME NEW u \in Thread, pc'[u] \in {"merge", "rest", "check"}
          PROVE  ~node'[at[u]].queued
      <3>1. u # t /\ pc[u] \in {"merge", "rest", "check"}  BY <1>2, <2>8 DEF Moves
      <3>2. at[u] # n  BY <3>1 DEF LockInv, Holding
      <3>. QED BY <1>1, <2>2, <3>1, <3>2 DEF QueueInv, SameButQueued
    <2>. QED BY <2>3, <2>4, <2>5, <2>6, <2>7, <2>8 DEF QueueInv
  <1>12. EndInv'
    <2>1. CASE n # End
      <3>1. queue'[End] = queue[End]  BY <1>0, <2>1 DEF TypeInv
      <3>. QED BY <1>2, <1>10, <3>1, EndKept, NodeFacts
    <2>2. CASE n = End
      <3>1. \A u \in Thread : ~HasEnd(u)'
        BY <1>2, <2>2 DEF HasEnd, Moves
      <3>2. \A u \in Thread : pc'[u] # "end"
        BY <1>2, <2>2 DEF Moves
      <3>3. Left(Root)' = 0  BY <1>10, <2>2, NodeFacts
      <3>4. \A u \in Thread : pc'[u] \in {"merge", "rest", "check", "parent"} => at[u] # Root
        BY <1>2, <2>2 DEF Moves
      <3>. QED BY <3>1, <3>2, <3>3, <3>4 DEF EndInv
    <2>. QED BY <2>1, <2>2
  <1>. QED BY <1>3, <1>4, <1>5, <1>9, <1>11, <1>12

(* Those who hold the lock of a node are one thread.                        *)
LEMMA OneHolds ==
  ASSUME LockInv, NEW t \in Thread, NEW u \in Thread, Holding(t), Holding(u), at[t] = at[u]
  PROVE  t = u
  BY DEF LockInv

(* A node that is not marked is not in the queue, nor popped.               *)
LEMMA NotQueued ==
  ASSUME QueueInv, NEW n \in Node, queue \in [Node \cup {End} -> Nat], ~node[n].queued
  PROVE  queue[n] = 0 /\ \A u \in Thread : pc[u] = "lock" => at[u] # n
  <1>1. queue[n] \in Nat /\ n # End  BY NodeFacts
  <1>. QED BY <1>1 DEF QueueInv

(* MERGE_END is inserted again.                                             *)
LEMMA ReinsertEndSafe ==
  ASSUME SortInv, NEW t \in Thread, ReinsertEnd(t)
  PROVE  SortInv'
  <1>1. pc[t] = "end" /\ HasEnd(t)  BY DEF ReinsertEnd, HasEnd, SortInv, EndInv
  <1>2. queue[End] = 0 /\ \A u \in Thread : HasEnd(u) => u = t
    BY <1>1 DEF SortInv, EndInv
  <1>3. /\ Left(Root) = 0
        /\ \A u \in Thread : pc[u] \in {"merge", "rest", "check", "parent"} => at[u] # Root
    BY <1>1 DEF SortInv, EndInv, EndInserted
  <1>4. \A u \in Thread : pc[u] = "end" => u = t
    BY <1>2 DEF SortInv, EndInv, HasEnd
  <1>5. \A u \in Thread : pc[u] = "lock" => at[u] # End
    BY <1>1, <1>2 DEF HasEnd
  <1>. QED BY <1>1, <1>2, <1>3, <1>4, <1>5, InsertSafe DEF ReinsertEnd, Holding

(* A thread looks whether its node can go on.                               *)
LEMMA CheckSelfSafe ==
  ASSUME SortInv, NEW t \in Thread, CheckSelf(t)
  PROVE  SortInv'
  <1>. DEFINE n == at[t]
  <1>1. pc[t] = "check" /\ Holding(t) /\ ~Sorting(t) /\ ~Merging(t)
    BY DEF CheckSelf, Holding, Sorting, Merging
  <1>2. n \in Node /\ InPlay(n)
    <2>1. n # End  BY <1>1 DEF SortInv, LockInv
    <2>. QED BY <1>1, <2>1 DEF SortInv, TypeInv, TreeInv
  <1>3. CASE ~node[n].queued /\ Ready(n) /\ QueueInsert(t, n, "parent")
    <2>1. Left(n) > 0 /\ ~Unsorted(n)  BY <1>2, <1>3, ReadyLeft
    <2>2. queue[n] = 0 /\ \A u \in Thread : pc[u] = "lock" => at[u] # n
      BY <1>2, <1>3, NotQueued DEF SortInv, TypeInv
    <2>3. \A u \in Thread \ {t} : pc[u] \in {"merge", "rest", "check"} => at[u] # n
      BY <1>1, OneHolds DEF SortInv, Holding
    <2>4. n # End  BY <1>2, NodeFacts
    <2>5. UNCHANGED <<mem, lock, at, reg, joins>>  BY DEF CheckSelf
    <2>. HIDE DEF n
    <2>. QED BY <1>1, <1>2, <1>3, <2>1, <2>2, <2>3, <2>4, <2>5, InsertSafe
  <1>4. CASE Goto(t, "parent") /\ UNCHANGED <<queue, node>>
    <2>1. Moves(t, "parent")  BY <1>1, <1>4, GotoMoves DEF SortInv, Places
    <2>. DEFINE place == "parent"
    <2>2. place \in Places  BY DEF Places
    <2>3. UNCHANGED <<mem, lock, at, reg, joins, queue, node>>  BY <1>4 DEF CheckSelf
    <2>. USE DEF SortInv
    <2>4. TypeInv'  BY <2>1, <2>3 DEF TypeInv, Moves
    <2>5. TreeInv'  BY <1>1, <1>2, <2>1, <2>2, <2>3, TreeKept DEF TypeInv
    <2>6. LockInv'  BY <1>1, <2>1, <2>2, <2>3, LockKept
    <2>7. \A u \in Thread : Merging(u)' <=> Merging(u)
      BY <1>1, <2>1 DEF Merging, Moves
    <2>8. SameLeft /\ SameEnds  BY <2>3, <2>7, LeftKept
    <2>9. \A m \in Node : Unsorted(m) => Unsorted(m)'
      BY <1>1, <2>1, <2>3 DEF Unsorted, Sorting, Moves
    <2>10. CountInv' /\ StartInv'  BY <2>3, <2>8, <2>9, CountKept
    <2>11. QueueInv'  BY <2>1, <2>2, <2>3, <2>8, QueueKept
    <2>12. EndInv'
      <3>1. Left(Root)' = Left(Root)  BY <2>8, SameLefts, NodeFacts
      <3>. QED BY <1>1, <2>1, <2>2, <2>3, <3>1, EndKept
    <2>. QED BY <2>4, <2>5, <2>6, <2>10, <2>11, <2>12
  <1>. QED BY <1>3, <1>4 DEF CheckSelf, QueueCheckInsert

(* A thread looks whether the parent can go on, or all is done.             *)
LEMMA CheckParentSafe ==
  ASSUME SortInv, NEW t \in Thread, CheckParent(t)
  PROVE  SortInv'
  <1>. DEFINE n == at[t]
  <1>1. pc[t] = "parent" /\ Holding(t) /\ ~Sorting(t) /\ ~Merging(t)
    BY DEF CheckParent, Holding, Sorting, Merging
  <1>2. n \in Node /\ InPlay(n) /\ lock[n] = t
    <2>1. n # End /\ lock[n] = t  BY <1>1 DEF SortInv, LockInv
    <2>. QED BY <1>1, <2>1 DEF SortInv, TypeInv, TreeInv
  <1>3. UNCHANGED <<mem, lock, at, reg, joins>>  BY DEF CheckParent
  <1>4. CASE Goto(t, "unlock") /\ UNCHANGED <<queue, node>>
    <2>1. Moves(t, "unlock")  BY <1>1, <1>4, GotoMoves DEF SortInv, Places
    <2>2. Rests(t, "unlock")
      BY <1>3, <1>4, <2>1 DEF Rests, SortInv, TypeInv
    <2>. QED BY <1>1, <2>2, RestsSafe DEF Sorting, Holding, Merging, Places
  <1>5. CASE /\ n # Root /\ lock[n \div 2] = Free
             /\ ~node[n \div 2].queued /\ Ready(n \div 2) /\ QueueInsert(t, n \div 2, "unlock")
    <2>1. PICK up \in Node : up = n \div 2 /\ InPlay(up)
      BY <1>2, <1>5, InPlayFacts DEF SortInv
    <2>2. Left(up) > 0 /\ ~Unsorted(up)  BY <1>5, <2>1, ReadyLeft
    <2>3. queue[up] = 0 /\ \A u \in Thread : pc[u] = "lock" => at[u] # up
      BY <1>5, <2>1, NotQueued DEF SortInv, TypeInv
    <2>4. \A u \in Thread \ {t} : pc[u] \in {"merge", "rest", "check"} => at[u] # up
      BY <1>5, <2>1, NodeFacts DEF SortInv, LockInv, Holding
    <2>5. up # End  BY <2>1, NodeFacts
    <2>6. QueueInsert(t, up, "unlock")  BY <1>5, <2>1
    <2>. HIDE DEF n
    <2>. QED BY <1>1, <1>3, <2>1, <2>2, <2>3, <2>4, <2>5, <2>6, InsertSafe
  <1>6. CASE n = Root /\ node[n].nlo + node[n].nhi = 0 /\ QueueInsert(t, End, "unlock")
    <2>1. Left(Root) = 0
      <3>1. ~Busy(Root)  BY <1>1, <1>2, <1>6 DEF Busy
      <3>2. node[Root] \in NodeRecord  BY NodeFacts DEF SortInv, TypeInv
      <3>3. node[Root].nlo \in Int /\ node[Root].nhi \in Int  BY <3>2 DEF NodeRecord
      <3>. QED BY <1>6, <3>1, <3>3 DEF Left, LeftLo, LeftHi
    <2>2. ~EndInserted  BY <1>1, <1>6 DEF SortInv, EndInv
    <2>3. queue[End] = 0 /\ \A u \in Thread : ~HasEnd(u)
      BY <2>2 DEF EndInserted, SortInv, TypeInv
    <2>4. \A u \in Thread : pc[u] # "end"  BY <2>3 DEF HasEnd, SortInv, EndInv
    <2>5. \A u \in Thread : pc[u] = "lock" => at[u] # End  BY <2>3 DEF HasEnd
    <2>6. \A u \in Thread \ {t} : pc[u] \in {"merge", "rest", "check", "parent"} => at[u] # Root
      BY <1>1, <1>6, OneHolds DEF SortInv, Holding
    <2>. QED BY <1>1, <1>3, <1>6, <2>1, <2>3, <2>4, <2>5, <2>6, InsertSafe
  <1>. QED BY <1>4, <1>5, <1>6 DEF CheckParent, QueueCheckInsert

(* A thread takes a node from the queue, or waits for one.                  *)
LEMMA QueuePopSafe ==
  ASSUME SortInv, NEW t \in Thread, QueuePop(t)
  PROVE  SortInv'
  <1>1. pc[t] = "pop" /\ ~Holding(t) /\ ~Sorting(t) /\ ~Merging(t)
    BY DEF QueuePop, Holding, Sorting, Merging
  <1>2. CASE Goto(t, "wait") /\ UNCHANGED <<queue, at>>
    <2>1. Moves(t, "wait")  BY <1>1, <1>2, GotoMoves DEF SortInv, Places
    <2>2. Rests(t, "wait")
      BY <1>2, <2>1 DEF QueuePop, Rests, SortInv, TypeInv
    <2>. QED BY <1>1, <2>2, RestsSafe DEF Sorting, Holding, Merging, Places
  <1>3. CASE \E n \in DOMAIN queue :
               /\ queue[n] > 0
               /\ queue' = [queue EXCEPT ![n] = @ - 1]
               /\ at' = [at EXCEPT ![t] = n]
               /\ Goto(t, "lock")
    <2>. USE DEF SortInv
    <2>1. PICK n \in Node \cup {End} :
               /\ queue[n] > 0
               /\ queue' = [queue EXCEPT ![n] = @ - 1]
               /\ at' = [at EXCEPT ![t] = n]
               /\ Goto(t, "lock")
      BY <1>3 DEF TypeInv
    <2>2. queue[n] = 1 /\ queue' = [queue EXCEPT ![n] = 0]
      <3>1. queue[n] \in Nat /\ queue[n] <= 1  BY DEF TypeInv, QueueInv
      <3>2. queue[n] = 1 /\ queue[n] - 1 = 0  BY <2>1, <3>1
      <3>. QED BY <2>1, <3>2
    <2>3. UNCHANGED <<mem, node, lock, reg, joins>>  BY DEF QueuePop
    <2>4. "lock" \in Places /\ Moves(t, "lock")  BY <1>1, <2>1, GotoMoves DEF Places
    <2>. DEFINE place == "lock"
    <2>5. place \in Places /\ Moves(t, place)  BY <2>4
    <2>6. at'[t] = n /\ at' \in [Thread -> Node \cup {End}] /\ \A u \in Thread : u # t => at'[u] = at[u]
      BY <2>1 DEF TypeInv
    <2>7. \A m \in Node \cup {End} : queue'[m] = IF m = n THEN 0 ELSE queue[m]
      BY <2>2 DEF TypeInv
    <2>8. \A u \in Thread : at[u] \in Node \cup {End}  BY DEF TypeInv
    <2>9. TypeInv'  BY <2>2, <2>3, <2>4, <2>6 DEF TypeInv, Moves
    <2>10. n # End => InPlay(n) /\ ~Unsorted(n)
      <3>1. ASSUME n # End  PROVE InPlay(n) /\ ~Unsorted(n)
        <4>1. n \in Node  BY <3>1
        <4>. QED BY <2>2, <4>1 DEF TreeInv
      <3>. QED BY <3>1
    <2>11. TreeInv'
      <3>1. ASSUME NEW m \in Node, ~InPlay(m) \/ Unsorted(m)  PROVE m # n /\ queue'[m] = queue[m]
        BY <2>7, <2>10, <3>1, NodeFacts
      <3>2. \A u \in Thread : Sorting(u) => at[u] # n
        <4>1. ASSUME NEW u \in Thread, Sorting(u), at[u] = n  PROVE FALSE
          <5>1. n # End  BY <4>1 DEF TreeInv
          <5>2. Unsorted(n)  BY <4>1 DEF Unsorted
          <5>. QED BY <2>10, <5>1, <5>2
        <4>. QED BY <4>1
      <3>3. place \notin {"sortlines", "sort", "none"} /\ pc[t] # "none"  BY <1>1
      <3>. HIDE DEF place
      <3>. QED BY <2>3, <2>5, <2>6, <2>10, <3>1, <3>2, <3>3, TreeKept
    <2>12. LockInv'
      <3>1. place \in {"merge", "rest", "check", "parent", "unlock"} <=> Holding(t)  BY <1>1
      <3>2. ~Holding(t)  BY <1>1
      <3>. HIDE DEF place
      <3>. QED BY <2>3, <2>5, <2>6, <3>1, <3>2, LockKept
    <2>13. \A u \in Thread : Merging(u)' <=> Merging(u)
      BY <1>1, <2>4 DEF Merging, Moves
    <2>14. SameLeft /\ SameEnds  BY <2>3, <2>13, LeftKept
    <2>15. \A m \in Node : Unsorted(m) => Unsorted(m)'
      <3>1. \A u \in Thread : Sorting(u) => u # t /\ Sorting(u)' /\ at'[u] = at[u]
        BY <1>1, <2>4, <2>6 DEF Sorting, Moves
      <3>. QED BY <3>1 DEF Unsorted
    <2>16. CountInv' /\ StartInv'  BY <2>3, <2>14, <2>15, CountKept
    <2>17. \A m \in Node : Left(m)' = Left(m)  BY <2>14, SameLefts
    <2>18. QueueInv'
      <3>1. \A u \in Thread : pc'[u] = "lock" => (u = t /\ at'[u] = n) \/ (u # t /\ pc[u] = "lock" /\ at'[u] = at[u])
        BY <2>4, <2>6 DEF Moves
      <3>2. \A u \in Thread : pc[u] = "lock" => at[u] # n /\ queue[at[u]] = 0
        BY <2>2, <2>8 DEF QueueInv
      <3>3. \A u \in Thread : pc'[u] = "lock" => queue'[at'[u]] = 0
        BY <2>7, <2>8, <3>1, <3>2
      <3>4. \A u, v \in Thread : pc'[u] = "lock" /\ pc'[v] = "lock" /\ at'[u] = at'[v] => u = v
        BY <3>1, <3>2 DEF QueueInv
      <3>5. \A m \in Node \cup {End} : queue'[m] <= 1  BY <2>7 DEF QueueInv
      <3>6. \A m \in Node : queue'[m] > 0 => node'[m].queued /\ Left(m)' > 0
        BY <2>3, <2>7, <2>17 DEF QueueInv
      <3>7. ASSUME NEW u \in Thread, pc'[u] = "lock", at'[u] # End
            PROVE  node'[at'[u]].queued /\ Left(at[u])' > 0
        <4>1. PICK m \in Node : m = at'[u]  BY <2>6, <3>7
        <4>2. node[m].queued /\ Left(m) > 0
          <5>1. CASE m = n  BY <2>1, <5>1 DEF QueueInv
          <5>2. CASE m # n
            <6>1. pc[u] = "lock" /\ at[u] = m  BY <3>1, <3>7, <4>1, <5>2
            <6>. QED BY <3>7, <4>1, <6>1 DEF QueueInv
          <5>. QED BY <5>1, <5>2
        <4>3. Left(m)' > 0  BY <2>17, <4>2
        <4>. QED BY <2>3, <4>1, <4>2, <4>3 DEF Left, LeftLo, LeftHi, Busy
      <3>8. \A u \in Thread : pc'[u] \in {"merge", "rest", "check"} =>
              pc[u] \in {"merge", "rest", "check"} /\ at'[u] = at[u]
        BY <2>4, <2>6 DEF Moves
      <3>9. \A u \in Thread : pc'[u] \in {"merge", "rest", "check"} => ~node'[at'[u]].queued
        BY <2>3, <3>8 DEF QueueInv
      <3>. QED BY <3>3, <3>4, <3>5, <3>6, <3>7, <3>9 DEF QueueInv
    <2>19. EndInv'
      <3>1. Left(Root)' = Left(Root)  BY <2>17, NodeFacts
      <3>2. \A u \in Thread : pc'[u] \in {"merge", "rest", "check", "parent"} =>
              pc[u] \in {"merge", "rest", "check", "parent"} /\ at'[u] = at[u]
        BY <2>4, <2>6 DEF Moves
      <3>3. \A u \in Thread : pc'[u] = "end" => at'[u] = End
        BY <2>4, <2>6 DEF Moves, EndInv
      <3>4. CASE n # End
        <4>1. queue'[End] = queue[End]  BY <2>7, <3>4
        <4>2. \A u \in Thread : HasEnd(u)' => HasEnd(u)
          BY <2>4, <2>6, <3>4 DEF HasEnd, Moves
        <4>3. EndInserted' => EndInserted  BY <4>1, <4>2 DEF EndInserted
        <4>. QED BY <3>1, <3>2, <3>3, <4>1, <4>2, <4>3 DEF EndInv
      <3>5. CASE n = End
        <4>1. queue'[End] = 0 /\ queue[End] = 1  BY <2>2, <2>7, <3>5
        <4>2. \A u \in Thread : ~HasEnd(u)  BY <4>1 DEF EndInv
        <4>3. \A u \in Thread : HasEnd(u)' => u = t
          BY <2>4, <2>6, <4>2 DEF HasEnd, Moves
        <4>4. EndInserted  BY <4>1 DEF EndInserted
        <4>. QED BY <3>1, <3>2, <3>3, <4>1, <4>3, <4>4 DEF EndInv
      <3>. QED BY <3>4, <3>5
    <2>. QED BY <2>9, <2>11, <2>12, <2>16, <2>18, <2>19
  <1>. QED BY <1>2, <1>3 DEF QueuePop

(* A thread gives its lock back.                                            *)
LEMMA UnlockNodeSafe ==
  ASSUME SortInv, NEW t \in Thread, UnlockNode(t)
  PROVE  SortInv'
  <1>. USE DEF SortInv
  <1>. DEFINE place == "pop"
              n == at[t]
  <1>1. pc[t] = "unlock" /\ Holding(t) /\ ~Sorting(t) /\ ~Merging(t)
    BY DEF UnlockNode, Holding, Sorting, Merging
  <1>2. n \in Node /\ InPlay(n) /\ ~Unsorted(n) /\ lock[n] = t
    <2>1. n # End /\ lock[n] = t  BY <1>1 DEF LockInv
    <2>2. n \in Node  BY <2>1 DEF TypeInv
    <2>3. InPlay(n)  BY <1>1, <2>1 DEF TreeInv
    <2>4. ~Unsorted(n)  BY <2>1, <2>2, NodeFacts DEF TreeInv
    <2>. QED BY <2>1, <2>2, <2>3, <2>4
  <1>3. UNCHANGED <<mem, node, queue, reg, joins>>  BY DEF UnlockNode
  <1>4. Moves(t, "pop")  BY <1>1, GotoMoves DEF UnlockNode, Places
  <1>5. place \in Places /\ Moves(t, place)  BY <1>4 DEF Places
  <1>6. at'[t] = End /\ at' \in [Thread -> Node \cup {End}] /\ \A u \in Thread : u # t => at'[u] = at[u]
    BY DEF UnlockNode, TypeInv
  <1>7. /\ lock' \in [Node \cup {End} -> Thread \cup {Free}]
        /\ \A m \in Node \cup {End} : lock'[m] = IF m = n THEN Free ELSE lock[m]
    BY DEF UnlockNode, TypeInv
  <1>8. TypeInv'  BY <1>3, <1>4, <1>6, <1>7 DEF TypeInv, Moves
  <1>9. TreeInv'
    <2>1. ASSUME NEW m \in Node, ~InPlay(m) \/ Unsorted(m)  PROVE lock'[m] = lock[m]
      BY <1>2, <1>7, <2>1
    <2>2. place \notin {"sortlines", "sort", "none"} /\ pc[t] # "none"  BY <1>1
    <2>3. \A u \in Thread : Sorting(u) => at[u] # End  BY DEF TreeInv
    <2>. HIDE DEF place
    <2>. QED BY <1>3, <1>5, <1>6, <2>1, <2>2, <2>3, TreeKept
  <1>10. \A u \in Thread : Holding(u)' => Holding(u) /\ u # t
    BY <1>4 DEF Holding, Moves
  <1>11. \A u \in Thread : Holding(u) /\ u # t => Holding(u)' /\ at'[u] = at[u]
    BY <1>4, <1>6 DEF Holding, Moves
  <1>12. LockInv'
    <2>1. ASSUME NEW u \in Thread, Holding(u)'  PROVE at'[u] # End /\ lock'[at'[u]] = u
      <3>1. Holding(u) /\ u # t /\ at'[u] = at[u]  BY <1>10, <1>11, <2>1
      <3>2. at[u] # End /\ lock[at[u]] = u /\ at[u] \in Node  BY <3>1 DEF LockInv, TypeInv
      <3>3. at[u] # n  BY <1>2, <3>1, <3>2
      <3>. QED BY <1>7, <3>1, <3>2, <3>3
    <2>2. ASSUME NEW m \in Node, lock'[m] # Free  PROVE Holding(lock[m])' /\ at'[lock'[m]] = m
      <3>1. m # n /\ lock'[m] = lock[m] /\ lock[m] # Free  BY <1>7, <2>2
      <3>2. PICK u \in Thread : u = lock[m]  BY <3>1 DEF TypeInv
      <3>3. Holding(u) /\ at[u] = m /\ u # t  BY <3>1, <3>2 DEF LockInv
      <3>4. Holding(u)' /\ at'[u] = m  BY <1>11, <3>3
      <3>. QED BY <3>1, <3>2, <3>4 DEF Holding
    <2>. QED BY <2>1, <2>2 DEF LockInv
  <1>13. SameLeft /\ SameEnds
    <2>1. \A m \in Node : lock[m] # Free => lock[m] \in Thread  BY DEF TypeInv
    <2>2. \A u \in Thread : Merging(u)' <=> Merging(u)
      BY <1>1, <1>4 DEF Merging, Moves
    <2>3. ASSUME NEW m \in Node
          PROVE  (Busy(m)' <=> Busy(m)) /\ (Busy(m) => lock'[m] = lock[m])
      <3>1. CASE m = n  BY <1>1, <1>2, <1>7, <3>1 DEF Busy
      <3>2. CASE m # n
        <4>1. lock'[m] = lock[m]  BY <1>7, <3>2
        <4>. QED BY <2>1, <2>2, <4>1 DEF Busy, Merging
      <3>. QED BY <3>1, <3>2
    <2>. QED BY <1>3, <2>3 DEF SameLeft, SameEnds, LeftLo, LeftHi, Sent, Dest
  <1>14. \A m \in Node : Unsorted(m) => Unsorted(m)'
    <2>1. \A u \in Thread : Sorting(u) => u # t /\ Sorting(u)' /\ at'[u] = at[u]
      BY <1>1, <1>4, <1>6 DEF Sorting, Moves
    <2>. QED BY <2>1 DEF Unsorted
  <1>15. CountInv' /\ StartInv'  BY <1>3, <1>13, <1>14, CountKept
  <1>16. QueueInv'
    <2>1. place \notin {"lock", "merge", "rest", "check"}  OBVIOUS
    <2>. HIDE DEF place
    <2>. QED BY <1>3, <1>5, <1>6, <1>13, <2>1, QueueKept
  <1>17. EndInv'
    <2>1. Left(Root)' = Left(Root)  BY <1>13, SameLefts, NodeFacts
    <2>2. place \notin {"lock", "end", "merge", "rest", "check", "parent"}  OBVIOUS
    <2>. HIDE DEF place
    <2>. QED BY <1>3, <1>5, <1>6, <2>1, <2>2, EndKept
  <1>. QED BY <1>8, <1>9, <1>12, <1>15, <1>16, <1>17

(* A thread gets the lock of the node that it has popped.                   *)
LEMMA LockNodeSafe ==
  ASSUME SortInv, NEW t \in Thread, LockNode(t)
  PROVE  SortInv'
  <1>. USE DEF SortInv
  <1>. DEFINE n == at[t]
  <1>1. pc[t] = "lock" /\ ~Holding(t) /\ ~Sorting(t) /\ ~Merging(t) /\ lock[n] = Free
    BY DEF LockNode, Holding, Sorting, Merging
  <1>2. n \in Node \cup {End}  BY DEF TypeInv
  <1>3. SameButQueued(n) /\ node'[n].queued = FALSE
    BY <1>2, QueuedChanges DEF LockNode
  <1>4. UNCHANGED <<mem, queue, at, joins>>  BY DEF LockNode
  <1>5. n # End => InPlay(n) /\ ~Unsorted(n)
    <2>1. ASSUME n # End  PROVE InPlay(n) /\ ~Unsorted(n)
      <3>1. InPlay(n)  BY <1>1, <2>1 DEF TreeInv
      <3>2. ASSUME Unsorted(n)  PROVE FALSE
        <4>1. PICK u \in Thread : Sorting(u) /\ at[u] = n  BY <3>2 DEF Unsorted
        <4>2. t = u  BY <4>1 DEF TreeInv
        <4>. QED BY <1>1, <4>1, <4>2
      <3>. QED BY <3>1, <3>2
    <2>. QED BY <2>1
  <1>6. \A u \in Thread : at[u] \in Node \cup {End}  BY DEF TypeInv
  <1>7. queue[n] = 0 /\ \A u \in Thread : pc[u] = "lock" /\ at[u] = n => u = t
    BY <1>1 DEF QueueInv
  <1>8. CASE n = End /\ Goto(t, "end") /\ UNCHANGED <<lock, reg>>
    <2>. DEFINE place == "end"
    <2>1. Moves(t, "end")  BY <1>1, <1>8, GotoMoves DEF Places
    <2>2. place \in Places /\ Moves(t, place)  BY <2>1 DEF Places
    <2>3. TypeInv'  BY <1>3, <1>4, <1>8, <2>1 DEF TypeInv, SameButQueued, Moves
    <2>4. \A m \in Node : node'[m] = node[m]  BY <1>3, <1>8, NodeFacts DEF SameButQueued
    <2>5. place \notin {"sortlines", "sort", "none", "lock", "merge", "rest", "check"} /\ pc[t] # "none"
          /\ ~(place \in {"merge", "rest", "check", "parent", "unlock"})
      BY <1>1
    <2>6. TreeInv'
      <3>. HIDE DEF place
      <3>. QED BY <1>4, <1>8, <2>2, <2>4, <2>5, TreeKept DEF TypeInv
    <2>7. LockInv'
      <3>. HIDE DEF place
      <3>. QED BY <1>1, <1>4, <1>8, <2>2, <2>5, LockKept
    <2>8. \A u \in Thread : Merging(u)' <=> Merging(u)
      BY <1>1, <2>1 DEF Merging, Moves
    <2>9. SameLeft /\ SameEnds  BY <1>3, <1>8, <2>8, LeftKept
    <2>10. \A m \in Node : Unsorted(m) => Unsorted(m)'
      BY <1>1, <1>4, <2>1 DEF Unsorted, Sorting, Moves
    <2>11. CountInv' /\ StartInv'  BY <1>4, <2>9, <2>10, CountKept
    <2>12. \A m \in Node : Left(m)' = Left(m)  BY <2>9, SameLefts
    <2>13. QueueInv'
      <3>1. \A u \in Thread : pc'[u] = "lock" => u # t /\ pc[u] = "lock" /\ at'[u] # n
        BY <1>4, <1>7, <2>1 DEF Moves
      <3>2. \A u \in Thread : pc'[u] \in {"merge", "rest", "check"} =>
               pc[u] \in {"merge", "rest", "check"} /\ at[u] # End
        BY <2>1 DEF Moves, LockInv, Holding
      <3>3. ASSUME NEW u \in Thread, pc'[u] = "lock", at[u] # End
            PROVE  node'[at[u]].queued /\ Left(at[u])' > 0
        <4>1. PICK m \in Node : m = at[u]  BY <1>6, <3>3
        <4>2. node[m].queued /\ Left(m) > 0  BY <3>1, <3>3, <4>1 DEF QueueInv
        <4>3. node'[m].queued /\ Left(m)' > 0  BY <2>4, <2>12, <4>2
        <4>4. at' = at  BY <1>4
        <4>. QED BY <4>1, <4>3, <4>4 DEF Left, LeftLo, LeftHi, Busy
      <3>4. \A m \in Node : queue'[m] > 0 => node'[m].queued /\ Left(m)' > 0
        BY <1>4, <2>4, <2>12 DEF QueueInv
      <3>5. \A u \in Thread : pc'[u] \in {"merge", "rest", "check"} => ~node'[at'[u]].queued
        BY <1>4, <1>6, <2>4, <3>2 DEF QueueInv
      <3>6. at' = at /\ queue' = queue  BY <1>4
      <3>. QED BY <3>1, <3>3, <3>4, <3>5, <3>6 DEF QueueInv
    <2>14. EndInv'
      <3>1. HasEnd(t) /\ EndInserted  BY <1>1, <1>8 DEF HasEnd, EndInserted
      <3>2. \A u \in Thread : HasEnd(u)' => HasEnd(u)
        BY <1>1, <1>4, <1>8, <2>1 DEF HasEnd, Moves
      <3>3. Left(Root)' = Left(Root)  BY <2>12, NodeFacts
      <3>4. \A u \in Thread : pc'[u] = "end" => at'[u] = End
        BY <1>4, <1>8, <2>1 DEF Moves, EndInv
      <3>5. \A u \in Thread : pc'[u] \in {"merge", "rest", "check", "parent"} =>
              pc[u] \in {"merge", "rest", "check", "parent"} /\ at'[u] = at[u]
        BY <1>4, <2>1 DEF Moves
      <3>6. queue' = queue  BY <1>4
      <3>. QED BY <3>1, <3>2, <3>3, <3>4, <3>5, <3>6 DEF EndInv
    <2>. QED BY <2>3, <2>6, <2>7, <2>11, <2>13, <2>14
  <1>9. CASE /\ n # End
             /\ lock' = [lock EXCEPT ![n] = t]
             /\ reg' = [reg EXCEPT ![t] =
                     [lo |-> node[n].lo, hi |-> node[n].hi,
                      dest |-> IF n = Root THEN 0 ELSE Dest(n),
                      to_merge |-> MaxMerge[Level[n]]]]
             /\ Goto(t, "merge")
    <2>. DEFINE place == "merge"
    <2>0. n \in Node /\ n # End  BY <1>2, <1>9
    <2>1. Moves(t, "merge")  BY <1>1, <1>9, GotoMoves DEF Places
    <2>2. place \in Places /\ Moves(t, place)  BY <2>1 DEF Places
    <2>3. /\ reg' \in [Thread -> RegRecord]
          /\ reg'[t].lo = node[n].lo /\ reg'[t].hi = node[n].hi
          /\ n # Root => reg'[t].dest = Dest(n)
          /\ \A u \in Thread : u # t => reg'[u] = reg[u]
      <3>1. PICK d : d = IF n = Root THEN 0 ELSE Dest(n)  OBVIOUS
      <3>2. d \in Int
        <4>1. CASE n = Root  BY <3>1, <4>1
        <4>2. CASE n # Root
          <5>1. n \div 2 \in Node  BY <2>0, <4>2, Parent
          <5>2. node[n \div 2] \in NodeRecord  BY <5>1 DEF TypeInv
          <5>. QED BY <3>1, <4>2, <5>2 DEF Dest, NodeRecord
        <4>. QED BY <4>1, <4>2
      <3>3. node[n] \in NodeRecord  BY <2>0 DEF TypeInv
      <3>4. MaxMerge[Level[n]] \in Nat  BY <2>0, MergeAssumption
      <3>5. PICK r : r = [lo |-> node[n].lo, hi |-> node[n].hi, dest |-> d, to_merge |-> MaxMerge[Level[n]]]
        OBVIOUS
      <3>6. r \in RegRecord /\ r.lo = node[n].lo /\ r.hi = node[n].hi /\ r.dest = d
        BY <3>2, <3>3, <3>4, <3>5 DEF RegRecord, NodeRecord
      <3>7. reg' = [reg EXCEPT ![t] = r]  BY <1>9, <3>1, <3>5
      <3>. QED BY <3>1, <3>6, <3>7 DEF TypeInv
    <2>4. /\ lock' \in [Node \cup {End} -> Thread \cup {Free}]
          /\ \A m \in Node \cup {End} : lock'[m] = IF m = n THEN t ELSE lock[m]
      BY <1>2, <1>9 DEF TypeInv
    <2>5. TypeInv'  BY <1>3, <1>4, <2>1, <2>3, <2>4 DEF TypeInv, SameButQueued, Moves
    <2>6. TreeInv'
      <3>1. ASSUME NEW m \in Node, ~InPlay(m) \/ Unsorted(m)
            PROVE  node'[m] = node[m] /\ lock'[m] = lock[m]
        <4>1. m # n  BY <1>5, <2>0, <3>1
        <4>. QED BY <1>3, <2>4, <4>1 DEF SameButQueued
      <3>2. place \notin {"sortlines", "sort", "none"} /\ pc[t] # "none"  BY <1>1
      <3>. HIDE DEF place
      <3>. QED BY <1>4, <1>5, <2>2, <3>1, <3>2, TreeKept DEF TypeInv
    <2>7. LockInv'
      <3>1. \A u \in Thread : u # t => (Holding(u)' <=> Holding(u)) /\ (Holding(u) => at[u] # n)
        <4>1. \A u \in Thread : u # t => (Holding(u)' <=> Holding(u))
          BY <2>1 DEF Holding, Moves
        <4>2. \A u \in Thread : Holding(u) => at[u] # n  BY <1>1, NodeFacts DEF LockInv
        <4>. QED BY <4>1, <4>2
      <3>2. ASSUME NEW u \in Thread, Holding(u)'  PROVE at[u] # End /\ lock'[at[u]] = u
        <4>1. CASE u = t  BY <2>0, <2>4, <4>1
        <4>2. CASE u # t  BY <1>6, <2>4, <3>1, <3>2, <4>2 DEF LockInv
        <4>. QED BY <4>1, <4>2
      <3>3. ASSUME NEW m \in Node, lock'[m] # Free  PROVE Holding(lock[m])' /\ at'[lock'[m]] = m
        <4>1. PICK u \in Thread : u = lock'[m]  BY <2>4, <3>3
        <4>2. Holding(u)' /\ at'[u] = m
          <5>1. CASE m = n  BY <1>4, <2>1, <2>4, <4>1, <5>1 DEF Holding, Moves
          <5>2. CASE m # n
            <6>1. lock[m] = u  BY <2>4, <4>1, <5>2
            <6>2. Holding(u) /\ at[u] = m  BY <6>1, NodeFacts DEF LockInv
            <6>3. u # t  BY <5>2, <6>2
            <6>. QED BY <1>4, <3>1, <6>2, <6>3
          <5>. QED BY <5>1, <5>2
        <4>. QED BY <4>1, <4>2 DEF Holding
      <3>. QED BY <1>4, <3>2, <3>3 DEF LockInv
    <2>8. SameLeft /\ SameEnds
      <3>1. \A m \in Node : lock[m] # Free => lock[m] \in Thread /\ lock[m] # t
        BY <1>1 DEF TypeInv, LockInv
      <3>2. \A u \in Thread : u # t => (Merging(u)' <=> Merging(u))
        BY <2>1 DEF Merging, Moves
      <3>3. Merging(t)'  BY <2>1 DEF Merging, Moves
      <3>4. SameEnds /\ \A m \in Node : node'[m].nlo = node[m].nlo /\ node'[m].nhi = node[m].nhi
        BY <1>3 DEF SameButQueued, SameEnds
      <3>5. ASSUME NEW m \in Node, m # n
            PROVE  /\ Busy(m)' <=> Busy(m)
                   /\ Busy(m) => lock'[m] = lock[m] /\ reg'[lock[m]] = reg[lock[m]]
        <4>1. lock'[m] = lock[m]  BY <2>4, <3>5
        <4>2. CASE lock[m] = Free  BY <4>1, <4>2 DEF Busy
        <4>3. CASE lock[m] # Free
          <5>1. PICK u \in Thread : u = lock[m] /\ u # t  BY <3>1, <4>3
          <5>2. Merging(u)' <=> Merging(u)  BY <3>2, <5>1
          <5>. QED BY <2>3, <4>1, <4>3, <5>1, <5>2 DEF Busy, Merging
        <4>. QED BY <4>2, <4>3
      <3>0. PICK k \in Node : k = n  BY <2>0
      <3>6. ~Busy(k) /\ Busy(k)' /\ lock'[k] = t
        <4>1. lock'[k] = t /\ t # Free /\ lock[k] = Free  BY <1>1, <2>0, <2>4, <3>0, NodeFacts
        <4>. QED BY <3>3, <4>1 DEF Busy, Merging
      <3>7. \A m \in Node : m # Root => Dest(m)' = Dest(m)
        BY <3>4, Parent DEF Dest, SameEnds
      <3>8. ASSUME NEW m \in Node
            PROVE  LeftLo(m)' = LeftLo(m) /\ LeftHi(m)' = LeftHi(m) /\ (m # Root => Sent(m)' = Sent(m))
        <4>1. CASE m # n
          <5>1. node'[m].lo = node[m].lo /\ node'[m].hi = node[m].hi  BY <3>4 DEF SameEnds
          <5>. QED BY <3>4, <3>5, <3>7, <4>1, <5>1 DEF LeftLo, LeftHi, Sent
        <4>2. CASE m = n
          <5>0. m = k  BY <3>0, <4>2
          <5>1. node[k] \in NodeRecord  BY DEF TypeInv
          <5>2. node'[k].lo = node[k].lo /\ node'[k].hi = node[k].hi  BY <3>4 DEF SameEnds
          <5>3. /\ node[k].lo - node[k].lo = 0 /\ node[k].hi - node[k].hi = 0
                /\ node[k].nlo - 0 = node[k].nlo /\ node[k].nhi - 0 = node[k].nhi
            BY <5>1 DEF NodeRecord
          <5>4. LeftLo(k)' = node[k].nlo - (node[k].lo - node[k].lo)
            BY <2>3, <3>0, <3>4, <3>6, <5>2 DEF LeftLo
          <5>5. LeftHi(k)' = node[k].nhi - (node[k].hi - node[k].hi)
            BY <2>3, <3>0, <3>4, <3>6, <5>2 DEF LeftHi
          <5>6. LeftLo(k) = node[k].nlo - 0 /\ LeftHi(k) = node[k].nhi - 0
            BY <3>6, <5>3 DEF LeftLo, LeftHi
          <5>7. k # Root => Sent(k)' = Sent(k)  BY <2>3, <3>0, <3>6 DEF Sent
          <5>. QED BY <5>0, <5>3, <5>4, <5>5, <5>6, <5>7
        <4>. QED BY <4>1, <4>2
      <3>. QED BY <3>4, <3>8 DEF SameLeft
    <2>9. \A m \in Node : Unsorted(m) => Unsorted(m)'
      BY <1>1, <1>4, <2>1 DEF Unsorted, Sorting, Moves
    <2>10. CountInv' /\ StartInv'  BY <1>4, <2>8, <2>9, CountKept
    <2>11. \A m \in Node : Left(m)' = Left(m)  BY <2>8, SameLefts
    <2>12. QueueInv'
      <3>1. \A u \in Thread : pc'[u] = "lock" => u # t /\ pc[u] = "lock" /\ at'[u] # n
        BY <1>4, <1>7, <2>1 DEF Moves
      <3>2. ASSUME NEW u \in Thread, pc'[u] \in {"merge", "rest", "check"}  PROVE ~node'[at[u]].queued
        <4>1. CASE at[u] = n  BY <1>3, <4>1
        <4>2. CASE at[u] # n
          <5>1. pc[u] \in {"merge", "rest", "check"}  BY <2>1, <3>2, <4>2 DEF Moves
          <5>. QED BY <1>3, <1>6, <4>2, <5>1 DEF QueueInv, SameButQueued
        <4>. QED BY <4>1, <4>2
      <3>3. ASSUME NEW u \in Thread, pc'[u] = "lock", at[u] # End
            PROVE  node'[at[u]].queued /\ Left(at[u])' > 0
        <4>1. PICK m \in Node : m = at[u] /\ m # n  BY <1>4, <1>6, <3>1, <3>3
        <4>2. node[m].queued /\ Left(m) > 0  BY <3>1, <3>3, <4>1 DEF QueueInv
        <4>3. node'[m].queued /\ Left(m)' > 0  BY <1>3, <2>11, <4>1, <4>2 DEF SameButQueued
        <4>4. at' = at  BY <1>4
        <4>. QED BY <4>1, <4>3, <4>4 DEF Left, LeftLo, LeftHi, Busy
      <3>4. ASSUME NEW m \in Node, queue'[m] > 0  PROVE node'[m].queued /\ Left(m)' > 0
        <4>1. m # n /\ queue[m] > 0  BY <1>4, <1>7, <3>4
        <4>. QED BY <1>3, <2>11, <4>1 DEF QueueInv, SameButQueued
      <3>5. at' = at /\ queue' = queue  BY <1>4
      <3>. QED BY <3>1, <3>2, <3>3, <3>4, <3>5 DEF QueueInv
    <2>13. EndInv'
      <3>1. \A u \in Thread : HasEnd(u)' => HasEnd(u)
        BY <1>4, <2>1 DEF HasEnd, Moves
      <3>2. queue' = queue  BY <1>4
      <3>3. EndInserted' => EndInserted  BY <3>1, <3>2 DEF EndInserted
      <3>4. Left(Root)' = Left(Root)  BY <2>11, NodeFacts
      <3>5. \A u \in Thread : pc'[u] = "end" => at'[u] = End
        BY <1>4, <2>1 DEF Moves, EndInv
      <3>6. EndInserted => at[t] # Root
        BY <1>1, <2>0 DEF EndInv, QueueInv
      <3>7. EndInserted => \A u \in Thread : pc'[u] \in {"merge", "rest", "check", "parent"} => at'[u] # Root
        BY <1>4, <2>1, <3>6 DEF Moves, EndInv
      <3>. QED BY <3>1, <3>2, <3>3, <3>4, <3>5, <3>7 DEF EndInv
    <2>. QED BY <2>5, <2>6, <2>7, <2>10, <2>12, <2>13
  <1>. QED BY <1>8, <1>9 DEF LockNode

-----------------------------------------------------------------------------
(* A node that nobody has touched has all of its lines left.                *)
LEMMA UntouchedLeft ==
  ASSUME NEW n \in Node, node[n] = Initially(n), lock[n] = Free
  PROVE  ~Busy(n) /\ LeftLo(n) = Lo(n) /\ LeftHi(n) = Hi(n) /\ Left(n) = NTotal[n]
  BY Totals DEF LeftLo, LeftHi, Left, Busy, Initially, MergeNode

(* A thread gives one child of its node to a new thread and takes the other.*)
LEMMA CreateThreadSafe ==
  ASSUME SortInv, NEW t \in Thread, CreateThread(t)
  PROVE  SortInv'
  <1>. USE DEF SortInv
  <1>1. pc[t] = "sortlines" /\ Sorting(t)  BY DEF CreateThread, Sorting
  <1>2. PICK n \in Node : n = at[t] /\ Unsorted(n) /\ Splits(n)
    <2>1. at[t] # End  BY <1>1 DEF TreeInv
    <2>. QED BY <1>1, <2>1 DEF TypeInv, Unsorted, CreateThread
  <1>3. Threads[n] > 1 /\ n \in Nat  BY <1>2, NodeFacts DEF Splits
  <1>4. PICK c \in Node, d \in Node : c = 2 * n /\ d = 2 * n + 1  BY <1>3, Children
  <1>5. /\ c \in Thread /\ d \notin Thread /\ c # Root /\ d # Root /\ c # d /\ c # n /\ d # n
        /\ c \div 2 = n /\ d \div 2 = n /\ IsLo(c) /\ ~IsLo(d) /\ c # End /\ d # End
    BY <1>3, <1>4, Children, NodeFacts DEF Thread
  <1>6. node[n] = Initially(n) /\ lock[n] = Free /\ queue[n] = 0  BY <1>2 DEF TreeInv
  <1>7. ~Split(n)  BY <1>2, <1>3 DEF TreeInv
  <1>8. ~InPlay(c) /\ ~InPlay(d)  BY <1>5, <1>7 DEF InPlay
  <1>9. pc[c] = "none" /\ at[c] = c /\ c # t
    BY <1>1, <1>5, <1>8 DEF TreeInv
  <1>10. UNCHANGED <<mem, node, lock, queue, reg>>  BY DEF CreateThread
  <1>11. /\ pc' \in [Thread -> Places]
         /\ \A u \in Thread : pc'[u] = IF u = c THEN "sortlines" ELSE pc[u]
    <2>1. pc' = [pc EXCEPT ![c] = "sortlines"]  BY <1>2, <1>4 DEF CreateThread
    <2>2. "sortlines" \in Places  BY DEF Places
    <2>. QED BY <2>1, <2>2 DEF TypeInv
  <1>12. /\ at' \in [Thread -> Node \cup {End}]
         /\ \A u \in Thread : at'[u] = IF u = t THEN d ELSE at[u]
    <2>1. at' = [at EXCEPT ![t] = d]  BY <1>2, <1>4 DEF CreateThread
    <2>. QED BY <2>1 DEF TypeInv
  <1>13. /\ joins' \in [Thread -> SUBSET Nat]
         /\ \A u \in Thread : joins'[u] = IF u = t THEN joins[u] \cup {c} ELSE joins[u]
    <2>1. joins' = [joins EXCEPT ![t] = @ \cup {c}]  BY <1>2, <1>4 DEF CreateThread
    <2>2. c \in Nat  BY NodeFacts
    <2>. QED BY <2>1, <2>2 DEF TypeInv
  <1>14. TypeInv'  BY <1>10, <1>11, <1>12, <1>13 DEF TypeInv
  <1>15. \A m \in Nat : Split(m)' <=> Split(m) \/ m = n
    <2>1. ASSUME NEW m \in Nat  PROVE Split(m)' <=> Split(m) \/ m = n
      <3>1. 2 * m = c <=> m = n  BY <1>3, <1>4
      <3>. QED BY <1>13, <3>1 DEF Split
    <2>. QED BY <2>1
  <1>16. \A m \in Node : InPlay(m)' <=> InPlay(m) \/ m \in {c, d}
    <2>1. ASSUME NEW m \in Node  PROVE InPlay(m)' <=> InPlay(m) \/ m \in {c, d}
      <3>1. CASE m = Root  BY <1>5, <3>1 DEF InPlay
      <3>2. CASE m # Root
        <4>1. m \div 2 \in Nat  BY <3>2, Parent, NodeFacts
        <4>2. m \div 2 = n <=> m \in {c, d}  BY <1>4, <1>5, <3>2, Parent
        <4>. QED BY <1>15, <3>2, <4>1, <4>2 DEF InPlay
      <3>. QED BY <3>1, <3>2
    <2>. QED BY <2>1
  <1>17. \A u \in Thread : u # t /\ pc[u] # "none" => at[u] \notin {c, d, n}
    <2>1. ASSUME NEW u \in Thread, u # t, pc[u] # "none", at[u] \in {c, d, n}  PROVE FALSE
      <3>1. at[u] # n  BY <1>1, <1>2, <2>1 DEF TreeInv
      <3>2. InPlay(at[u])  BY <1>5, <2>1, <3>1 DEF TreeInv
      <3>. QED BY <1>8, <2>1, <3>1, <3>2
    <2>. QED BY <2>1
  <1>18. \A u \in Thread : u \notin {t, c} => (Sorting(u)' <=> Sorting(u)) /\ at'[u] = at[u]
    BY <1>11, <1>12 DEF Sorting
  <1>19. Sorting(t)' /\ Sorting(c)' /\ at'[t] = d /\ at'[c] = c
    <2>1. pc'[t] = "sortlines" /\ pc'[c] = "sortlines"
      BY <1>1, <1>5, <1>9, <1>11 DEF CreateThread
    <2>2. at'[t] = d /\ at'[c] = c  BY <1>5, <1>9, <1>12
    <2>. QED BY <2>1, <2>2 DEF Sorting
  <1>20. \A m \in Node : Unsorted(m)' <=> m \in {c, d} \/ (Unsorted(m) /\ m # n)
    <2>1. \A m \in Node : Unsorted(m)' => m \in {c, d} \/ (Unsorted(m) /\ m # n)
      <3>1. ASSUME NEW m \in Node, NEW u \in Thread, Sorting(u)', at'[u] = m
            PROVE  m \in {c, d} \/ (Unsorted(m) /\ m # n)
        <4>1. CASE u \in {t, c}  BY <1>19, <3>1, <4>1
        <4>2. CASE u \notin {t, c}
          <5>1. Sorting(u) /\ at[u] = m  BY <1>18, <3>1, <4>2
          <5>2. m # n  BY <1>17, <4>2, <5>1 DEF Sorting
          <5>. QED BY <5>1, <5>2 DEF Unsorted
        <4>. QED BY <4>1, <4>2
      <3>. QED BY <3>1 DEF Unsorted
    <2>2. ASSUME NEW m \in Node, m \in {c, d}  PROVE Unsorted(m)'
      <3>1. \E u \in Thread : Sorting(u)' /\ at'[u] = m  BY <1>5, <1>19, <2>2
      <3>. QED BY <3>1 DEF Unsorted
    <2>3. ASSUME NEW m \in Node, Unsorted(m), m # n  PROVE Unsorted(m)'
      <3>1. PICK u \in Thread : Sorting(u) /\ at[u] = m  BY <2>3 DEF Unsorted
      <3>2. u \notin {t, c}  BY <1>2, <1>9, <2>3, <3>1 DEF Sorting
      <3>. QED BY <1>18, <3>1, <3>2 DEF Unsorted
    <2>. QED BY <2>1, <2>2, <2>3
  <1>21. TreeInv'
    <2>1. ASSUME NEW u \in Thread, pc'[u] = "none"  PROVE at'[u] = u /\ ~InPlay(u)'
      <3>1. pc[u] = "none" /\ u # c /\ u # t /\ u # d  BY <1>1, <1>5, <1>11, <2>1
      <3>2. u \in Node  BY NodeFacts
      <3>. QED BY <1>12, <1>16, <3>1, <3>2 DEF TreeInv
    <2>2. ASSUME NEW u \in Thread, pc'[u] # "none"
          PROVE  InPlay(u)' /\ (at'[u] # End => InPlay(at[u])')
      <3>1. u \in Node  BY NodeFacts
      <3>2. InPlay(u)'
        <4>1. u = c \/ InPlay(u)  BY <1>11, <2>2 DEF TreeInv
        <4>. QED BY <1>16, <3>1, <4>1
      <3>3. ASSUME at'[u] # End  PROVE InPlay(at[u])'
        <4>1. PICK m \in Node : m = at'[u]  BY <1>12, <3>3
        <4>2. m \in {c, d} \/ InPlay(m)
          <5>1. CASE u \in {t, c}  BY <1>19, <4>1, <5>1
          <5>2. CASE u \notin {t, c}
            <6>1. pc[u] # "none" /\ at[u] = m  BY <1>11, <1>12, <2>2, <4>1, <5>2
            <6>. QED BY <3>3, <4>1, <6>1 DEF TreeInv
          <5>. QED BY <5>1, <5>2
        <4>3. InPlay(m)'  BY <1>16, <4>2
        <4>. QED BY <4>1, <4>3 DEF InPlay, Split
      <3>. QED BY <3>2, <3>3
    <2>3. ASSUME NEW m \in Nat, Split(m)'
          PROVE  m \in Node /\ Splits(m) /\ InPlay(m)' /\ ~Unsorted(m)'
      <3>1. CASE m = n
        <4>1. InPlay(n)  BY <1>2, UnsortedLeft
        <4>. QED BY <1>2, <1>5, <1>16, <1>20, <3>1, <4>1
      <3>2. CASE m # n
        <4>1. Split(m)  BY <1>15, <2>3, <3>2
        <4>2. m \in Node /\ Splits(m) /\ InPlay(m) /\ ~Unsorted(m)  BY <4>1 DEF TreeInv
        <4>3. m \notin {c, d}  BY <1>8, <4>2
        <4>. QED BY <1>16, <1>20, <4>2, <4>3
      <3>. QED BY <3>1, <3>2
    <2>4. ASSUME NEW u \in Thread, Sorting(u)'
          PROVE  at'[u] # End /\ \A v \in Thread : at'[v] = at'[u] => v = u
      <3>1. CASE u = t
        <4>1. \A v \in Thread : v # t => at[v] # d
          BY <1>5, <1>17 DEF TreeInv
        <4>. QED BY <1>5, <1>12, <1>19, <3>1, <4>1
      <3>2. CASE u = c
        <4>1. \A v \in Thread : v # c /\ v # t => at[v] # c
          BY <1>17 DEF TreeInv
        <4>. QED BY <1>5, <1>12, <1>19, <3>2, <4>1
      <3>3. CASE u \notin {t, c}
        <4>1. Sorting(u) /\ at'[u] = at[u]  BY <1>18, <2>4, <3>3
        <4>2. at[u] # d  BY <1>17, <3>3, <4>1 DEF Sorting
        <4>. QED BY <1>12, <1>19, <4>1, <4>2 DEF TreeInv
      <3>. QED BY <3>1, <3>2, <3>3
    <2>5. ASSUME NEW m \in Node, ~InPlay(m)' \/ Unsorted(m)'
          PROVE  node[m] = Initially(m) /\ lock[m] = Free /\ queue[m] = 0
      <3>1. ~InPlay(m) \/ Unsorted(m)  BY <1>8, <1>16, <1>20, <2>5
      <3>. QED BY <3>1 DEF TreeInv
    <2>. QED BY <1>10, <2>1, <2>2, <2>3, <2>4, <2>5 DEF TreeInv, Initially
  <1>22. LockInv'
    <2>1. \A u \in Thread : (Holding(u)' <=> Holding(u)) /\ (Holding(u) => at'[u] = at[u])
      BY <1>1, <1>9, <1>11, <1>12 DEF Holding
    <2>2. \A m \in Node : lock[m] # Free => lock[m] \in Thread  BY DEF TypeInv
    <2>. QED BY <1>10, <2>1, <2>2 DEF LockInv
  <1>23. \A u \in Thread : Merging(u)' <=> Merging(u)
    BY <1>1, <1>9, <1>11 DEF Merging
  <1>24. SameLeft /\ SameEnds  BY <1>10, <1>23, LeftKept
  <1>25. \A m \in Node : Left(m)' = Left(m)  BY <1>24, SameLefts
  <1>26. /\ LeftLo(n) = Lo(n) /\ LeftHi(n) = Hi(n) /\ Left(n) = NTotal[n]
         /\ Left(c) = NTotal[c] /\ Left(d) = NTotal[d] /\ ~Busy(c) /\ ~Busy(d)
    <2>1. node[c] = Initially(c) /\ lock[c] = Free /\ node[d] = Initially(d) /\ lock[d] = Free
      BY <1>8 DEF TreeInv
    <2>. QED BY <1>6, <2>1, UntouchedLeft
  <1>27. CountInv'
    <2>1. \A m \in Node : LeftLo(m)' \in 0 .. Lo(m) /\ LeftHi(m)' \in 0 .. Hi(m)
      BY <1>24 DEF CountInv, SameLeft
    <2>2. ASSUME NEW m \in Node, InPlay(m)', m # Root
          PROVE  /\ Taken(m)' <= Dest(m)' /\ Dest(m)' <= Sent(m)'
                 /\ Taken(m)' = Base(m) + NTotal[m] - LeftOf(m)'
                 /\ Sent(m)' = Base(m) + NTotal[m] - Left(m)'
      <3>1. m \div 2 \in Node  BY <2>2, Parent
      <3>2. /\ Taken(m)' = Taken(m) /\ Dest(m)' = Dest(m) /\ LeftOf(m)' = LeftOf(m)
            /\ Sent(m)' = Sent(m) /\ Left(m)' = Left(m)
        <4>1. lock[m] # Free => lock[m] \in Thread  BY DEF TypeInv
        <4>2. Busy(m)' <=> Busy(m)  BY <1>10, <1>23, <4>1 DEF Busy, Merging
        <4>3. Dest(m)' = Dest(m)  BY <1>24, <3>1 DEF Dest, SameEnds
        <4>4. Sent(m)' = Sent(m)  BY <1>10, <4>2, <4>3 DEF Sent
        <4>. QED BY <1>24, <1>25, <2>2, <3>1, <4>3, <4>4 DEF Taken, LeftOf, SameLeft, SameEnds
      <3>3. CASE InPlay(m)  BY <2>2, <3>2, <3>3 DEF CountInv
      <3>4. CASE m \in {c, d}
        <4>1. PICK p \in Nat, lo \in Nat, hi \in Nat : p = Place(n) /\ lo = Lo(n) /\ hi = Hi(n)
          BY Totals
        <4>2. node[n].lo = p /\ node[n].end_lo = p /\ node[n].hi = p + lo /\ node[n].end_hi = p + lo
          BY <1>6, <4>1 DEF Initially, MergeNode
        <4>3. CASE m = c
          <5>1. NTotal[m] = lo /\ Base(m) = p /\ Taken(m) = p /\ Dest(m) = p /\ Sent(m) = p
            BY <1>5, <1>26, <4>1, <4>2, <4>3, Totals DEF Base, Offset, Taken, Dest, Sent
          <5>2. LeftOf(m) = lo /\ Left(m) = lo  BY <1>5, <1>26, <4>1, <4>3, <5>1 DEF LeftOf
          <5>. QED BY <3>2, <5>1, <5>2
        <4>4. CASE m = d
          <5>1. NTotal[m] = hi /\ Base(m) = p + lo /\ Taken(m) = p + lo /\ Dest(m) = p + lo
                /\ Sent(m) = p + lo
            BY <1>5, <1>26, <4>1, <4>2, <4>4, Totals DEF Base, Offset, Taken, Dest, Sent
          <5>2. LeftOf(m) = hi /\ Left(m) = hi  BY <1>5, <1>26, <4>1, <4>4, <5>1 DEF LeftOf
          <5>. QED BY <3>2, <5>1, <5>2
        <4>. QED BY <3>4, <4>3, <4>4
      <3>. QED BY <1>16, <2>2, <3>3, <3>4
    <2>3. ASSUME NEW m \in Node, InPlay(m)', ~Split(m)', ~Unsorted(m)'
          PROVE  /\ (node[m].end_lo - node[m].lo = LeftLo(m))'
                 /\ (node[m].end_hi - node[m].hi = LeftHi(m))'
      <3>1. m \in Nat  BY NodeFacts
      <3>2. InPlay(m) /\ ~Split(m) /\ ~Unsorted(m)  BY <1>15, <1>16, <1>20, <2>3, <3>1
      <3>. QED BY <1>10, <1>24, <3>2 DEF CountInv, SameLeft
    <2>. QED BY <2>1, <2>2, <2>3 DEF CountInv, Base
  <1>28. StartInv'
    <2>1. ASSUME NEW m \in Node, InPlay(m)', m # Root, Left(m \div 2)' < NTotal[m \div 2]
          PROVE  Left(m)' < NTotal[m]
      <3>1. m \div 2 \in Node  BY <2>1, Parent
      <3>2. Left(m \div 2) < NTotal[m \div 2]
        <4>1. PICK k \in Node : k = m \div 2  BY <3>1
        <4>2. Left(k)' = Left(k)  BY <1>25
        <4>. QED BY <2>1, <4>1, <4>2
      <3>3. m \div 2 # n  BY <1>26, <3>2, Totals
      <3>4. InPlay(m)  BY <1>5, <1>16, <2>1, <3>3
      <3>. QED BY <1>25, <2>1, <3>2, <3>4 DEF StartInv
    <2>. QED BY <2>1 DEF StartInv
  <1>29. \A u \in Thread : pc'[u] = pc[u] \/ (pc[u] = "none" /\ pc'[u] = "sortlines")
    BY <1>9, <1>11
  <1>30. \A u \in Thread : pc[u] # "sortlines" => at'[u] = at[u]
    BY <1>1, <1>12
  <1>31. QueueInv'
    <2>1. \A u \in Thread : pc'[u] \in {"lock", "merge", "rest", "check"} => pc[u] = pc'[u] /\ at'[u] = at[u]
      BY <1>29, <1>30
    <2>2. \A m \in Node : queue'[m] > 0 => node'[m].queued /\ Left(m)' > 0
      BY <1>10, <1>25 DEF QueueInv
    <2>3. ASSUME NEW u \in Thread, pc'[u] = "lock", at'[u] # End
          PROVE  node'[at'[u]].queued /\ Left(at[u])' > 0
      <3>1. PICK m \in Node : m = at'[u]  BY <1>12, <2>3
      <3>2. node[m].queued /\ Left(m) > 0  BY <2>1, <2>3, <3>1 DEF QueueInv
      <3>3. Left(m)' > 0  BY <1>25, <3>2
      <3>. QED BY <1>10, <3>1, <3>2, <3>3 DEF Left, LeftLo, LeftHi, Busy
    <2>. QED BY <1>10, <2>1, <2>2, <2>3 DEF QueueInv
  <1>32. EndInv'
    <2>1. \A u \in Thread : pc'[u] \in {"lock", "end", "merge", "rest", "check", "parent"} =>
            pc[u] = pc'[u] /\ at'[u] = at[u]
      BY <1>29, <1>30
    <2>2. \A u \in Thread : HasEnd(u)' => HasEnd(u)  BY <2>1 DEF HasEnd
    <2>3. EndInserted' => EndInserted  BY <1>10, <2>2 DEF EndInserted
    <2>4. Left(Root)' = Left(Root)  BY <1>25, NodeFacts
    <2>. QED BY <1>10, <2>1, <2>2, <2>3, <2>4 DEF EndInv
  <1>. QED BY <1>14, <1>21, <1>22, <1>27, <1>28, <1>31, <1>32

(* A leaf has been sorted, and is inserted into the queue.                  *)
LEMMA EndSortSafe ==
  ASSUME SortInv, NEW t \in Thread, EndSort(t)
  PROVE  SortInv'
  <1>. USE DEF SortInv
  <1>1. pc[t] = "sort" /\ Sorting(t) /\ ~Merging(t) /\ ~Holding(t)
    BY DEF EndSort, Sorting, Merging, Holding
  <1>2. PICK n \in Node : n = at[t] /\ Unsorted(n)
    <2>1. at[t] # End  BY <1>1 DEF TreeInv
    <2>. QED BY <1>1, <2>1 DEF TypeInv, Unsorted
  <1>3. node[n] = Initially(n) /\ lock[n] = Free /\ queue[n] = 0  BY <1>2 DEF TreeInv
  <1>4. PICK from \in Nat, lo \in Nat, hi \in Nat : from = Lines[n] /\ lo = Lo(n) /\ hi = Hi(n)
    BY Totals
  <1>50. PICK q : q = MergeNode(from, from + lo, from + lo, from + lo + hi, lo, hi)  OBVIOUS
  <1>5. PICK r : r = [q EXCEPT !.queued = TRUE]  OBVIOUS
  <1>51. /\ q \in NodeRecord /\ q.lo = from /\ q.hi = from + lo /\ q.end_lo = from + lo
         /\ q.end_hi = from + lo + hi /\ q.nlo = lo /\ q.nhi = hi
    BY <1>50 DEF MergeNode, NodeRecord
  <1>6. /\ r \in NodeRecord /\ r.lo = from /\ r.hi = from + lo /\ r.end_lo = from + lo
        /\ r.end_hi = from + lo + hi /\ r.nlo = lo /\ r.nhi = hi /\ r.queued = TRUE
    BY <1>5, <1>51 DEF NodeRecord
  <1>7. node' = [node EXCEPT ![n] = r]
    <2>1. node[n].nlo = lo /\ node[n].nhi = hi  BY <1>3, <1>4 DEF Initially, MergeNode
    <2>. QED BY <1>2, <1>4, <1>5, <1>50, <2>1 DEF EndSort
  <1>8. /\ node' \in [Node \cup {End} -> NodeRecord] /\ node'[n] = r
        /\ \A m \in Node \cup {End} : m # n => node'[m] = node[m]
    BY <1>6, <1>7 DEF TypeInv
  <1>9. /\ queue' \in [Node \cup {End} -> Nat] /\ queue'[n] = 1
        /\ \A m \in Node \cup {End} : m # n => queue'[m] = queue[m]
    <2>1. queue' = [queue EXCEPT ![n] = 1]  BY <1>2, <1>3 DEF EndSort
    <2>. QED BY <2>1 DEF TypeInv
  <1>. DEFINE place == "pop"
  <1>10. Moves(t, "pop")  BY <1>1, GotoMoves DEF EndSort, Places
  <1>11. place \in Places /\ Moves(t, place)  BY <1>10 DEF Places
  <1>12. place \notin {"sortlines", "sort", "none", "lock", "merge", "rest", "check", "parent", "unlock", "end"}
    OBVIOUS
  <1>13. at'[t] = End /\ at' \in [Thread -> Node \cup {End}] /\ \A u \in Thread : u # t => at'[u] = at[u]
    BY DEF EndSort, TypeInv
  <1>14. lock' = lock /\ reg' = reg /\ joins' = joins  BY DEF EndSort
  <1>15. TypeInv'
    <2>1. mem' = [a \in Cells |-> mem'[a]]  BY DEF EndSort
    <2>. QED BY <1>8, <1>9, <1>10, <1>13, <1>14, <2>1 DEF TypeInv, Moves
  <1>16. ~Sorting(t)'  BY <1>10 DEF Moves, Sorting
  <1>17. InPlay(n)  BY <1>2, UnsortedLeft
  <1>18. TreeInv'
    <2>1. ASSUME NEW m \in Node, ~InPlay(m) \/ (Unsorted(m) /\ (m = at[t] => Sorting(t)'))
          PROVE  node'[m] = node[m] /\ lock'[m] = lock[m] /\ queue'[m] = queue[m]
      <3>1. m # n  BY <1>2, <1>16, <1>17, <2>1
      <3>. QED BY <1>8, <1>9, <1>14, <3>1
    <2>2. \A u \in Thread : Sorting(u) => at[u] # End  BY DEF TreeInv
    <2>3. pc[t] # "none"  BY <1>1
    <2>. HIDE DEF place
    <2>. QED BY <1>11, <1>12, <1>13, <1>14, <2>1, <2>2, <2>3, TreeKept
  <1>19. LockInv'
    <2>. HIDE DEF place
    <2>. QED BY <1>1, <1>11, <1>12, <1>13, <1>14, LockKept
  <1>20. SameLeft
    <2>1. \A m \in Node : lock[m] # Free => lock[m] \in Thread  BY DEF TypeInv
    <2>2. \A u \in Thread : Merging(u)' <=> Merging(u)  BY <1>1, <1>10 DEF Merging, Moves
    <2>3. \A m \in Node : Busy(m)' <=> Busy(m)  BY <1>14, <2>1, <2>2 DEF Busy, Merging
    <2>4. \A m \in Node : LeftLo(m)' = LeftLo(m) /\ LeftHi(m)' = LeftHi(m)
      <3>1. ASSUME NEW m \in Node  PROVE LeftLo(m)' = LeftLo(m) /\ LeftHi(m)' = LeftHi(m)
        <4>1. CASE m # n  BY <1>8, <1>14, <2>3, <4>1 DEF LeftLo, LeftHi
        <4>2. CASE m = n
          <5>1. ~Busy(n)  BY <1>3 DEF Busy
          <5>2. node[n].nlo = lo /\ node[n].nhi = hi  BY <1>3, <1>4 DEF Initially, MergeNode
          <5>3. node'[n].nlo = lo /\ node'[n].nhi = hi  BY <1>6, <1>8
          <5>. QED BY <2>3, <4>2, <5>1, <5>2, <5>3 DEF LeftLo, LeftHi
        <4>. QED BY <4>1, <4>2
      <3>. QED BY <3>1
    <2>5. ASSUME NEW m \in Node, InPlay(m), m # Root  PROVE Sent(m)' = Sent(m)
      <3>1. m \div 2 \in Node /\ m \div 2 # n  BY <1>2, <2>5, InPlayFacts
      <3>2. Dest(m)' = Dest(m)  BY <1>8, <3>1 DEF Dest
      <3>. QED BY <1>14, <2>3, <3>2 DEF Sent
    <2>. QED BY <2>4, <2>5 DEF SameLeft
  <1>21. CountInv' /\ StartInv'
    <2>1. ASSUME NEW m \in Node, InPlay(m), m # Root
          PROVE  Taken(m)' = Taken(m) /\ Taken(m) <= Dest(m)' /\ Dest(m)' <= Sent(m)
      <3>1. m \div 2 \in Node /\ m \div 2 # n  BY <1>2, <2>1, InPlayFacts
      <3>2. Dest(m)' = Dest(m) /\ Taken(m)' = Taken(m)  BY <1>8, <3>1 DEF Dest, Taken
      <3>. QED BY <2>1, <3>2 DEF CountInv
    <2>2. ASSUME NEW m \in Node, InPlay(m), ~Split(m), ~Unsorted(m)'
          PROVE  /\ node'[m].end_lo - node'[m].lo = LeftLo(m)
                 /\ node'[m].end_hi - node'[m].hi = LeftHi(m)
      <3>1. CASE m = n
        <4>1. LeftLo(n) = lo /\ LeftHi(n) = hi  BY <1>3, <1>4, UntouchedLeft
        <4>. QED BY <1>6, <1>8, <3>1, <4>1
      <3>2. CASE m # n
        <4>1. ASSUME Unsorted(m)  PROVE Unsorted(m)'
          <5>1. PICK u \in Thread : Sorting(u) /\ at[u] = m  BY <4>1 DEF Unsorted
          <5>2. u # t  BY <1>2, <3>2, <5>1
          <5>3. Sorting(u)' /\ at'[u] = m  BY <1>10, <1>13, <5>1, <5>2 DEF Sorting, Moves
          <5>. QED BY <5>3 DEF Unsorted
        <4>. QED BY <1>8, <2>2, <3>2, <4>1 DEF CountInv
      <3>. QED BY <3>1, <3>2
    <2>. QED BY <1>14, <1>20, <2>1, <2>2, CountStep
  <1>22. \A m \in Node : Left(m)' = Left(m)  BY <1>20, SameLefts
  <1>23. \A u \in Thread : at[u] = n => u = t  BY <1>1, <1>2 DEF TreeInv
  <1>24. QueueInv'
    <2>1. \A u \in Thread : pc'[u] \in {"lock", "merge", "rest", "check"} =>
            u # t /\ pc[u] = pc'[u] /\ at'[u] = at[u] /\ at'[u] # n
      BY <1>10, <1>13, <1>23 DEF Moves
    <2>2. \A u \in Thread : at[u] \in Node \cup {End}  BY DEF TypeInv
    <2>3. \A m \in Node \cup {End} : queue'[m] <= 1
      BY <1>9 DEF QueueInv
    <2>4. \A u \in Thread : pc'[u] = "lock" => queue'[at'[u]] = 0
      BY <1>9, <2>1, <2>2 DEF QueueInv
    <2>5. ASSUME NEW m \in Node, queue'[m] > 0  PROVE node'[m].queued /\ Left(m)' > 0
      <3>1. CASE m = n
        <4>1. Left(n) > 0  BY <1>2, UnsortedLeft
        <4>. QED BY <1>6, <1>8, <1>22, <3>1, <4>1
      <3>2. CASE m # n  BY <1>8, <1>9, <1>22, <2>5, <3>2 DEF QueueInv
      <3>. QED BY <3>1, <3>2
    <2>6. ASSUME NEW u \in Thread, pc'[u] = "lock", at'[u] # End
          PROVE  node'[at'[u]].queued /\ Left(at[u])' > 0
      <3>1. PICK m \in Node : m = at'[u] /\ m # n  BY <1>13, <2>1, <2>6
      <3>2. node[m].queued /\ Left(m) > 0  BY <2>1, <2>6, <3>1 DEF QueueInv
      <3>3. node'[m].queued /\ Left(m)' > 0  BY <1>8, <1>22, <3>1, <3>2
      <3>. QED BY <3>1, <3>3 DEF Left, LeftLo, LeftHi, Busy
    <2>7. \A u \in Thread : pc'[u] \in {"merge", "rest", "check"} => ~node'[at'[u]].queued
      BY <1>8, <2>1, <2>2 DEF QueueInv
    <2>. QED BY <2>1, <2>3, <2>4, <2>5, <2>6, <2>7 DEF QueueInv
  <1>25. EndInv'
    <2>1. Left(Root)' = Left(Root)  BY <1>22, NodeFacts
    <2>2. queue'[End] = queue[End]  BY <1>9, NodeFacts
    <2>. HIDE DEF place
    <2>. QED BY <1>11, <1>12, <1>13, <2>1, <2>2, EndKept
  <1>. QED BY <1>15, <1>18, <1>19, <1>21, <1>24, <1>25

(* A thread that merges has the lock of a node in play.                     *)
LEMMA MergingFacts ==
  ASSUME SortInv, NEW t \in Thread, Merging(t)
  PROVE  \E n \in Node :
           /\ n = at[t] /\ InPlay(n) /\ ~Unsorted(n) /\ lock[n] = t /\ t # Free /\ Busy(n)
           /\ ~node[n].queued /\ pc[t] \in {"merge", "rest"} /\ Holding(t) /\ ~Sorting(t)
  <1>1. Holding(t) /\ ~Sorting(t) /\ pc[t] \in {"merge", "rest"}
    BY DEF Merging, Holding, Sorting
  <1>2. at[t] # End /\ lock[at[t]] = t  BY <1>1 DEF SortInv, LockInv
  <1>3. PICK n \in Node : n = at[t]  BY <1>2 DEF SortInv, TypeInv
  <1>4. InPlay(n)  BY <1>1, <1>2, <1>3 DEF SortInv, TreeInv
  <1>5. t # Free  BY NodeFacts
  <1>6. ~Unsorted(n)  BY <1>2, <1>3, <1>5 DEF SortInv, TreeInv
  <1>7. ~node[n].queued  BY <1>1, <1>3 DEF SortInv, QueueInv
  <1>8. Busy(n)  BY <1>2, <1>3, <1>5 DEF Busy
  <1>. QED BY <1>1, <1>2, <1>3, <1>4, <1>5, <1>6, <1>7, <1>8

(* What a thread publishes: of its own node, and of the parent.             *)
Published(n, ml, mh, de) ==
  /\ node' \in [Node \cup {End} -> NodeRecord]
  /\ node'[n].nlo = node[n].nlo - ml /\ node'[n].nhi = node[n].nhi - mh
  /\ \A m \in Node \cup {End} :
       /\ node'[m].lo = node[m].lo /\ node'[m].hi = node[m].hi /\ node'[m].queued = node[m].queued
       /\ m # n => node'[m].nlo = node[m].nlo /\ node'[m].nhi = node[m].nhi
       /\ (n # Root /\ IsLo(n) /\ m = n \div 2) \/ node'[m].end_lo = node[m].end_lo
       /\ (n # Root /\ ~IsLo(n) /\ m = n \div 2) \/ node'[m].end_hi = node[m].end_hi
       /\ m = n \/ (n # Root /\ m = n \div 2) \/ node'[m] = node[m]
  /\ n # Root => Dest(n)' = de

(* Nothing else changes in the nodes.                                       *)
LEMMA PublishNodes ==
  ASSUME SortInv, NEW t \in Thread, Publish(t), NEW n \in Node, n = at[t], InPlay(n),
         NEW ml \in Int, NEW mh \in Int, NEW de \in Int,
         ml = node[n].lo - reg[t].lo, mh = node[n].hi - reg[t].hi, de = reg[t].dest
  PROVE  Published(n, ml, mh, de)
  <1>. USE DEF SortInv, Published
  <1>1. /\ node[n] \in NodeRecord /\ node \in [Node \cup {End} -> NodeRecord]
        /\ n # End
    BY NodeFacts DEF TypeInv
  <1>2. PICK own : own = [node EXCEPT ![n].nlo = @ - ml, ![n].nhi = @ - mh]  OBVIOUS
  <1>3. /\ own \in [Node \cup {End} -> NodeRecord]
        /\ own[n].nlo = node[n].nlo - ml /\ own[n].nhi = node[n].nhi - mh
        /\ own[n].lo = node[n].lo /\ own[n].hi = node[n].hi
        /\ own[n].end_lo = node[n].end_lo /\ own[n].end_hi = node[n].end_hi
        /\ own[n].queued = node[n].queued
        /\ \A m \in Node \cup {End} : m # n => own[m] = node[m]
    <2>1. PICK r : r = [node[n] EXCEPT !.nlo = @ - ml, !.nhi = @ - mh]  OBVIOUS
    <2>2. /\ r \in NodeRecord
          /\ r.nlo = node[n].nlo - ml /\ r.nhi = node[n].nhi - mh
          /\ r.lo = node[n].lo /\ r.hi = node[n].hi
          /\ r.end_lo = node[n].end_lo /\ r.end_hi = node[n].end_hi
          /\ r.queued = node[n].queued
      <3>1. PICK q \in NodeRecord : q = node[n]  BY <1>1
      <3>2. PICK x \in Int, y \in Int : x = q.nlo - ml /\ y = q.nhi - mh  BY DEF NodeRecord
      <3>3. r = [q EXCEPT !.nlo = x, !.nhi = y]  BY <2>1, <3>1, <3>2
      <3>4. r \in NodeRecord  BY <3>2, <3>3 DEF NodeRecord
      <3>5. /\ r.nlo = x /\ r.nhi = y /\ r.lo = q.lo /\ r.hi = q.hi
            /\ r.end_lo = q.end_lo /\ r.end_hi = q.end_hi /\ r.queued = q.queued
        BY <3>3 DEF NodeRecord
      <3>. QED BY <3>1, <3>2, <3>4, <3>5
    <2>3. own = [node EXCEPT ![n] = r]  BY <1>1, <1>2, <2>1
    <2>. QED BY <1>1, <2>2, <2>3
  <1>4. \/ n = Root /\ node' = own
        \/ n # Root /\ IsLo(n) /\ node' = [own EXCEPT ![n \div 2].end_lo = de]
        \/ n # Root /\ ~IsLo(n) /\ node' = [own EXCEPT ![n \div 2].end_hi = de]
    BY <1>2 DEF Publish, MergedLo, MergedHi
  <1>5. n # Root => n \div 2 \in Node /\ n \div 2 # n /\ InPlay(n \div 2) /\ Split(n \div 2) /\ ~Unsorted(n \div 2)
    <2>1. ASSUME n # Root  PROVE n \div 2 # n  BY <2>1, NodeFacts
    <2>. QED BY <2>1, InPlayFacts
  <1>6. CASE n = Root  BY <1>3, <1>4, <1>6
  <1>7. CASE n # Root
    <2>1. PICK up \in Node : up = n \div 2 /\ up # n  BY <1>5, <1>7
    <2>2. own[up] = node[up] /\ own[up] \in NodeRecord  BY <1>3, <2>1
    <2>3. CASE IsLo(n) /\ node' = [own EXCEPT ![n \div 2].end_lo = de]
      <3>1. PICK r : r = [own[up] EXCEPT !.end_lo = de]  OBVIOUS
      <3>2. /\ r \in NodeRecord /\ r.lo = node[up].lo /\ r.hi = node[up].hi /\ r.queued = node[up].queued
            /\ r.nlo = node[up].nlo /\ r.nhi = node[up].nhi /\ r.end_hi = node[up].end_hi /\ r.end_lo = de
        BY <2>2, <3>1 DEF NodeRecord
      <3>3. node' = [own EXCEPT ![up] = r]  BY <2>1, <2>3, <3>1
      <3>4. node'[up] = r /\ \A m \in Node \cup {End} : m # up => node'[m] = own[m]
        BY <1>3, <3>3
      <3>5. node' \in [Node \cup {End} -> NodeRecord]  BY <1>3, <3>2, <3>3
      <3>. QED BY <1>3, <1>7, <2>1, <2>2, <2>3, <3>2, <3>4, <3>5 DEF Dest
    <2>4. CASE ~IsLo(n) /\ node' = [own EXCEPT ![n \div 2].end_hi = de]
      <3>1. PICK r : r = [own[up] EXCEPT !.end_hi = de]  OBVIOUS
      <3>2. /\ r \in NodeRecord /\ r.lo = node[up].lo /\ r.hi = node[up].hi /\ r.queued = node[up].queued
            /\ r.nlo = node[up].nlo /\ r.nhi = node[up].nhi /\ r.end_lo = node[up].end_lo /\ r.end_hi = de
        BY <2>2, <3>1 DEF NodeRecord
      <3>3. node' = [own EXCEPT ![up] = r]  BY <2>1, <2>4, <3>1
      <3>4. node'[up] = r /\ \A m \in Node \cup {End} : m # up => node'[m] = own[m]
        BY <1>3, <3>3
      <3>5. node' \in [Node \cup {End} -> NodeRecord]  BY <1>3, <3>2, <3>3
      <3>. QED BY <1>3, <1>7, <2>1, <2>2, <2>4, <3>2, <3>4, <3>5 DEF Dest
    <2>. QED BY <1>4, <1>7, <2>3, <2>4
  <1>. QED BY <1>6, <1>7

(* A thread says in its node how far it is, and in the parent how far that  *)
(* may go.                                                                  *)
LEMMA PublishSafe ==
  ASSUME SortInv, NEW t \in Thread, Publish(t)
  PROVE  SortInv'
  <1>. USE DEF SortInv
  <1>1. pc[t] = "rest" /\ Merging(t)  BY DEF Publish, Merging
  <1>2. PICK n \in Node :
           /\ n = at[t] /\ InPlay(n) /\ ~Unsorted(n) /\ lock[n] = t /\ t # Free /\ Busy(n)
           /\ ~node[n].queued /\ pc[t] \in {"merge", "rest"} /\ Holding(t) /\ ~Sorting(t)
    BY <1>1, MergingFacts
  <1>3. /\ node[n] \in NodeRecord /\ reg[t] \in RegRecord /\ node \in [Node \cup {End} -> NodeRecord]
        /\ n # End
    BY NodeFacts DEF TypeInv
  <1>4. PICK ml \in Int, mh \in Int, de \in Int :
          ml = node[n].lo - reg[t].lo /\ mh = node[n].hi - reg[t].hi /\ de = reg[t].dest
    BY <1>3 DEF NodeRecord, RegRecord
  <1>8. n # Root => n \div 2 \in Node /\ n \div 2 # n /\ InPlay(n \div 2) /\ Split(n \div 2) /\ ~Unsorted(n \div 2)
    <2>1. ASSUME n # Root  PROVE n \div 2 # n  BY <2>1, NodeFacts
    <2>. QED BY <1>2, <2>1, InPlayFacts
  <1>9. Published(n, ml, mh, de)  BY <1>2, <1>4, PublishNodes
  <1>. USE DEF Published
  <1>10. UNCHANGED <<mem, lock, queue, at, joins>>  BY DEF Publish
  <1>11. /\ reg' \in [Thread -> RegRecord]
         /\ \A u \in Thread : u # t => reg'[u] = reg[u]
    <2>1. Unset \in RegRecord  BY DEF Unset, RegRecord
    <2>. QED BY <2>1 DEF Publish, TypeInv
  <1>12. Moves(t, "check")  BY <1>1, GotoMoves DEF Publish, Places
  <1>. DEFINE place == "check"
  <1>13. place \in Places /\ Moves(t, place)  BY <1>12 DEF Places
  <1>14. /\ place \notin {"sortlines", "sort", "none", "lock", "end"} /\ place \in {"merge", "rest", "check", "parent", "unlock"}
         /\ pc[t] # "none" /\ pc[t] \in {"merge", "rest", "check", "parent"}
    BY <1>1
  <1>15. TypeInv'  BY <1>9, <1>10, <1>11, <1>12 DEF TypeInv, Moves
  <1>16. TreeInv'
    <2>1. ASSUME NEW m \in Node, ~InPlay(m) \/ Unsorted(m)  PROVE node'[m] = node[m]
      BY <1>2, <1>8, <1>9, <2>1
    <2>. HIDE DEF place
    <2>. QED BY <1>2, <1>10, <1>13, <1>14, <2>1, TreeKept DEF TypeInv
  <1>17. LockInv'
    <2>. HIDE DEF place
    <2>. QED BY <1>2, <1>10, <1>13, <1>14, LockKept
  <1>18. \A m \in Node : m # n => (Busy(m)' <=> Busy(m)) /\ (Busy(m) => reg'[lock[m]] = reg[lock[m]])
    <2>1. ASSUME NEW m \in Node, m # n
          PROVE  (Busy(m)' <=> Busy(m)) /\ (Busy(m) => reg'[lock[m]] = reg[lock[m]])
      <3>1. CASE lock[m] = Free  BY <1>10, <3>1 DEF Busy
      <3>2. CASE lock[m] # Free
        <4>1. PICK u \in Thread : u = lock[m] /\ u # t  BY <1>2, <2>1, <3>2 DEF TypeInv, LockInv
        <4>2. Merging(u)' <=> Merging(u)  BY <1>12, <4>1 DEF Merging, Moves
        <4>. QED BY <1>10, <1>11, <3>2, <4>1, <4>2 DEF Busy, Merging
      <3>. QED BY <3>1, <3>2
    <2>. QED BY <2>1
  <1>19. ~Busy(n)'  BY <1>2, <1>10, <1>12 DEF Busy, Merging, Moves
  <1>20. \A m \in Node : m # Root /\ m # n => Dest(m)' = Dest(m)
    <2>1. ASSUME NEW m \in Node, m # Root, m # n  PROVE Dest(m)' = Dest(m)
      <3>1. m \div 2 \in Node  BY <2>1, Parent
      <3>2. n # Root /\ m \div 2 = n \div 2 => ~(IsLo(m) <=> IsLo(n))
        BY <2>1, Parent
      <3>. QED BY <1>9, <3>1, <3>2 DEF Dest
    <2>. QED BY <2>1
  <1>21. SameLeft
    <2>1. ASSUME NEW m \in Node
          PROVE  LeftLo(m)' = LeftLo(m) /\ LeftHi(m)' = LeftHi(m) /\ (m # Root => Sent(m)' = Sent(m))
      <3>1. CASE m # n  BY <1>9, <1>10, <1>18, <1>20, <3>1 DEF LeftLo, LeftHi, Sent
      <3>2. CASE m = n
        <4>1. LeftLo(n) = node[n].nlo - ml /\ LeftHi(n) = node[n].nhi - mh /\ Sent(n) = de
          BY <1>2, <1>4 DEF LeftLo, LeftHi, Sent
        <4>2. node[n].nlo - ml \in Int /\ node[n].nhi - mh \in Int  BY <1>3 DEF NodeRecord
        <4>3. LeftLo(n)' = node[n].nlo - ml /\ LeftHi(n)' = node[n].nhi - mh
          BY <1>9, <1>19, <4>2 DEF LeftLo, LeftHi
        <4>4. n # Root => Sent(n)' = de  BY <1>9, <1>19 DEF Sent
        <4>. QED BY <3>2, <4>1, <4>3, <4>4
      <3>. QED BY <3>1, <3>2
    <2>. QED BY <2>1 DEF SameLeft
  <1>22. CountInv' /\ StartInv'
    <2>1. ASSUME NEW m \in Node, InPlay(m), m # Root
          PROVE  Taken(m)' = Taken(m) /\ Taken(m) <= Dest(m)' /\ Dest(m)' <= Sent(m)
      <3>1. m \div 2 \in Node  BY <2>1, Parent
      <3>2. Taken(m)' = Taken(m)  BY <1>9, <3>1 DEF Taken
      <3>3. Taken(m) <= Dest(m) /\ Dest(m) <= Sent(m)  BY <2>1 DEF CountInv
      <3>4. CASE m # n  BY <1>20, <2>1, <3>2, <3>3, <3>4
      <3>5. CASE m = n
        <4>1. Sent(n) = de /\ Dest(n)' = de  BY <1>2, <1>4, <1>9, <2>1, <3>5 DEF Sent
        <4>2. PICK a \in Int, b \in Int : a = Taken(m) /\ b = Dest(m)
          BY <3>1 DEF Taken, Dest, TypeInv, NodeRecord
        <4>3. a <= b /\ b <= de  BY <3>3, <3>5, <4>1, <4>2
        <4>. QED BY <3>2, <3>5, <4>1, <4>2, <4>3
      <3>. QED BY <3>4, <3>5
    <2>2. ASSUME NEW m \in Node, InPlay(m), ~Split(m), ~Unsorted(m)'
          PROVE  /\ node'[m].end_lo - node'[m].lo = LeftLo(m)
                 /\ node'[m].end_hi - node'[m].hi = LeftHi(m)
      <3>1. ~Unsorted(m)
        <4>1. \A u \in Thread : Sorting(u) => Sorting(u)' /\ at'[u] = at[u]
          BY <1>2, <1>10, <1>12 DEF Sorting, Moves
        <4>. QED BY <2>2, <4>1 DEF Unsorted
      <3>2. n # Root => m # n \div 2  BY <1>8, <2>2
      <3>3. /\ node'[m].lo = node[m].lo /\ node'[m].end_lo = node[m].end_lo
            /\ node'[m].hi = node[m].hi /\ node'[m].end_hi = node[m].end_hi
        BY <1>9, <3>2
      <3>. QED BY <2>2, <3>1, <3>3 DEF CountInv
    <2>. QED BY <1>10, <1>21, <2>1, <2>2, CountStep
  <1>23. QueueInv'
    <2>1. ~node'[at'[t]].queued  BY <1>2, <1>9, <1>10
    <2>2. \A m \in Node \cup {End} : node'[m].queued = node[m].queued  BY <1>9
    <2>. HIDE DEF place
    <2>. QED BY <1>10, <1>13, <1>14, <1>21, <2>1, <2>2, QueueKept
  <1>24. EndInv'
    <2>1. Left(Root)' = Left(Root)  BY <1>21, SameLefts, NodeFacts
    <2>. HIDE DEF place
    <2>. QED BY <1>10, <1>13, <1>14, <2>1, EndKept
  <1>. QED BY <1>15, <1>16, <1>17, <1>22, <1>23, <1>24

(* What one line that is merged changes: where its node reads and its thread *)
(* writes, and with that what is left of this node, not of the others.      *)
Merged(t, n, dl, dh) ==
  /\ node' \in [Node \cup {End} -> NodeRecord]
  /\ node'[n].lo = node[n].lo + dl /\ node'[n].hi = node[n].hi + dh
  /\ node'[n].end_lo = node[n].end_lo /\ node'[n].end_hi = node[n].end_hi
  /\ node'[n].nlo = node[n].nlo /\ node'[n].nhi = node[n].nhi /\ node'[n].queued = node[n].queued
  /\ \A m \in Node \cup {End} : m # n => node'[m] = node[m]
  /\ reg' \in [Thread -> RegRecord]
  /\ reg'[t].lo = reg[t].lo /\ reg'[t].hi = reg[t].hi
  /\ n # Root => reg'[t].dest = reg[t].dest + 1
  /\ \A u \in Thread : u # t => reg'[u] = reg[u]
  /\ \A m \in Node : m # n => LeftLo(m)' = LeftLo(m) /\ LeftHi(m)' = LeftHi(m)
  /\ LeftLo(n)' = LeftLo(n) - dl /\ LeftHi(n)' = LeftHi(n) - dh

(* Move does.                                                               *)
LEMMA MergedNodes ==
  ASSUME SortInv, NEW t \in Thread, NEW side \in {"lo", "hi"}, Move(t, side), Merging(t),
         reg[t].to_merge > 0, NEW dl \in {0, 1}, NEW dh \in {0, 1},
         dl + dh = 1, dl = 1 <=> side = "lo", dh = 1 <=> side = "hi",
         NEW n \in Node, n = at[t]
  PROVE  Merged(t, n, dl, dh)
  <1>. USE DEF SortInv
  <1>1. n = at[t] /\ lock[n] = t /\ t # Free /\ Busy(n)
    BY MergingFacts
  <1>2. PICK k \in NodeRecord : k = node[n]  BY DEF TypeInv
  <1>3. /\ dl + dh = 1 /\ (dl = 1 <=> side = "lo") /\ (dh = 1 <=> side = "hi")
    OBVIOUS
  <1>4. /\ node' \in [Node \cup {End} -> NodeRecord]
        /\ node'[n].lo = node[n].lo + dl /\ node'[n].hi = node[n].hi + dh
        /\ node'[n].end_lo = node[n].end_lo /\ node'[n].end_hi = node[n].end_hi
        /\ node'[n].nlo = node[n].nlo /\ node'[n].nhi = node[n].nhi /\ node'[n].queued = node[n].queued
        /\ \A m \in Node \cup {End} : m # n => node'[m] = node[m]
    <2>0. k.lo \in Int /\ k.hi \in Int  BY DEF NodeRecord
    <2>1. CASE side = "lo"
      <3>1. PICK x \in Int : x = k.lo + 1  BY <2>0
      <3>2. PICK r : r = [k EXCEPT !.lo = x]  OBVIOUS
      <3>3. /\ r \in NodeRecord /\ r.lo = k.lo + 1 /\ r.hi = k.hi /\ r.end_lo = k.end_lo /\ r.end_hi = k.end_hi
            /\ r.nlo = k.nlo /\ r.nhi = k.nhi /\ r.queued = k.queued
        BY <3>1, <3>2 DEF NodeRecord
      <3>4. node' = [node EXCEPT ![n] = r]
        BY <1>1, <1>2, <2>1, <3>1, <3>2 DEF Move
      <3>5. k.hi + 0 = k.hi /\ dl = 1 /\ dh = 0  BY <1>3, <2>0, <2>1
      <3>. QED BY <1>2, <3>3, <3>4, <3>5 DEF TypeInv
    <2>2. CASE side = "hi"
      <3>1. PICK x \in Int : x = k.hi + 1  BY <2>0
      <3>2. PICK r : r = [k EXCEPT !.hi = x]  OBVIOUS
      <3>3. /\ r \in NodeRecord /\ r.hi = k.hi + 1 /\ r.lo = k.lo /\ r.end_lo = k.end_lo /\ r.end_hi = k.end_hi
            /\ r.nlo = k.nlo /\ r.nhi = k.nhi /\ r.queued = k.queued
        BY <3>1, <3>2 DEF NodeRecord
      <3>4. node' = [node EXCEPT ![n] = r]
        BY <1>1, <1>2, <2>2, <3>1, <3>2 DEF Move
      <3>5. k.lo + 0 = k.lo /\ dl = 0 /\ dh = 1  BY <1>3, <2>0, <2>2
      <3>. QED BY <1>2, <3>3, <3>4, <3>5 DEF TypeInv
    <2>. QED BY <2>1, <2>2
  <1>5. PICK q \in RegRecord : q = reg[t]  BY DEF TypeInv
  <1>6. /\ reg' \in [Thread -> RegRecord]
        /\ reg'[t].lo = q.lo /\ reg'[t].hi = q.hi
        /\ n # Root => reg'[t].dest = q.dest + 1
        /\ \A u \in Thread : u # t => reg'[u] = reg[u]
    <2>0. PICK w \in Nat, d \in Int : w = q.to_merge /\ d = q.dest /\ w > 0  BY <1>5 DEF RegRecord
    <2>1. PICK x \in Nat, y \in Int : x = q.to_merge - 1 /\ y = q.dest + 1
      <3>1. w - 1 \in Nat /\ d + 1 \in Int  BY <2>0
      <3>. QED BY <2>0, <3>1
    <2>2. CASE n = Root
      <3>1. PICK r : r = [q EXCEPT !.to_merge = x]  OBVIOUS
      <3>2. r \in RegRecord /\ r.lo = q.lo /\ r.hi = q.hi  BY <3>1 DEF RegRecord
      <3>3. reg' = [reg EXCEPT ![t].to_merge = @ - 1]  BY <1>1, <2>2 DEF Move
      <3>4. reg' = [reg EXCEPT ![t] = r]  BY <1>5, <2>1, <3>1, <3>3
      <3>. QED BY <2>2, <3>2, <3>4 DEF TypeInv
    <2>3. CASE n # Root
      <3>1. PICK r : r = [q EXCEPT !.dest = y, !.to_merge = x]  OBVIOUS
      <3>2. r \in RegRecord /\ r.lo = q.lo /\ r.hi = q.hi /\ r.dest = q.dest + 1  BY <2>1, <3>1 DEF RegRecord
      <3>3. reg' = [reg EXCEPT ![t].dest = @ + 1, ![t].to_merge = @ - 1]  BY <1>1, <2>3 DEF Move
      <3>4. reg' = [reg EXCEPT ![t] = r]  BY <1>5, <2>1, <3>1, <3>3 DEF TypeInv
      <3>. QED BY <3>2, <3>4 DEF TypeInv
    <2>. QED BY <2>2, <2>3
  <1>7. UNCHANGED <<config, lock, queue, pc, at, joins>>  BY DEF Move
  <1>9. /\ \A m : (InPlay(m)' <=> InPlay(m)) /\ (Split(m)' <=> Split(m)) /\ (Unsorted(m)' <=> Unsorted(m))
        /\ \A u : (Sorting(u)' <=> Sorting(u)) /\ (Holding(u)' <=> Holding(u)) /\ (Merging(u)' <=> Merging(u))
        /\ \A m : Busy(m)' <=> Busy(m)
    BY <1>7 DEF InPlay, Split, Unsorted, Sorting, Holding, Merging, Busy
  <1>12. \A m \in Node : m # n => LeftLo(m)' = LeftLo(m) /\ LeftHi(m)' = LeftHi(m)
    <2>1. ASSUME NEW m \in Node, m # n
          PROVE  LeftLo(m)' = LeftLo(m) /\ LeftHi(m)' = LeftHi(m)
      <3>1. CASE Busy(m)
        <4>1. PICK u \in Thread : u = lock[m] /\ u # t  BY <1>1, <2>1, <3>1 DEF Busy, TypeInv, LockInv
        <4>. QED BY <1>4, <1>6, <1>7, <1>9, <2>1, <3>1, <4>1 DEF LeftLo, LeftHi
      <3>2. CASE ~Busy(m)  BY <1>4, <1>9, <2>1, <3>2 DEF LeftLo, LeftHi
      <3>. QED BY <3>1, <3>2
    <2>. QED BY <2>1
  <1>13. PICK ll \in Nat, lh \in Nat : ll = LeftLo(n) /\ lh = LeftHi(n)
    BY Totals DEF CountInv
  <1>14. LeftLo(n)' = ll - dl /\ LeftHi(n)' = lh - dh
    <2>1. /\ k.lo \in Int /\ k.hi \in Int /\ k.nlo \in Int /\ k.nhi \in Int /\ q.lo \in Int /\ q.hi \in Int
      BY DEF NodeRecord, RegRecord
    <2>2. ll = k.nlo - (k.lo - q.lo) /\ lh = k.nhi - (k.hi - q.hi)
      BY <1>1, <1>2, <1>5, <1>13 DEF LeftLo, LeftHi
    <2>3. Busy(n)' /\ lock'[n] = t  BY <1>1, <1>7, <1>9
    <2>4. LeftLo(n)' = k.nlo - ((k.lo + dl) - q.lo)
      <3>1. LeftLo(n)' = node'[n].nlo - (node'[n].lo - reg'[t].lo)  BY <2>3 DEF LeftLo
      <3>2. node'[n].nlo = k.nlo /\ node'[n].lo = k.lo + dl /\ reg'[t].lo = q.lo
        BY <1>2, <1>4, <1>6
      <3>. QED BY <3>1, <3>2
    <2>5. LeftHi(n)' = k.nhi - ((k.hi + dh) - q.hi)
      <3>1. LeftHi(n)' = node'[n].nhi - (node'[n].hi - reg'[t].hi)  BY <2>3 DEF LeftHi
      <3>2. node'[n].nhi = k.nhi /\ node'[n].hi = k.hi + dh /\ reg'[t].hi = q.hi
        BY <1>2, <1>4, <1>6
      <3>. QED BY <3>1, <3>2
    <2>. QED BY <1>3, <2>1, <2>2, <2>4, <2>5
  <1>. QED BY <1>4, <1>5, <1>6, <1>12, <1>13, <1>14 DEF Merged

(* One line is merged, from a side that has one; if the other side has none *)
(* to compare it with, nothing is left there.                               *)
LEMMA MoveSafe ==
  ASSUME SortInv, NEW t \in Thread, NEW side \in {"lo", "hi"}, Move(t, side), Merging(t),
         reg[t].to_merge > 0,
         side = "lo" => node[at[t]].lo # node[at[t]].end_lo,
         side = "hi" => node[at[t]].hi # node[at[t]].end_hi,
         \/ BothAvailable(at[t])
         \/ side = "lo" /\ LeftHi(at[t]) = 0
         \/ side = "hi" /\ LeftLo(at[t]) = 0
  PROVE  SortInv'
  <1>. USE DEF SortInv
  <1>1. PICK n \in Node :
           /\ n = at[t] /\ InPlay(n) /\ ~Unsorted(n) /\ lock[n] = t /\ t # Free /\ Busy(n)
           /\ ~node[n].queued /\ pc[t] \in {"merge", "rest"} /\ Holding(t) /\ ~Sorting(t)
    BY MergingFacts
  <1>2. PICK k \in NodeRecord : k = node[n]  BY DEF TypeInv
  <1>3. PICK dl \in {0, 1}, dh \in {0, 1} :
          /\ dl + dh = 1 /\ (dl = 1 <=> side = "lo") /\ (dh = 1 <=> side = "hi")
    OBVIOUS
  <1>31. Merged(t, n, dl, dh)  BY <1>1, <1>3, MergedNodes
  <1>4. /\ node' \in [Node \cup {End} -> NodeRecord]
        /\ node'[n].lo = node[n].lo + dl /\ node'[n].hi = node[n].hi + dh
        /\ node'[n].end_lo = node[n].end_lo /\ node'[n].end_hi = node[n].end_hi
        /\ node'[n].nlo = node[n].nlo /\ node'[n].nhi = node[n].nhi /\ node'[n].queued = node[n].queued
        /\ \A m \in Node \cup {End} : m # n => node'[m] = node[m]
    BY <1>31 DEF Merged
  <1>5. PICK q \in RegRecord : q = reg[t]  BY DEF TypeInv
  <1>6. /\ reg' \in [Thread -> RegRecord]
        /\ reg'[t].lo = q.lo /\ reg'[t].hi = q.hi
        /\ n # Root => reg'[t].dest = q.dest + 1
        /\ \A u \in Thread : u # t => reg'[u] = reg[u]
    BY <1>5, <1>31 DEF Merged
  <1>7. UNCHANGED <<config, lock, queue, pc, at, joins>>  BY DEF Move
  <1>8. TypeInv'
    <2>1. mem' = [a \in Cells |-> mem'[a]]  BY DEF Move, TypeInv
    <2>. QED BY <1>4, <1>6, <1>7, <2>1 DEF TypeInv
  <1>9. /\ \A m : (InPlay(m)' <=> InPlay(m)) /\ (Split(m)' <=> Split(m)) /\ (Unsorted(m)' <=> Unsorted(m))
        /\ \A u : (Sorting(u)' <=> Sorting(u)) /\ (Holding(u)' <=> Holding(u)) /\ (Merging(u)' <=> Merging(u))
        /\ \A m : Busy(m)' <=> Busy(m)
    BY <1>7 DEF InPlay, Split, Unsorted, Sorting, Holding, Merging, Busy
  <1>10. TreeInv'
    <2>1. ASSUME NEW m \in Node, ~InPlay(m) \/ Unsorted(m)
          PROVE  node'[m] = Initially(m) /\ lock[m] = Free /\ queue[m] = 0
      BY <1>1, <1>4, <2>1 DEF TreeInv
    <2>2. ASSUME NEW u \in Thread, pc[u] # "none", at[u] # End  PROVE InPlay(at[u])'
      <3>1. InPlay(at[u])  BY <2>2 DEF TreeInv
      <3>. QED BY <1>7, <3>1 DEF InPlay, Split
    <2>. QED BY <1>7, <1>9, <2>1, <2>2 DEF TreeInv, Initially
  <1>11. LockInv'
    <2>1. ASSUME NEW m \in Node, lock[m] # Free  PROVE Holding(lock[m])'
      BY <1>7, <2>1 DEF LockInv, Holding
    <2>. QED BY <1>7, <1>9, <2>1 DEF LockInv
  <1>12. \A m \in Node : m # n => LeftLo(m)' = LeftLo(m) /\ LeftHi(m)' = LeftHi(m)
    BY <1>31 DEF Merged
  <1>13. PICK ll \in Nat, lh \in Nat : ll = LeftLo(n) /\ lh = LeftHi(n)
    BY Totals DEF CountInv
  <1>14. LeftLo(n)' = ll - dl /\ LeftHi(n)' = lh - dh
    BY <1>13, <1>31 DEF Merged
  <1>15. Left(n) = ll + lh /\ Left(n)' = ll + lh - 1 /\ \A m \in Node : m # n => Left(m)' = Left(m)
    BY <1>3, <1>12, <1>13, <1>14 DEF Left
  <1>16. /\ dl = 1 => ll > 0 /\ (Split(n) => Left(2 * n) < NTotal[2 * n])
         /\ dh = 1 => lh > 0 /\ (Split(n) => Left(2 * n + 1) < NTotal[2 * n + 1])
    BY <1>1, <1>3, <1>13, AvailableLeft
  <1>17. \A m \in Node : m # Root => Dest(m)' = Dest(m)
    <2>1. ASSUME NEW m \in Node, m # Root  PROVE Dest(m)' = Dest(m)
      <3>1. PICK up \in Node : up = m \div 2  BY <2>1, Parent
      <3>2. node'[up].end_lo = node[up].end_lo /\ node'[up].end_hi = node[up].end_hi
        BY <1>4, <3>1
      <3>. QED BY <3>1, <3>2 DEF Dest
    <2>. QED BY <2>1
  <1>18. \A m \in Node : m # Root => Sent(m)' = IF m = n THEN Sent(n) + 1 ELSE Sent(m)
    <2>1. ASSUME NEW m \in Node, m # Root  PROVE Sent(m)' = IF m = n THEN Sent(n) + 1 ELSE Sent(m)
      <3>1. CASE m = n
        <4>1. Busy(n)' /\ lock'[n] = t  BY <1>1, <1>7, <1>9
        <4>. QED BY <1>1, <1>5, <1>6, <2>1, <3>1, <4>1 DEF Sent
      <3>2. CASE m # n /\ Busy(m)
        <4>1. PICK u \in Thread : u = lock[m] /\ u # t  BY <1>1, <3>2 DEF Busy, TypeInv, LockInv
        <4>. QED BY <1>6, <1>7, <1>9, <3>2, <4>1 DEF Sent
      <3>3. CASE m # n /\ ~Busy(m)  BY <1>9, <1>17, <2>1, <3>3 DEF Sent
      <3>. QED BY <3>1, <3>2, <3>3
    <2>. QED BY <2>1
  <1>19. CountInv'
    <2>1. ASSUME NEW m \in Node  PROVE LeftLo(m)' \in 0 .. Lo(m) /\ LeftHi(m)' \in 0 .. Hi(m)
      <3>1. CASE m = n
        <4>1. Lo(n) \in Nat /\ Hi(n) \in Nat /\ ll <= Lo(n) /\ lh <= Hi(n)
          BY <1>13, Totals DEF CountInv
        <4>. QED BY <1>3, <1>14, <1>16, <3>1, <4>1
      <3>2. CASE m # n  BY <1>12, <3>2 DEF CountInv
      <3>. QED BY <3>1, <3>2
    <2>2. ASSUME NEW m \in Node, InPlay(m), m # Root
          PROVE  /\ Taken(m)' <= Dest(m)' /\ Dest(m)' <= Sent(m)'
                 /\ Taken(m)' = Base(m) + NTotal[m] - LeftOf(m)'
                 /\ Sent(m)' = Base(m) + NTotal[m] - Left(m)'
      <3>1. PICK up \in Node : up = m \div 2  BY <2>2, Parent
      <3>2. PICK a \in Int, d \in Int, b \in Nat, tot \in Nat, l \in Nat, o \in Nat :
              /\ a = Taken(m) /\ d = Dest(m) /\ b = Base(m) /\ tot = NTotal[m]
              /\ l = Left(m) /\ o = LeftOf(m)
        <4>1. Taken(m) \in Int /\ Dest(m) \in Int  BY <3>1 DEF Taken, Dest, TypeInv, NodeRecord
        <4>2. Base(m) \in Nat  BY <3>1, Totals DEF Base, Offset
        <4>3. Left(m) \in Nat /\ LeftOf(m) \in Nat  BY <2>2, LeftUp
        <4>4. NTotal[m] \in Nat  BY Totals
        <4>. QED BY <4>1, <4>2, <4>3, <4>4
      <3>3. a <= d /\ d <= Sent(m) /\ a = b + tot - o /\ Sent(m) = b + tot - l
        BY <2>2, <3>2 DEF CountInv
      <3>4. Dest(m)' = d  BY <1>17, <2>2, <3>2
      <3>5. Sent(m)' = b + tot - Left(m)' /\ d <= Sent(m)'
        <4>1. CASE m = n
          <5>1. Sent(m)' = Sent(m) + 1  BY <1>18, <2>2, <4>1
          <5>2. l = ll + lh /\ Left(m)' = l - 1  BY <1>15, <3>2, <4>1
          <5>. QED BY <3>2, <3>3, <5>1, <5>2
        <4>2. CASE m # n
          <5>1. Sent(m)' = Sent(m) /\ Left(m)' = l  BY <1>15, <1>18, <2>2, <3>2, <4>2
          <5>. QED BY <3>3, <5>1
        <4>. QED BY <4>1, <4>2
      <3>6. \E e \in {0, 1} : Taken(m)' = a + e /\ LeftOf(m)' = o - e /\ (e = 1 => a # d)
        <4>1. CASE up # n
          <5>1. Taken(m)' = a /\ LeftOf(m)' = o
            BY <1>4, <1>12, <3>1, <3>2, <4>1 DEF Taken, LeftOf
          <5>. QED BY <5>1
        <4>2. CASE up = n /\ IsLo(m)
          <5>1. Taken(m)' = a + dl /\ LeftOf(m)' = o - dl
            BY <1>4, <1>13, <1>14, <3>1, <3>2, <4>2 DEF Taken, LeftOf
          <5>2. dl = 1 => a # d  BY <1>1, <1>3, <3>1, <3>2, <4>2 DEF Taken, Dest
          <5>. QED BY <5>1, <5>2
        <4>3. CASE up = n /\ ~IsLo(m)
          <5>1. Taken(m)' = a + dh /\ LeftOf(m)' = o - dh
            BY <1>4, <1>13, <1>14, <3>1, <3>2, <4>3 DEF Taken, LeftOf
          <5>2. dh = 1 => a # d  BY <1>1, <1>3, <3>1, <3>2, <4>3 DEF Taken, Dest
          <5>. QED BY <5>1, <5>2
        <4>. QED BY <4>1, <4>2, <4>3
      <3>. QED BY <3>2, <3>3, <3>4, <3>5, <3>6
    <2>3. ASSUME NEW m \in Node, InPlay(m), ~Split(m), ~Unsorted(m)
          PROVE  /\ node'[m].end_lo - node'[m].lo = LeftLo(m)'
                 /\ node'[m].end_hi - node'[m].hi = LeftHi(m)'
      <3>1. node[m].end_lo - node[m].lo = LeftLo(m) /\ node[m].end_hi - node[m].hi = LeftHi(m)
        BY <2>3 DEF CountInv
      <3>2. CASE m # n  BY <1>4, <1>12, <3>1, <3>2
      <3>3. CASE m = n
        <4>1. k.end_lo - k.lo = ll /\ k.end_hi - k.hi = lh  BY <1>2, <1>13, <3>1, <3>3
        <4>2. k.end_lo \in Int /\ k.lo \in Int /\ k.end_hi \in Int /\ k.hi \in Int  BY DEF NodeRecord
        <4>3. k.end_lo - (k.lo + dl) = ll - dl /\ k.end_hi - (k.hi + dh) = lh - dh
          <5>1. PICK x \in Int, y \in Int, v \in Int, w \in Int :
                  x = k.end_lo /\ y = k.lo /\ v = k.end_hi /\ w = k.hi
            BY <4>2
          <5>2. x - y = ll /\ v - w = lh  BY <4>1, <5>1
          <5>3. x - (y + dl) = ll - dl /\ v - (w + dh) = lh - dh  BY <5>2
          <5>. QED BY <5>1, <5>3
        <4>. QED BY <1>2, <1>4, <1>14, <3>3, <4>3
      <3>. QED BY <3>2, <3>3
    <2>. QED BY <1>9, <2>1, <2>2, <2>3 DEF CountInv, Base
  <1>20. QueueInv'
    <2>1. ASSUME NEW m \in Node, node[m].queued, Left(m) > 0  PROVE node'[m].queued /\ Left(m)' > 0
      <3>1. m # n  BY <1>1, <2>1
      <3>. QED BY <1>4, <1>15, <2>1, <3>1
    <2>2. \A m \in Node : queue[m] > 0 => node'[m].queued /\ Left(m)' > 0  BY <2>1 DEF QueueInv
    <2>3. ASSUME NEW u \in Thread, pc[u] = "lock", at[u] # End  PROVE node'[at[u]].queued /\ Left(at[u])' > 0
      <3>1. PICK m \in Node : m = at[u]  BY <2>3 DEF TypeInv
      <3>2. node'[m].queued /\ Left(m)' > 0  BY <2>1, <2>3, <3>1 DEF QueueInv
      <3>. QED BY <1>7, <3>1, <3>2 DEF Left, LeftLo, LeftHi, Busy
    <2>4. ASSUME NEW u \in Thread, pc[u] \in {"merge", "rest", "check"}  PROVE ~node'[at[u]].queued
      <3>1. PICK m \in Node \cup {End} : m = at[u]  BY DEF TypeInv
      <3>2. ~node[m].queued  BY <2>4, <3>1 DEF QueueInv
      <3>3. node'[m].queued = node[m].queued  BY <1>4
      <3>. QED BY <3>1, <3>2, <3>3
    <2>. QED BY <1>7, <2>2, <2>3, <2>4 DEF QueueInv
  <1>21. EndInv'
    <2>1. \A u \in Thread : HasEnd(u)' <=> HasEnd(u)  BY <1>7 DEF HasEnd
    <2>2. EndInserted' <=> EndInserted  BY <1>7, <2>1 DEF EndInserted
    <2>3. EndInserted => n # Root  BY <1>1 DEF EndInv
    <2>4. EndInserted => Left(Root)' = Left(Root)  BY <1>15, <2>3, NodeFacts
    <2>. QED BY <1>7, <2>1, <2>2, <2>4 DEF EndInv
  <1>22. StartInv'
    <2>1. ASSUME NEW m \in Node, InPlay(m), m # Root, Left(m \div 2)' < NTotal[m \div 2]
          PROVE  Left(m)' < NTotal[m]
      <3>1. PICK up \in Node : up = m \div 2 /\ Split(up)  BY <2>1, InPlayFacts
      <3>2. CASE m = n
        <4>1. Lo(n) \in Nat /\ Hi(n) \in Nat /\ ll <= Lo(n) /\ lh <= Hi(n) /\ Lo(n) + Hi(n) = NTotal[n]
          BY <1>13, Totals DEF CountInv
        <4>. QED BY <1>15, <3>2, <4>1
      <3>3. CASE m # n /\ up # n
        <4>1. Left(up)' = Left(up) /\ Left(m)' = Left(m)  BY <1>15, <3>3
        <4>2. Left(up) < NTotal[up]
          <5>1. Left(up)' < NTotal[up]  BY <2>1, <3>1
          <5>. QED BY <4>1, <5>1
        <4>. QED BY <2>1, <3>1, <4>1, <4>2 DEF StartInv
      <3>4. CASE m # n /\ up = n
        <4>1. m = IF IsLo(m) THEN 2 * n ELSE 2 * n + 1  BY <2>1, <3>1, <3>4, Parent
        <4>2. Left(m)' = Left(m)  BY <1>15, <3>4
        <4>3. NTotal[m] >= 2 /\ NTotal[m] \in Nat  BY <2>1, InPlayFacts, Totals
        <4>4. CASE BothAvailable(n)  BY <1>1, <3>1, <3>4, <4>1, <4>2, <4>4, AvailableLeft DEF BothAvailable
        <4>5. CASE ~BothAvailable(n) /\ IsLo(m) /\ dl = 1  BY <1>16, <3>1, <3>4, <4>1, <4>2, <4>5
        <4>6. CASE ~BothAvailable(n) /\ IsLo(m) /\ dl # 1
          <5>1. LeftOf(m) = 0  BY <1>1, <1>3, <3>1, <3>4, <4>6 DEF LeftOf
          <5>2. Left(m) <= 0  BY <2>1, <5>1, LeftUp
          <5>. QED BY <2>1, <4>2, <4>3, <5>2, LeftUp
        <4>7. CASE ~BothAvailable(n) /\ ~IsLo(m) /\ dh = 1  BY <1>16, <3>1, <3>4, <4>1, <4>2, <4>7
        <4>8. CASE ~BothAvailable(n) /\ ~IsLo(m) /\ dh # 1
          <5>1. LeftOf(m) = 0  BY <1>1, <1>3, <3>1, <3>4, <4>8 DEF LeftOf
          <5>2. Left(m) <= 0  BY <2>1, <5>1, LeftUp
          <5>. QED BY <2>1, <4>2, <4>3, <5>2, LeftUp
        <4>. QED BY <1>3, <4>4, <4>5, <4>6, <4>7, <4>8
      <3>. QED BY <3>2, <3>3, <3>4
    <2>2. ASSUME NEW m \in Node, InPlay(m)', m # Root, Left(m \div 2)' < NTotal[m \div 2]
          PROVE  Left(m)' < NTotal[m]
      BY <1>9, <2>1, <2>2
    <2>. QED BY <2>2 DEF StartInv
  <1>. QED BY <1>8, <1>10, <1>11, <1>19, <1>20, <1>21, <1>22

(* A line from one of two sides that both have one.                         *)
LEMMA MergeBothSafe ==
  ASSUME SortInv, NEW t \in Thread, MergeBoth(t)
  PROVE  SortInv'
  <1>1. Merging(t) /\ BothAvailable(at[t]) /\ reg[t].to_merge > 0
    BY DEF MergeBoth, Merging
  <1>2. PICK side \in {"lo", "hi"} : Move(t, side)  BY DEF MergeBoth
  <1>. QED BY <1>1, <1>2, MoveSafe DEF BothAvailable

(* A line from one side, when nothing is left on the other.                 *)
LEMMA MergeRestSafe ==
  ASSUME SortInv, NEW t \in Thread, MergeRest(t)
  PROVE  SortInv'
  <1>1. Merging(t) /\ pc[t] = "rest"  BY DEF MergeRest, Merging
  <1>2. PICK n \in Node : n = at[t] /\ lock[n] = t /\ Busy(n)
    BY <1>1, MergingFacts
  <1>3. /\ node[n].lo \in Int /\ node[n].hi \in Int /\ node[n].nlo \in Int /\ node[n].nhi \in Int
        /\ reg[t].lo \in Int /\ reg[t].hi \in Int
    BY DEF SortInv, TypeInv, NodeRecord, RegRecord
  <1>4. LeftLo(n) = node[n].nlo - MergedLo(t) /\ LeftHi(n) = node[n].nhi - MergedHi(t)
    BY <1>2 DEF LeftLo, LeftHi, MergedLo, MergedHi
  <1>5. MergedLo(t) \in Int /\ MergedHi(t) \in Int
    BY <1>2, <1>3 DEF MergedLo, MergedHi
  <1>6. CASE RestOfLo(t) /\ Move(t, "lo")
    <2>1. LeftHi(at[t]) = 0  BY <1>2, <1>3, <1>4, <1>5, <1>6 DEF RestOfLo
    <2>2. reg[t].to_merge > 0  BY DEF MergeRest
    <2>3. node[at[t]].lo # node[at[t]].end_lo  BY <1>6 DEF RestOfLo
    <2>4. PICK side \in {"lo", "hi"} : side = "lo"  OBVIOUS
    <2>5. Move(t, side)  BY <1>6, <2>4
    <2>. QED BY <1>1, <2>1, <2>2, <2>3, <2>4, <2>5, MoveSafe
  <1>7. CASE RestOfHi(t) /\ Move(t, "hi") /\ reg[t].to_merge > 0
    <2>1. LeftLo(at[t]) = 0  BY <1>2, <1>3, <1>4, <1>5, <1>7 DEF RestOfHi
    <2>3. node[at[t]].hi # node[at[t]].end_hi  BY <1>7 DEF RestOfHi
    <2>4. PICK side \in {"lo", "hi"} : side = "hi"  OBVIOUS
    <2>5. Move(t, side)  BY <1>7, <2>4
    <2>. QED BY <1>1, <1>7, <2>1, <2>3, <2>4, <2>5, MoveSafe
  <1>. QED BY <1>6, <1>7 DEF MergeRest

(* It holds at the start.                                                   *)
LEMMA InitSafe ==
  ASSUME Init
  PROVE  SortInv
  <1>1. /\ mem = [a \in Cells |-> IF a <= NLines THEN a ELSE Junk]
        /\ lock = [n \in Node \cup {End} |-> Free] /\ queue = [n \in Node \cup {End} |-> 0]
        /\ pc = [t \in Thread |-> IF t = Root THEN "sortlines" ELSE "none"]
        /\ at = [t \in Thread |-> t] /\ reg = [t \in Thread |-> Unset]
        /\ joins = [t \in Thread |-> {}]
    BY DEF Init
  <1>2. \A n \in Node : node[n] = Initially(n)
    BY NodeFacts DEF Init, Initially
  <1>3. \A t \in Thread : t \in Node  BY NodeFacts
  <1>4. \A n : ~Split(n) /\ (InPlay(n) <=> n = Root)  BY <1>1 DEF Split, InPlay
  <1>5. \A t \in Thread : (Sorting(t) <=> t = Root) /\ ~Holding(t) /\ ~HasEnd(t)
    BY <1>1 DEF Sorting, Holding, HasEnd
  <1>6. \A n : Unsorted(n) <=> n = Root  BY <1>1, <1>5, NodeFacts DEF Unsorted
  <1>7. TypeInv
    <2>1. ASSUME NEW n \in Node  PROVE Initially(n) \in NodeRecord
      <3>1. Place(n) \in Int /\ Place(n) + Lo(n) \in Int /\ Lo(n) \in Int /\ Hi(n) \in Int  BY Totals
      <3>. QED BY <3>1 DEF Initially, MergeNode, NodeRecord
    <2>2. MergeNode(0, 0, 0, 0, NLines, NLines) \in NodeRecord
      BY SizeAssumption DEF MergeNode, NodeRecord
    <2>3. node \in [Node \cup {End} -> NodeRecord]
      BY <2>1, <2>2 DEF Init, Initially
    <2>4. Unset \in RegRecord  BY DEF Unset, RegRecord
    <2>5. pc \in [Thread -> Places]  BY <1>1 DEF Places
    <2>6. mem = [a \in Cells |-> mem[a]]  BY <1>1
    <2>. QED BY <1>1, <1>3, <2>3, <2>4, <2>5, <2>6 DEF TypeInv
  <1>8. TreeInv
    <2>1. \A t \in Thread : pc[t] = "none" <=> t # Root  BY <1>1
    <2>. QED BY <1>1, <1>2, <1>3, <1>4, <1>5, <1>6, <2>1, NodeFacts DEF TreeInv
  <1>9. LockInv  BY <1>1, <1>5 DEF LockInv
  <1>10. CountInv
    <2>1. ASSUME NEW n \in Node  PROVE LeftLo(n) \in 0 .. Lo(n) /\ LeftHi(n) \in 0 .. Hi(n)
      <3>1. LeftLo(n) = Lo(n) /\ LeftHi(n) = Hi(n)  BY <1>1, <1>2, UntouchedLeft
      <3>. QED BY <3>1, Totals
    <2>. QED BY <1>4, <1>6, <2>1 DEF CountInv
  <1>11. QueueInv  BY <1>1 DEF QueueInv
  <1>12. EndInv
    <2>1. ~EndInserted  BY <1>1, <1>5 DEF EndInserted
    <2>. QED BY <1>1, <1>5, <2>1 DEF EndInv
  <1>13. StartInv  BY <1>4 DEF StartInv
  <1>. QED BY <1>7, <1>8, <1>9, <1>10, <1>11, <1>12, <1>13 DEF SortInv

(* Every step keeps it.                                                     *)
LEMMA StepSafe ==
  ASSUME SortInv, Next
  PROVE  SortInv'
  <1>1. PICK t \in Thread : Step(t) \/ SpuriousWakeup(t)  BY DEF Next
  <1>2. CASE CreateThread(t)  BY <1>2, CreateThreadSafe
  <1>3. CASE SortSequentially(t)  BY <1>3, SortSequentiallySafe
  <1>4. CASE EndSort(t)  BY <1>4, EndSortSafe
  <1>5. CASE QueuePop(t)  BY <1>5, QueuePopSafe
  <1>6. CASE LockNode(t)  BY <1>6, LockNodeSafe
  <1>7. CASE ReinsertEnd(t)  BY <1>7, ReinsertEndSafe
  <1>8. CASE MergeBoth(t)  BY <1>8, MergeBothSafe
  <1>9. CASE EndBoth(t)  BY <1>9, EndBothSafe
  <1>10. CASE MergeRest(t)  BY <1>10, MergeRestSafe
  <1>11. CASE Publish(t)  BY <1>11, PublishSafe
  <1>12. CASE CheckSelf(t)  BY <1>12, CheckSelfSafe
  <1>13. CASE CheckParent(t)  BY <1>13, CheckParentSafe
  <1>14. CASE UnlockNode(t)  BY <1>14, UnlockNodeSafe
  <1>15. CASE Join(t)  BY <1>15, JoinSafe
  <1>16. CASE SpuriousWakeup(t)  BY <1>16, SpuriousWakeupSafe
  <1>. QED BY <1>1, <1>2, <1>3, <1>4, <1>5, <1>6, <1>7, <1>8, <1>9, <1>10, <1>11, <1>12,
              <1>13, <1>14, <1>15, <1>16 DEF Step, Merges

(* However the threads interleave, the tree, the locks, the counts of lines *)
(* and the queue agree.                                                     *)
THEOREM AlwaysAgreeing == Spec => []SortInv
  <1>1. SortInv /\ [Next]_vars => SortInv'  BY StepSafe, StutterSafe
  <1>. QED BY <1>1, InitSafe, PTL DEF Spec

(* What they agree on rules out a second copy of a node in the queue, and   *)
(* any other node there with MERGE_END.                                     *)
LEMMA AgreeingQueue ==
  ASSUME SortInv
  PROVE  QueuedOnce
  <1>. USE DEF SortInv
  <1>1. DOMAIN queue = Node \cup {End}  BY DEF TypeInv
  <1>2. ASSUME NEW n \in Node \cup {End}
        PROVE  queue[n] + Cardinality({ t \in Thread : pc[t] = "lock" /\ at[t] = n }) <= 1
    <2>. DEFINE W == { t \in Thread : pc[t] = "lock" /\ at[t] = n }
    <2>1. queue[n] \in Nat /\ queue[n] <= 1  BY DEF TypeInv, QueueInv
    <2>2. CASE W = {}
      <3>1. Cardinality(W) = 0  BY <2>2, FS_EmptySet
      <3>. HIDE DEF W
      <3>2. queue[n] + Cardinality(W) <= 1  BY <2>1, <3>1
      <3>. QED BY <3>2 DEF W
    <2>3. CASE W # {}
      <3>1. PICK t : t \in W  BY <2>3
      <3>2. W = {t}  BY <3>1 DEF QueueInv
      <3>3. queue[n] = 0  BY <3>1 DEF QueueInv
      <3>4. Cardinality(W) = 1  BY <3>2, FS_Singleton
      <3>. HIDE DEF W
      <3>5. queue[n] + Cardinality(W) <= 1  BY <3>3, <3>4
      <3>. QED BY <3>5 DEF W
    <2>. QED BY <2>2, <2>3
  <1>3. ASSUME NEW n \in Node, queue[End] > 0, queue[n] # 0  PROVE FALSE
    <2>1. queue[n] \in Nat  BY DEF TypeInv
    <2>2. InPlay(n) /\ Left(n) > 0  BY <1>3, <2>1 DEF TreeInv, QueueInv
    <2>3. Left(Root) = 0  BY <1>3 DEF EndInv, EndInserted
    <2>4. Left(n) = 0  BY <2>2, <2>3, NothingLeft
    <2>. QED BY <2>2, <2>4
  <1>. QED BY <1>1, <1>2, <1>3 DEF QueuedOnce

(* A node is in the queue once at most, and MERGE_END is there alone.       *)
THEOREM AlwaysQueuedOnce == Spec => []QueuedOnce
  BY AlwaysAgreeing, AgreeingQueue, PTL

-----------------------------------------------------------------------------
(* The lines of a node are in the buffer.                                   *)
LEMMA LinesFit ==
  \A n \in Node : Lines[n] + NTotal[n] <= NLines
  <1>. DEFINE A == { n \in 1 .. Bound : Lines[n] + NTotal[n] <= NLines }
  <1>1. Bound \in Nat /\ 1 \in 1 .. Bound  BY SizeAssumption DEF Bound
  <1>2. 1 \in A
    <2>1. Lines[1] = 0 /\ NTotal[1] = NLines  BY <1>1, LinesDef, NTotalDef DEF Root
    <2>. QED BY <1>1, <2>1, SizeAssumption
  <1>3. ASSUME NEW n \in 2 .. Bound, n \div 2 \in A  PROVE n \in A
    <2>1. n \in 1 .. Bound /\ n # Root /\ n \div 2 \in 1 .. Bound  BY <1>1 DEF Root
    <2>2. PICK l \in Nat, k \in Nat : l = Lines[n \div 2] /\ k = NTotal[n \div 2]
      BY <2>1, LinesDef, NTotalDef
    <2>3. NTotal[n] = IF IsLo(n) THEN k \div 2 ELSE k - k \div 2  BY <2>1, <2>2, NTotalDef
    <2>4. Lines[n] = l + IF IsLo(n) THEN 0 ELSE k \div 2  BY <2>1, <2>2, LinesDef DEF Offset, Lo
    <2>5. Lines[n] + NTotal[n] <= l + k
      <3>1. CASE IsLo(n)
        <4>1. Lines[n] = l /\ NTotal[n] = k \div 2  BY <2>2, <2>3, <2>4, <3>1
        <4>. QED BY <4>1
      <3>2. CASE ~IsLo(n)
        <4>1. Lines[n] = l + k \div 2 /\ NTotal[n] = k - k \div 2  BY <2>2, <2>3, <2>4, <3>2
        <4>. QED BY <4>1
      <3>. QED BY <3>1, <3>2
    <2>6. PICK x \in Nat : x = Lines[n] + NTotal[n]  BY <2>1, LinesDef, NTotalDef
    <2>. QED BY <1>3, <2>1, <2>2, <2>5, <2>6, SizeAssumption
  <1>. HIDE DEF A
  <1>4. \A n \in 1 .. Bound : n \in A  BY <1>1, <1>2, <1>3, FromTheTop
  <1>. QED BY <1>4, NodeFacts DEF A

(* Every node in play but the root has its lines where a child of the root  *)
(* has its own; if all of its lines are left, so are all of the child's.    *)
Above(c, n) ==
  /\ c \in Node /\ InPlay(c) /\ c # Root /\ c \div 2 = Root
  /\ Lines[c] <= Lines[n] /\ Lines[n] + NTotal[n] <= Lines[c] + NTotal[c]
  /\ Left(n) = NTotal[n] => Left(c) = NTotal[c]
QuietInv == \A n \in Node : InPlay(n) /\ n # Root => \E c \in Node : Above(c, n)

(* This follows.                                                            *)
LEMMA Quiet == SortInv => QuietInv
  <1>. SUFFICES ASSUME SortInv PROVE QuietInv  OBVIOUS
  <1>. DEFINE A == { n \in 1 .. Bound : n \in Node /\ InPlay(n) /\ n # Root => \E c \in Node : Above(c, n) }
  <1>1. Bound \in Nat /\ 1 \in A  BY SizeAssumption DEF Bound, Root
  <1>2. ASSUME NEW n \in 2 .. Bound, n \div 2 \in A  PROVE n \in A
    <2>1. ASSUME n \in Node, InPlay(n), n # Root  PROVE \E c \in Node : Above(c, n)
      <3>1. PICK up \in Node : up = n \div 2 /\ InPlay(up)  BY <2>1, InPlayFacts DEF SortInv
      <3>2. PICK l \in Nat, k \in Nat, ul \in Nat, uk \in Nat :
              l = Lines[n] /\ k = NTotal[n] /\ ul = Lines[up] /\ uk = NTotal[up]
        BY <2>1, Totals
      <3>3. CASE up = Root  BY <2>1, <3>1, <3>2, <3>3 DEF Above
      <3>4. CASE up # Root
        <4>1. PICK c \in Node : Above(c, up)  BY <1>2, <3>1, <3>4
        <4>2. ul <= l /\ l + k <= ul + uk
          <5>1. PICK lo \in Nat, hi \in Nat : lo = Lo(up) /\ hi = Hi(up) /\ lo + hi = uk
            BY <3>2, Totals
          <5>2. k = (IF IsLo(n) THEN lo ELSE hi) /\ l = ul + IF IsLo(n) THEN 0 ELSE lo
            BY <2>1, <3>1, <3>2, <5>1, Totals DEF Offset
          <5>. QED BY <5>1, <5>2
        <4>3. ASSUME Left(n) = NTotal[n]  PROVE Left(up) = NTotal[up]
          <5>1. ~(Left(up) < NTotal[up])
            <6>1. ~(Left(n) < NTotal[n])  BY <3>2, <4>3
            <6>. QED BY <2>1, <3>1, <6>1 DEF SortInv, StartInv
          <5>2. PICK a \in Nat, b \in Nat : a = LeftLo(up) /\ b = LeftHi(up) /\ a <= Lo(up) /\ b <= Hi(up)
            BY Totals DEF SortInv, CountInv
          <5>3. Left(up) = a + b  BY <5>2 DEF Left
          <5>4. Lo(up) \in Nat /\ Hi(up) \in Nat /\ Lo(up) + Hi(up) = uk  BY <3>2, Totals
          <5>. QED BY <3>2, <5>1, <5>2, <5>3, <5>4
        <4>4. PICK cl \in Nat, ck \in Nat : cl = Lines[c] /\ ck = NTotal[c]  BY Totals
        <4>5. cl <= ul /\ ul + uk <= cl + ck  BY <3>2, <4>1, <4>4 DEF Above
        <4>6. cl <= l /\ l + k <= cl + ck  BY <4>2, <4>5
        <4>7. Lines[c] <= Lines[n] /\ Lines[n] + NTotal[n] <= Lines[c] + NTotal[c]
          BY <3>2, <4>4, <4>6
        <4>8. Left(n) = NTotal[n] => Left(c) = NTotal[c]  BY <4>1, <4>3 DEF Above
        <4>. QED BY <4>1, <4>7, <4>8 DEF Above
      <3>. QED BY <3>3, <3>4
    <2>2. n \in 1 .. Bound  OBVIOUS
    <2>. QED BY <2>1, <2>2
  <1>. HIDE DEF A
  <1>3. \A n \in 1 .. Bound : n \in A  BY <1>1, <1>2, FromTheTop
  <1>. QED BY <1>3, NodeFacts DEF A, QuietInv

(* The space of a leaf comes after the buffer, as far from its start as the *)
(* lines of the leaf from that of the buffer.                               *)
LEMMA TempPlace ==
  ASSUME NEW n \in Node, NEW a \in Temp(n)
  PROVE  /\ a \in Nat /\ a \in Cells
         /\ a > NLines + Lines[n] /\ a <= NLines + Lines[n] + NTotal[n] /\ a <= 2 * NLines
  <1>1. PICK l \in Nat, k \in Nat, lo \in Nat, hi \in Nat :
          l = Lines[n] /\ k = NTotal[n] /\ lo = Lo(n) /\ hi = Hi(n) /\ lo + hi = k
    BY Totals
  <1>2. PICK w \in Nat : w = (IF hi > 1 THEN hi \div 2 ELSE 0) /\ w <= hi  OBVIOUS
  <1>3. PICK i \in 1 .. lo \div 2 + w : a = l + NLines + i
    BY <1>1, <1>2 DEF Temp
  <1>4. lo \div 2 \in Nat /\ lo \div 2 <= lo  OBVIOUS
  <1>5. i \in Nat /\ 1 <= i /\ i <= k  BY <1>1, <1>2, <1>3, <1>4
  <1>6. l + k <= NLines /\ NLines \in Nat  BY <1>1, LinesFit, SizeAssumption
  <1>7. a \in Nat /\ a > NLines + l /\ a <= NLines + l + k /\ a <= 2 * NLines
    BY <1>3, <1>5, <1>6
  <1>8. a \in 1 .. NLines * Bound
    <2>1. PICK b \in Nat : b = Bound /\ b >= 4  BY SizeAssumption DEF Bound
    <2>2. 2 * NLines <= b * NLines  BY <1>6, <2>1
    <2>3. b * NLines = NLines * b  BY <1>6, <2>1
    <2>4. PICK p \in Nat : p = NLines * b  BY <1>6, <2>1
    <2>5. 2 * NLines <= p  BY <2>2, <2>3, <2>4
    <2>6. a \in 1 .. p  BY <1>5, <1>6, <1>7, <2>5
    <2>. QED BY <2>1, <2>4, <2>6
  <1>. QED BY <1>1, <1>7, <1>8 DEF Cells

(* Nobody starts to sort, and nothing is written there.                     *)
LEMMA SpaceKept ==
  ASSUME SortsInOwnSpace,
         \A u \in Thread : pc'[u] = "sort" => pc[u] = "sort" /\ at'[u] = at[u],
         \A u \in Thread : pc[u] = "sort" => \A a \in Temp(at[u]) : mem'[a] = mem[a] \/ mem'[a] = Junk
  PROVE  SortsInOwnSpace'
  <1>1. ASSUME NEW u \in Thread, pc'[u] = "sort", NEW m, m = at'[u], NEW a \in Temp(m)
        PROVE  mem'[a] = Junk
    <2>1. pc[u] = "sort" /\ m = at[u]  BY <1>1
    <2>2. mem[a] = Junk  BY <1>1, <2>1 DEF SortsInOwnSpace
    <2>. QED BY <1>1, <2>1, <2>2
  <1>. QED BY <1>1 DEF SortsInOwnSpace, Temp

(* A thread that starts to sort has its space, and takes none from others.  *)
LEMMA SortSequentiallySpace ==
  ASSUME SortInv, SortsInOwnSpace, NEW t \in Thread, SortSequentially(t)
  PROVE  SortsInOwnSpace'
  <1>1. PICK n \in Node : n = at[t]
    <2>1. Sorting(t)  BY DEF SortSequentially, Sorting
    <2>. QED BY <2>1 DEF SortInv, TreeInv, TypeInv
  <1>2. /\ at' = at /\ \A u \in Thread : u # t => pc'[u] = pc[u]
        /\ mem' = [a \in Cells |-> IF a \in Temp(n) THEN Junk ELSE mem[a]]
    BY <1>1 DEF SortSequentially, Goto, SortInv, TypeInv
  <1>3. ASSUME NEW u \in Thread, pc'[u] = "sort", NEW m \in Node, m = at[u], NEW a \in Temp(m)
        PROVE  mem'[a] = Junk
    <2>1. a \in Cells  BY TempPlace
    <2>2. CASE u = t  BY <1>1, <1>2, <1>3, <2>1, <2>2
    <2>3. CASE u # t
      <3>1. mem[a] = Junk  BY <1>2, <1>3, <2>3 DEF SortsInOwnSpace
      <3>. QED BY <1>2, <2>1, <3>1
    <2>. QED BY <2>2, <2>3
  <1>4. ASSUME NEW u \in Thread, pc'[u] = "sort"  PROVE at[u] \in Node
    <2>1. CASE u = t  BY <1>1, <2>1
    <2>2. CASE u # t
      <3>1. Sorting(u)  BY <1>2, <1>4, <2>2 DEF Sorting
      <3>. QED BY <3>1 DEF SortInv, TreeInv, TypeInv
    <2>. QED BY <2>1, <2>2
  <1>5. ASSUME NEW u \in Thread, pc'[u] = "sort", NEW m, m = at'[u], NEW a \in Temp(m)
        PROVE  mem'[a] = Junk
    BY <1>2, <1>3, <1>4, <1>5
  <1>. QED BY <1>5 DEF SortsInOwnSpace, Temp

(* A thread that sorts has a leaf.                                          *)
LEMMA SortingLeaf ==
  ASSUME SortInv, NEW u \in Thread, pc[u] = "sort"
  PROVE  \E m \in Node : m = at[u] /\ Unsorted(m) /\ InPlay(m)
  <1>1. Sorting(u)  BY DEF Sorting
  <1>2. PICK m \in Node : m = at[u]  BY <1>1 DEF SortInv, TreeInv, TypeInv
  <1>3. Unsorted(m)  BY <1>1, <1>2 DEF Unsorted
  <1>. QED BY <1>2, <1>3, UnsortedLeft

(* The lines that have been sorted are put back into the buffer.            *)
LEMMA EndSortSpace ==
  ASSUME SortInv, SortsInOwnSpace, NEW t \in Thread, EndSort(t)
  PROVE  SortsInOwnSpace'
  <1>1. pc[t] = "sort"  BY DEF EndSort
  <1>2. PICK n \in Node : n = at[t]  BY <1>1, SortingLeaf
  <1>3. PICK l \in Nat, lo \in Nat, hi \in Nat : l = Lines[n] /\ lo = Lo(n) /\ hi = Hi(n)
    BY Totals
  <1>4. l + lo + hi <= NLines
    <2>1. lo + hi = NTotal[n]  BY <1>3, Totals
    <2>2. l + (lo + hi) <= NLines  BY <1>3, <2>1, LinesFit
    <2>. QED BY <2>2, SizeAssumption
  <1>5. PICK f, g :
          /\ f = SortedCells(l, l + lo) /\ g = SortedCells(l + lo, l + lo + hi)
          /\ mem' = [a \in Cells |-> IF a \in DOMAIN f THEN f[a] ELSE IF a \in DOMAIN g THEN g[a] ELSE mem[a]]
    BY <1>2, <1>3 DEF EndSort
  <1>6. DOMAIN f = l + 1 .. l + lo /\ DOMAIN g = l + lo + 1 .. l + lo + hi
    BY <1>5 DEF SortedCells
  <1>7. Moves(t, "pop")  BY <1>1, GotoMoves DEF EndSort, Places, SortInv
  <1>8. \A u \in Thread : u # t => at'[u] = at[u]  BY DEF EndSort, SortInv, TypeInv
  <1>9. \A u \in Thread : pc'[u] = "sort" => pc[u] = "sort" /\ at'[u] = at[u]
    BY <1>7, <1>8 DEF Moves
  <1>10. ASSUME NEW u \in Thread, pc[u] = "sort", NEW a \in Temp(at[u])  PROVE mem'[a] = mem[a]
    <2>1. PICK m \in Node : m = at[u]  BY <1>10, SortingLeaf
    <2>2. a \in Cells /\ a \in Nat /\ a > NLines + Lines[m]  BY <1>10, <2>1, TempPlace
    <2>3. Lines[m] \in Nat  BY Totals
    <2>4. a > NLines  BY <2>2, <2>3, SizeAssumption
    <2>5. ~(a \in DOMAIN f) /\ ~(a \in DOMAIN g)  BY <1>4, <1>6, <2>2, <2>4, SizeAssumption
    <2>. QED BY <1>5, <2>2, <2>5
  <1>. QED BY <1>9, <1>10, SpaceKept

(* Where a node merges to comes after what is being sorted, or its lines    *)
(* have another place in the buffer.                                        *)
LEMMA MoveSpace ==
  ASSUME SortInv, SortInv', QuietInv', SortsInOwnSpace,
         NEW t \in Thread, NEW side, Move(t, side), Merging(t)
  PROVE  SortsInOwnSpace'
  <1>. USE DEF SortInv
  <1>1. PICK n \in Node :
           /\ n = at[t] /\ InPlay(n) /\ ~Unsorted(n) /\ lock[n] = t /\ t # Free /\ Busy(n)
           /\ ~node[n].queued /\ pc[t] \in {"merge", "rest"} /\ Holding(t) /\ ~Sorting(t)
    BY MergingFacts
  <1>2. UNCHANGED <<config, lock, queue, pc, at, joins>>  BY DEF Move
  <1>3. CASE n = Root
    <2>1. mem' = mem  BY <1>1, <1>3 DEF Move
    <2>. QED BY <1>2, <2>1, SpaceKept
  <1>4. CASE n # Root
    <2>0. PICK w \in Int : /\ w = reg[t].dest + 1 /\ reg'[t].dest = w
                           /\ \E i : mem' = [mem EXCEPT ![w] = i]
      <3>1. reg[t] \in RegRecord /\ reg \in [Thread -> RegRecord]  BY DEF TypeInv
      <3>2. PICK w \in Int, x \in Int : w = reg[t].dest + 1 /\ x = reg[t].to_merge - 1
        BY <3>1 DEF RegRecord
      <3>3. PICK r : r = [reg[t] EXCEPT !.dest = w, !.to_merge = x]  OBVIOUS
      <3>4. r.dest = w  BY <3>1, <3>3 DEF RegRecord
      <3>5. reg' = [reg EXCEPT ![t].dest = @ + 1, ![t].to_merge = @ - 1]  BY <1>1, <1>4 DEF Move
      <3>6. reg' = [reg EXCEPT ![t] = r]  BY <3>1, <3>2, <3>3, <3>5
      <3>7. reg'[t].dest = w  BY <3>1, <3>4, <3>6
      <3>. QED BY <1>1, <1>4, <3>2, <3>7 DEF Move
    <2>1. PICK i : w = reg[t].dest + 1 /\ mem' = [mem EXCEPT ![w] = i] /\ reg'[t].dest = w
      BY <2>0
    <2>2. PICK up \in Node : up = n \div 2 /\ InPlay(up) /\ Split(up)
      BY <1>1, <1>4, InPlayFacts
    <2>3. PICK b \in Nat, k \in Nat, l \in Nat : b = Base(n) /\ k = NTotal[n] /\ l = Left(n)
      <3>1. Base(n) \in Nat  BY <2>2, Totals DEF Base, Offset
      <3>. QED BY <1>1, <1>4, <3>1, LeftUp, Totals
    <2>4. l <= k
      <3>1. LeftLo(n) \in 0 .. Lo(n) /\ LeftHi(n) \in 0 .. Hi(n)  BY DEF CountInv
      <3>2. Lo(n) \in Nat /\ Hi(n) \in Nat /\ Lo(n) + Hi(n) = k  BY <2>3, Totals
      <3>. QED BY <2>3, <3>1, <3>2 DEF Left
    <2>5. PICK ll \in Nat : ll = Left(n)'
      <3>1. LeftLo(n)' \in 0 .. Lo(n) /\ LeftHi(n)' \in 0 .. Hi(n)  BY DEF CountInv
      <3>2. Lo(n) \in Nat /\ Hi(n) \in Nat  BY Totals
      <3>. QED BY <3>1, <3>2 DEF Left
    <2>6. w - 1 = b + k - l
      <3>1. Sent(n) = reg[t].dest  BY <1>1 DEF Sent
      <3>2. Sent(n) = b + k - l  BY <1>1, <1>4, <2>3 DEF CountInv
      <3>3. reg[t].dest = b + k - l  BY <3>1, <3>2
      <3>. QED BY <2>1, <2>3, <3>3
    <2>7. w = b + k - ll
      <3>1. Busy(n)' /\ lock'[n] = t  BY <1>1, <1>2 DEF Busy, Merging
      <3>2. Sent(n)' = w  BY <2>1, <3>1 DEF Sent
      <3>3. InPlay(n)'  BY <1>1, <1>2 DEF InPlay, Split
      <3>4. Sent(n)' = b + k - ll  BY <1>4, <2>3, <2>5, <3>3 DEF CountInv, Base
      <3>. QED BY <3>2, <3>4
    <2>8. w > b /\ w <= b + k /\ ll < k  BY <2>4, <2>6, <2>7
    <2>9. ASSUME NEW u \in Thread, pc[u] = "sort", NEW a \in Temp(at[u])  PROVE a # w
      <3>1. PICK m \in Node : m = at[u] /\ Unsorted(m) /\ InPlay(m)  BY <2>9, SortingLeaf
      <3>2. a \in Nat /\ a > NLines + Lines[m] /\ a <= NLines + Lines[m] + NTotal[m] /\ a <= 2 * NLines
        BY <2>9, <3>1, TempPlace
      <3>3. CASE up # Root
        <4>1. PICK lv \in Nat : lv = Level[up] /\ lv >= 2
          <5>1. up \div 2 \in Node  BY <3>3, Parent
          <5>2. Level[up \div 2] \in Nat \ {0} /\ Level[up] = Level[up \div 2] + 1
            BY <3>3, <5>1, Totals
          <5>. QED BY <5>2
        <4>2. PICK p \in Nat : p = lv * NLines /\ p >= 2 * NLines
          BY <4>1, SizeAssumption
        <4>3. Lines[up] \in Nat /\ Offset(n) \in Nat  BY <2>2, Totals DEF Offset
        <4>4. b = Lines[up] + p + Offset(n)  BY <2>2, <2>3, <4>1, <4>2 DEF Base, Place
        <4>5. b >= 2 * NLines  BY <4>2, <4>3, <4>4, SizeAssumption
        <4>. QED BY <2>8, <3>2, <4>5, SizeAssumption
      <3>4. CASE up = Root
        <4>1. m # Root
          <5>1. Root \in Nat  BY DEF Root
          <5>. QED BY <2>2, <3>1, <3>4, <5>1 DEF TreeInv
        <4>2. Unsorted(m)' /\ InPlay(m)'
          BY <1>2, <3>1 DEF Unsorted, Sorting, InPlay, Split
        <4>3. Left(m)' = NTotal[m]
          <5>1. node'[m] = Initially(m) /\ lock'[m] = Free  BY <4>2 DEF TreeInv, Initially
          <5>2. LeftLo(m)' = Lo(m) /\ LeftHi(m)' = Hi(m)
            BY <5>1, Totals DEF LeftLo, LeftHi, Busy, Initially, MergeNode
          <5>. QED BY <5>2, Totals DEF Left
        <4>4. PICK c \in Node : Above(c, m)'  BY <4>1, <4>2 DEF QuietInv
        <4>5. /\ c # Root /\ c \div 2 = Root /\ Left(c)' = NTotal[c]
              /\ Lines[c] <= Lines[m] /\ Lines[m] + NTotal[m] <= Lines[c] + NTotal[c]
          BY <4>3, <4>4 DEF Above
        <4>6. c # n  BY <2>3, <2>5, <2>8, <4>5
        <4>7. ~(IsLo(c) <=> IsLo(n))
          BY <1>4, <2>2, <3>4, <4>5, <4>6, Parent
        <4>8. PICK lr \in Nat, lo \in Nat, hi \in Nat :
                lr = Lines[Root] /\ lo = Lo(Root) /\ hi = Hi(Root)
          BY NodeFacts, Totals
        <4>9. /\ Lines[c] = lr + (IF IsLo(c) THEN 0 ELSE lo) /\ NTotal[c] = IF IsLo(c) THEN lo ELSE hi
          BY <4>5, <4>8, Totals DEF Offset
        <4>10. /\ k = IF IsLo(n) THEN lo ELSE hi
          BY <1>4, <2>2, <2>3, <3>4, <4>8, Totals
        <4>11. b = lr + NLines + (IF IsLo(n) THEN 0 ELSE lo)
          <5>1. Level[Root] * NLines = NLines  BY LevelDef, SizeAssumption
          <5>. QED BY <2>2, <2>3, <3>4, <4>8, <5>1 DEF Base, Place, Offset
        <4>12. PICK ml \in Nat, mk \in Nat : ml = Lines[m] /\ mk = NTotal[m]  BY Totals
        <4>13. CASE IsLo(n)
          <5>1. b = lr + NLines /\ k = lo /\ Lines[c] = lr + lo
            BY <4>7, <4>8, <4>9, <4>10, <4>11, <4>13, SizeAssumption
          <5>2. a > NLines + ml /\ lr + lo <= ml  BY <3>2, <4>5, <4>12, <5>1
          <5>. QED BY <2>8, <3>2, <5>1, <5>2, SizeAssumption
        <4>14. CASE ~IsLo(n)
          <5>1. b = lr + NLines + lo /\ Lines[c] + NTotal[c] = lr + lo
            BY <4>7, <4>8, <4>9, <4>11, <4>14, SizeAssumption
          <5>2. a <= NLines + ml + mk /\ ml + mk <= lr + lo  BY <3>2, <4>5, <4>12, <5>1
          <5>. QED BY <2>8, <3>2, <5>1, <5>2, SizeAssumption
        <4>. QED BY <4>13, <4>14
      <3>. QED BY <3>3, <3>4
    <2>10. \A u \in Thread : pc[u] = "sort" => \A a \in Temp(at[u]) : mem'[a] = mem[a] \/ mem'[a] = Junk
      <3>1. ASSUME NEW u \in Thread, pc[u] = "sort", NEW a \in Temp(at[u])  PROVE mem'[a] = mem[a]
        <4>1. a # w  BY <2>9, <3>1
        <4>2. a \in Cells  BY <3>1, SortingLeaf, TempPlace
        <4>3. mem = [c \in Cells |-> mem[c]]  BY DEF TypeInv
        <4>. QED BY <2>1, <4>1, <4>2, <4>3
      <3>. QED BY <3>1
    <2>. QED BY <1>2, <2>10, SpaceKept
  <1>. QED BY <1>3, <1>4

(* No other step writes to the lines or starts to sort.                     *)
LEMMA OtherSpace ==
  ASSUME SortInv, SortsInOwnSpace, NEW t \in Thread, NEW place \in Places, Moves(t, place),
         place # "sort", \A u \in Thread : u # t => at'[u] = at[u], mem' = mem
  PROVE  SortsInOwnSpace'
  <1>1. \A u \in Thread : pc'[u] = "sort" => pc[u] = "sort" /\ at'[u] = at[u]
    BY DEF Moves
  <1>. QED BY <1>1, SpaceKept

(* Every step keeps the space of those that sort.                           *)
LEMMA StepSpace ==
  ASSUME SortInv, SortInv', QuietInv', SortsInOwnSpace, Next
  PROVE  SortsInOwnSpace'
  <1>1. PICK t \in Thread : Step(t) \/ SpuriousWakeup(t)  BY DEF Next
  <1>2. CASE CreateThread(t)
    <2>1. at[t] # End /\ pc[t] = "sortlines"  BY <1>2 DEF CreateThread, SortInv, TreeInv, Sorting
    <2>2. PICK c : pc' = [pc EXCEPT ![c] = "sortlines"] /\ mem' = mem  BY <1>2 DEF CreateThread
    <2>3. \A u \in Thread : u # t => at'[u] = at[u]  BY <1>2 DEF CreateThread, SortInv, TypeInv
    <2>4. \A u \in Thread : pc'[u] = pc[u] \/ pc'[u] = "sortlines"  BY <2>2 DEF SortInv, TypeInv
    <2>5. \A u \in Thread : pc'[u] = "sort" => pc[u] = "sort" /\ at'[u] = at[u]
      BY <2>1, <2>3, <2>4
    <2>. QED BY <2>2, <2>5, SpaceKept
  <1>3. CASE SortSequentially(t)  BY <1>3, SortSequentiallySpace
  <1>4. CASE EndSort(t)  BY <1>4, EndSortSpace
  <1>5. CASE QueuePop(t)
    <2>1. /\ pc[t] = "pop" /\ (Goto(t, "wait") \/ Goto(t, "lock")) /\ mem' = mem
          /\ \A u \in Thread : u # t => at'[u] = at[u]
      BY <1>5 DEF QueuePop, SortInv, TypeInv
    <2>2. "wait" \in Places /\ "lock" \in Places  BY DEF Places
    <2>3. PICK place \in Places : place # "sort" /\ Goto(t, place)  BY <2>1, <2>2
    <2>4. Moves(t, place)  BY <2>1, <2>3, GotoMoves DEF SortInv
    <2>. QED BY <2>1, <2>3, <2>4, OtherSpace
  <1>6. CASE LockNode(t)
    <2>1. pc[t] = "lock" /\ (Goto(t, "end") \/ Goto(t, "merge")) /\ mem' = mem /\ at' = at
      BY <1>6 DEF LockNode
    <2>2. "end" \in Places /\ "merge" \in Places  BY DEF Places
    <2>3. PICK place \in Places : place # "sort" /\ Goto(t, place)  BY <2>1, <2>2
    <2>4. Moves(t, place)  BY <2>1, <2>3, GotoMoves DEF SortInv
    <2>. QED BY <2>1, <2>3, <2>4, OtherSpace
  <1>7. CASE ReinsertEnd(t)
    <2>1. pc[t] = "end" /\ GotoAndSignal(t, "join") /\ mem' = mem /\ at' = at
      BY <1>7 DEF ReinsertEnd, QueueInsert
    <2>2. PICK place \in Places : place = "join"  BY DEF Places
    <2>3. Moves(t, place)  BY <2>1, <2>2, GotoMoves DEF SortInv
    <2>. QED BY <2>1, <2>2, <2>3, OtherSpace
  <1>8. CASE MergeBoth(t)
    <2>1. PICK side : Move(t, side) /\ Merging(t)  BY <1>8 DEF MergeBoth, Merging
    <2>. QED BY <2>1, MoveSpace
  <1>9. CASE EndBoth(t)
    <2>1. pc[t] = "merge" /\ Goto(t, "rest") /\ mem' = mem /\ at' = at  BY <1>9 DEF EndBoth
    <2>2. PICK place \in Places : place = "rest"  BY DEF Places
    <2>3. Moves(t, place)  BY <2>1, <2>2, GotoMoves DEF SortInv
    <2>. QED BY <2>1, <2>2, <2>3, OtherSpace
  <1>10. CASE MergeRest(t)
    <2>1. PICK side : Move(t, side)  BY <1>10 DEF MergeRest
    <2>2. Merging(t)  BY <1>10 DEF MergeRest, Merging
    <2>. QED BY <2>1, <2>2, MoveSpace
  <1>11. CASE Publish(t)
    <2>1. pc[t] = "rest" /\ Goto(t, "check") /\ mem' = mem /\ at' = at  BY <1>11 DEF Publish
    <2>2. PICK place \in Places : place = "check"  BY DEF Places
    <2>3. Moves(t, place)  BY <2>1, <2>2, GotoMoves DEF SortInv
    <2>. QED BY <2>1, <2>2, <2>3, OtherSpace
  <1>12. CASE CheckSelf(t)
    <2>1. pc[t] = "check" /\ (GotoAndSignal(t, "parent") \/ Goto(t, "parent")) /\ mem' = mem /\ at' = at
      BY <1>12 DEF CheckSelf, QueueCheckInsert, QueueInsert
    <2>2. PICK place \in Places : place = "parent"  BY DEF Places
    <2>3. Moves(t, place)  BY <2>1, <2>2, GotoMoves DEF SortInv
    <2>. QED BY <2>1, <2>2, <2>3, OtherSpace
  <1>13. CASE CheckParent(t)
    <2>1. pc[t] = "parent" /\ (GotoAndSignal(t, "unlock") \/ Goto(t, "unlock")) /\ mem' = mem /\ at' = at
      BY <1>13 DEF CheckParent, QueueCheckInsert, QueueInsert
    <2>2. PICK place \in Places : place = "unlock"  BY DEF Places
    <2>3. Moves(t, place)  BY <2>1, <2>2, GotoMoves DEF SortInv
    <2>. QED BY <2>1, <2>2, <2>3, OtherSpace
  <1>14. CASE UnlockNode(t)
    <2>1. pc[t] = "unlock" /\ Goto(t, "pop") /\ mem' = mem /\ \A u \in Thread : u # t => at'[u] = at[u]
      BY <1>14 DEF UnlockNode, SortInv, TypeInv
    <2>2. PICK place \in Places : place = "pop"  BY DEF Places
    <2>3. Moves(t, place)  BY <2>1, <2>2, GotoMoves DEF SortInv
    <2>. QED BY <2>1, <2>2, <2>3, OtherSpace
  <1>15. CASE Join(t)
    <2>1. pc[t] = "join" /\ Goto(t, "done") /\ mem' = mem /\ at' = at  BY <1>15 DEF Join
    <2>2. PICK place \in Places : place = "done"  BY DEF Places
    <2>3. Moves(t, place)  BY <2>1, <2>2, GotoMoves DEF SortInv
    <2>. QED BY <2>1, <2>2, <2>3, OtherSpace
  <1>16. CASE SpuriousWakeup(t)
    <2>1. pc[t] = "wait" /\ Goto(t, "pop") /\ mem' = mem /\ at' = at  BY <1>16 DEF SpuriousWakeup
    <2>2. \A u \in Thread : pc'[u] = "sort" => pc[u] = "sort"
      BY <2>1 DEF Goto, SortInv, TypeInv
    <2>. QED BY <2>1, <2>2, SpaceKept
  <1>. QED BY <1>1, <1>2, <1>3, <1>4, <1>5, <1>6, <1>7, <1>8, <1>9, <1>10, <1>11, <1>12,
              <1>13, <1>14, <1>15, <1>16 DEF Step, Merges

(* While a leaf is sorted nobody else uses the space that is needed for it. *)
THEOREM AlwaysSortsInOwnSpace == Spec => []SortsInOwnSpace
  <1>1. Init => SortsInOwnSpace
    <2>1. Init => \A t \in Thread : pc[t] # "sort"  BY DEF Init
    <2>. QED BY <2>1 DEF SortsInOwnSpace
  <1>2. SortInv /\ SortInv' /\ QuietInv' /\ SortsInOwnSpace /\ [Next]_vars => SortsInOwnSpace'
    <2>1. CASE UNCHANGED vars  BY <2>1 DEF vars, SortsInOwnSpace, Temp
    <2>. QED BY <2>1, StepSpace
  <1>3. SortInv => QuietInv  BY Quiet
  <1>. QED BY <1>1, <1>2, <1>3, AlwaysAgreeing, PTL DEF Spec

-----------------------------------------------------------------------------
(* The lines of a node, and the cells that hold the sorted lines of its     *)
(* children, or of its own two halves.                                      *)
Own(n) == Lines[n] + 1 .. Lines[n] + NTotal[n]
LowOwn(n) == Lines[n] + 1 .. Lines[n] + Lo(n)
HighOwn(n) == Lines[n] + Lo(n) + 1 .. Lines[n] + NTotal[n]

FromLo(n) == IF Split(n) THEN Place(n) ELSE Lines[n]
FromHi(n) == FromLo(n) + Lo(n)
ToLo(n) == FromLo(n) + Lo(n) - LeftLo(n)
ToHi(n) == FromHi(n) + Hi(n) - LeftHi(n)
SentTo(n) == Base(n) + NTotal[n] - Left(n)

(* The cells behind from hold the first lines of S, in order.               *)
Prefix(S, from, to) ==
  \A x \in from + 1 .. to :
    /\ mem[x] \in S
    /\ \A j \in S : Before(j, mem[x]) <=> \E y \in from + 1 .. x - 1 : mem[y] = j

Held(from, to) == { mem[x] : x \in from + 1 .. to }
Gone(n) == Held(FromLo(n), ToLo(n)) \cup Held(FromHi(n), ToHi(n))

CaseInv == input \in [1 .. NLines -> Nat] /\ unique \in BOOLEAN

(* Each half of a leaf that has been sorted is in order.                    *)
LeafInv ==
  \A n \in Node : InPlay(n) /\ ~Split(n) /\ ~Unsorted(n) =>
    /\ node[n].end_lo = Lines[n] + Lo(n) /\ node[n].end_hi = Lines[n] + NTotal[n]
    /\ Prefix(LowOwn(n), Lines[n], Lines[n] + Lo(n))
    /\ Prefix(HighOwn(n), Lines[n] + Lo(n), Lines[n] + NTotal[n])

(* What a node has sent is in order, and is what it has taken.              *)
SentInv ==
  \A n \in Node : InPlay(n) /\ n # Root =>
    Prefix(Own(n), Base(n), SentTo(n)) /\ Held(Base(n), SentTo(n)) = Gone(n)

(* What a node has taken comes before everything it has not.                *)
CutInv ==
  \A n \in Node : InPlay(n) =>
    \A i \in Gone(n) : i \in Own(n) /\ \A j \in Own(n) \ Gone(n) : Before(i, j)

(* What the root has taken is out, unless it is not wanted.                 *)
Wanted(i) == unique => \A j \in 1 .. NLines : j < i => input[j] # input[i]
OutInv ==
  /\ out \in Seq(Nat)
  /\ { out[k] : k \in DOMAIN out } = { i \in Gone(Root) : Wanted(i) }
  /\ \A k \in DOMAIN out : out[k] = out[Len(out)] \/ Before(out[k], out[Len(out)])

OrderInv == CaseInv /\ LeafInv /\ SentInv /\ CutInv /\ OutInv

(* The lines of one node come before those of the other in the buffer.      *)
Apart(n, m) == Lines[n] + NTotal[n] <= Lines[m] \/ Lines[m] + NTotal[m] <= Lines[n]

(* Nodes of the same level have their lines apart.                          *)
LEMMA LevelApart ==
  \A n, m \in Node : Level[n] = Level[m] /\ n # m => Apart(n, m)
  <1>. DEFINE A == { n \in 1 .. Bound : n \in Node =>
                       \A m \in Node : Level[n] = Level[m] /\ n # m => Apart(n, m) }
  <1>1. Bound \in Nat /\ 1 \in 1 .. Bound /\ Root = 1  BY SizeAssumption DEF Bound, Root
  <1>2. 1 \in A
    <2>1. ASSUME NEW m \in Node, Level[Root] = Level[m], Root # m  PROVE FALSE
      <3>1. m \div 2 \in Node  BY <2>1, Parent
      <3>2. Level[m \div 2] \in Nat \ {0} /\ Level[m] = Level[m \div 2] + 1  BY <2>1, <3>1, Totals
      <3>3. Level[Root] = 1  BY <1>1, LevelDef
      <3>. QED BY <2>1, <3>2, <3>3
    <2>. QED BY <1>1, <2>1
  <1>3. ASSUME NEW n \in 2 .. Bound, n \div 2 \in A  PROVE n \in A
    <2>1. ASSUME n \in Node, NEW m \in Node, Level[n] = Level[m], n # m  PROVE Apart(n, m)
      <3>1. n # Root /\ n \div 2 \in Node /\ Level[n] = Level[n \div 2] + 1
        BY <1>1, <2>1, Parent, Totals
      <3>2. m # Root
        <4>1. PICK k \in Nat \ {0} : k = Level[n \div 2]  BY <3>1, Totals
        <4>2. Level[Root] = 1  BY <1>1, LevelDef
        <4>3. Level[n] = k + 1  BY <3>1, <4>1
        <4>4. Level[n] # 1  BY <4>1, <4>3
        <4>. QED BY <2>1, <4>2, <4>4
      <3>3. m \div 2 \in Node /\ Level[m] = Level[m \div 2] + 1  BY <3>2, Parent, Totals
      <3>4. PICK p \in Node, q \in Node : p = n \div 2 /\ q = m \div 2  BY <3>1, <3>3
      <3>5. Level[p] = Level[q]
        <4>1. PICK k \in Nat, l \in Nat : k = Level[p] /\ l = Level[q]  BY Totals
        <4>2. Level[n] = k + 1 /\ Level[m] = l + 1  BY <3>1, <3>3, <3>4, <4>1
        <4>3. k + 1 = l + 1  BY <2>1, <4>2
        <4>4. k = l  BY <4>3
        <4>. QED BY <4>1, <4>4
      <3>6. PICK lp \in Nat, tp \in Nat, lo \in Nat, hi \in Nat :
              lp = Lines[p] /\ tp = NTotal[p] /\ lo = Lo(p) /\ hi = Hi(p) /\ lo + hi = tp
        BY Totals
      <3>7. PICK lq \in Nat, tq \in Nat, lo2 \in Nat, hi2 \in Nat :
              lq = Lines[q] /\ tq = NTotal[q] /\ lo2 = Lo(q) /\ hi2 = Hi(q) /\ lo2 + hi2 = tq
        BY Totals
      <3>8. /\ Lines[n] = lp + (IF IsLo(n) THEN 0 ELSE lo) /\ NTotal[n] = IF IsLo(n) THEN lo ELSE hi
            /\ Lines[m] = lq + (IF IsLo(m) THEN 0 ELSE lo2) /\ NTotal[m] = IF IsLo(m) THEN lo2 ELSE hi2
        BY <2>1, <3>1, <3>2, <3>4, <3>6, <3>7, Totals DEF Offset
      <3>9. CASE p = q
        <4>1. ~(IsLo(n) <=> IsLo(m))  BY <2>1, <3>1, <3>2, <3>4, <3>9, Parent
        <4>2. lq = lp /\ lo2 = lo /\ hi2 = hi  BY <3>6, <3>7, <3>9
        <4>. QED BY <3>8, <4>1, <4>2 DEF Apart
      <3>10. CASE p # q
        <4>1. lp + tp <= lq \/ lq + tq <= lp
          BY <1>3, <3>4, <3>5, <3>6, <3>7, <3>10 DEF Apart
        <4>2. PICK a \in Nat, b \in Nat, c \in Nat, d \in Nat :
                 a = Lines[n] /\ b = NTotal[n] /\ c = Lines[m] /\ d = NTotal[m]
          BY <2>1, Totals
        <4>3. lp <= a /\ a + b <= lp + tp /\ lq <= c /\ c + d <= lq + tq
          BY <3>6, <3>7, <3>8, <4>2
        <4>. QED BY <4>1, <4>2, <4>3 DEF Apart
      <3>. QED BY <3>9, <3>10
    <2>. QED BY <2>1
  <1>. HIDE DEF A
  <1>4. \A n \in 1 .. Bound : n \in A  BY <1>1, <1>2, <1>3, FromTheTop
  <1>. QED BY <1>4, NodeFacts DEF A

(* Node a has the lines of n.                                               *)
Within(n, a) == Lines[a] <= Lines[n] /\ Lines[n] + NTotal[n] <= Lines[a] + NTotal[a]

(* On each level above a node in play there is one that has its lines too.  *)
LEMMA OnTheWayUp ==
  ASSUME TreeInv, NEW n \in Node, InPlay(n), NEW l \in 1 .. Level[n]
  PROVE  \E a \in Node : InPlay(a) /\ Level[a] = l /\ Within(n, a) /\ (l < Level[n] => Split(a))
  <1>. DEFINE Up(m, k) == \E a \in Node : InPlay(a) /\ Level[a] = k /\ Within(m, a) /\ (k < Level[m] => Split(a))
              A == { m \in 1 .. Bound : m \in Node /\ InPlay(m) => \A k \in 1 .. Level[m] : Up(m, k) }
  <1>1. Bound \in Nat /\ 1 \in 1 .. Bound /\ Root = 1  BY SizeAssumption DEF Bound, Root
  <1>2. ASSUME NEW m \in Node, InPlay(m)  PROVE Up(m, Level[m])
    <2>1. Lines[m] \in Nat /\ NTotal[m] \in Nat /\ Level[m] \in Nat  BY Totals
    <2>. QED BY <1>2, <2>1 DEF Within
  <1>3. 1 \in A
    <2>1. Level[1] = 1  BY <1>1, LevelDef
    <2>. QED BY <1>1, <1>2, <2>1
  <1>4. ASSUME NEW m \in 2 .. Bound, m \div 2 \in A  PROVE m \in A
    <2>1. ASSUME m \in Node, InPlay(m), NEW k \in 1 .. Level[m]  PROVE Up(m, k)
      <3>1. m # Root /\ m \div 2 \in Node /\ InPlay(m \div 2) /\ Split(m \div 2)
        BY <1>1, <2>1, InPlayFacts
      <3>2. PICK p \in Node : p = m \div 2  BY <3>1
      <3>3. PICK lv \in Nat : lv = Level[p] /\ Level[m] = lv + 1  BY <2>1, <3>1, <3>2, Totals
      <3>4. CASE k = Level[m]  BY <1>2, <2>1, <3>4
      <3>5. CASE k # Level[m]
        <4>1. k \in 1 .. Level[p] /\ k < Level[m]  BY <2>1, <3>3, <3>5
        <4>2. PICK a \in Node : InPlay(a) /\ Level[a] = k /\ Within(p, a) /\ (k < Level[p] => Split(a))
          BY <1>4, <3>1, <3>2, <4>1
        <4>3. Within(m, p)
          <5>1. PICK lp \in Nat, tp \in Nat, lo \in Nat, hi \in Nat :
                  lp = Lines[p] /\ tp = NTotal[p] /\ lo = Lo(p) /\ hi = Hi(p) /\ lo + hi = tp
            BY Totals
          <5>2. Lines[m] = lp + (IF IsLo(m) THEN 0 ELSE lo) /\ NTotal[m] = IF IsLo(m) THEN lo ELSE hi
            BY <2>1, <3>1, <3>2, <5>1, Totals DEF Offset
          <5>. QED BY <5>1, <5>2 DEF Within
        <4>4. Within(m, a)
          <5>1. /\ Lines[m] \in Nat /\ NTotal[m] \in Nat /\ Lines[p] \in Nat /\ NTotal[p] \in Nat
                /\ Lines[a] \in Nat /\ NTotal[a] \in Nat
            BY <2>1, Totals
          <5>. QED BY <4>2, <4>3, <5>1 DEF Within
        <4>5. k < Level[m] => Split(a)
          <5>1. k \in Nat /\ k <= lv  BY <3>3, <4>1
          <5>2. CASE k < lv  BY <3>3, <4>2, <5>2
          <5>3. CASE k = lv
            <6>1. Level[a] = Level[p]  BY <3>3, <4>2, <5>3
            <6>2. a = p \/ a # p  OBVIOUS
            <6>3. ASSUME a # p  PROVE FALSE
              <7>1. Apart(p, a)  BY <6>1, <6>3, LevelApart
              <7>2. NTotal[p] >= 2  BY <3>1, <3>2, InPlayFacts
              <7>3. /\ Lines[a] \in Nat /\ NTotal[a] \in Nat /\ Lines[p] \in Nat /\ NTotal[p] \in Nat
                BY Totals
              <7>. QED BY <4>2, <7>1, <7>2, <7>3 DEF Apart, Within
            <6>. QED BY <3>1, <3>2, <6>3
          <5>. QED BY <5>1, <5>2, <5>3
        <4>. QED BY <4>2, <4>4, <4>5
      <3>. QED BY <3>4, <3>5
    <2>2. m \in 1 .. Bound  OBVIOUS
    <2>. QED BY <2>1, <2>2
  <1>. HIDE DEF A
  <1>5. \A m \in 1 .. Bound : m \in A  BY <1>1, <1>3, <1>4, FromTheTop
  <1>6. n \in A  BY <1>5, NodeFacts
  <1>. QED BY <1>6 DEF A

(* Two nodes that have not been split have their lines apart.               *)
LEMMA LeavesApart ==
  ASSUME TreeInv, NEW n \in Node, NEW m \in Node, InPlay(n), InPlay(m),
         ~Split(n), ~Split(m), n # m
  PROVE  Apart(n, m)
  <1>1. PICK k \in Nat \ {0}, l \in Nat \ {0} : k = Level[n] /\ l = Level[m]  BY Totals
  <1>2. ASSUME NEW x \in Node, NEW y \in Node, InPlay(x), InPlay(y), ~Split(x), ~Split(y), x # y,
               Level[x] <= Level[y]
        PROVE  Apart(x, y)
    <2>1. Level[x] \in 1 .. Level[y]  BY <1>2, Totals
    <2>2. PICK a \in Node : InPlay(a) /\ Level[a] = Level[x] /\ Within(y, a) /\ (Level[x] < Level[y] => Split(a))
      BY <1>2, <2>1, OnTheWayUp
    <2>3. CASE a = x
      <3>1. Level[x] = Level[y]  BY <1>2, <2>1, <2>2, <2>3, Totals
      <3>. QED BY <1>2, <3>1, LevelApart
    <2>4. CASE a # x
      <3>1. Apart(x, a)  BY <2>2, <2>4, LevelApart
      <3>2. /\ Lines[x] \in Nat /\ NTotal[x] \in Nat /\ Lines[y] \in Nat /\ NTotal[y] \in Nat
            /\ Lines[a] \in Nat /\ NTotal[a] \in Nat
        BY Totals
      <3>. QED BY <2>2, <3>1, <3>2 DEF Apart, Within
    <2>. QED BY <2>3, <2>4
  <1>3. CASE k <= l  BY <1>1, <1>2, <1>3
  <1>4. CASE l <= k
    <2>1. Apart(m, n)  BY <1>1, <1>2, <1>4
    <2>. QED BY <2>1 DEF Apart
  <1>. QED BY <1>3, <1>4
-----------------------------------------------------------------------------
(* Lines are in a strict total order.                                       *)
LEMMA BeforeOrder ==
  ASSUME CaseInv
  PROVE  /\ \A i, j \in 1 .. NLines : Before(i, j) \/ Before(j, i) \/ i = j
         /\ \A i, j \in 1 .. NLines : ~(Before(i, j) /\ Before(j, i))
         /\ \A i \in 1 .. NLines : ~Before(i, i)
         /\ \A i, j, k \in 1 .. NLines : Before(i, j) /\ Before(j, k) => Before(i, k)
  <1>1. \A i \in 1 .. NLines : input[i] \in Nat /\ i \in Nat  BY SizeAssumption DEF CaseInv
  <1>. QED BY <1>1 DEF Before

(* It stays as it is.                                                       *)
LEMMA BeforeKept ==
  ASSUME UNCHANGED config
  PROVE  \A i, j : Before(i, j)' <=> Before(i, j)
  BY DEF config, Before

(* The lines of a node are those of its two sides, the low ones first.      *)
LEMMA OwnSides ==
  ASSUME NEW n \in Node
  PROVE  /\ Own(n) \subseteq 1 .. NLines /\ Own(n) = LowOwn(n) \cup HighOwn(n)
         /\ LowOwn(n) \cap HighOwn(n) = {}
         /\ \A i \in LowOwn(n), j \in HighOwn(n) : i < j
  <1>1. PICK l \in Nat, k \in Nat, lo \in Nat, hi \in Nat :
          l = Lines[n] /\ k = NTotal[n] /\ lo = Lo(n) /\ hi = Hi(n) /\ lo + hi = k
    BY Totals
  <1>2. l + k <= NLines /\ NLines \in Nat  BY <1>1, LinesFit, SizeAssumption
  <1>. QED BY <1>1, <1>2 DEF Own, LowOwn, HighOwn

(* A child has the lines of one side of its parent.                         *)
LEMMA OwnOfChild ==
  ASSUME NEW n \in Node, Threads[n] > 1
  PROVE  /\ Own(2 * n) = LowOwn(n) /\ Own(2 * n + 1) = HighOwn(n)
         /\ NTotal[2 * n] = Lo(n) /\ NTotal[2 * n + 1] = Hi(n)
         /\ Base(2 * n) = Place(n) /\ Base(2 * n + 1) = Place(n) + Lo(n)
  <1>1. PICK c \in Node, d \in Node :
          /\ c = 2 * n /\ d = 2 * n + 1 /\ c # Root /\ d # Root
          /\ c \div 2 = n /\ d \div 2 = n /\ IsLo(c) /\ ~IsLo(d)
    BY Children
  <1>2. PICK l \in Nat, k \in Nat, lo \in Nat, hi \in Nat, p \in Nat :
          l = Lines[n] /\ k = NTotal[n] /\ lo = Lo(n) /\ hi = Hi(n) /\ lo + hi = k /\ p = Place(n)
    BY Totals
  <1>3. Lines[c] = l /\ NTotal[c] = lo /\ Base(c) = p
    BY <1>1, <1>2, Totals DEF Offset, Base
  <1>4. Lines[d] = l + lo /\ NTotal[d] = hi /\ Base(d) = p + lo
    BY <1>1, <1>2, Totals DEF Offset, Base
  <1>. QED BY <1>1, <1>2, <1>3, <1>4 DEF Own, LowOwn, HighOwn

(* As many lines as there are: all of them.                                 *)
LEMMA PrefixFull ==
  ASSUME CaseInv, NEW l \in Nat, NEW k \in Nat, NEW from \in Nat, l + k <= NLines,
         Prefix(l + 1 .. l + k, from, from + k), NEW j \in l + 1 .. l + k
  PROVE  \E x \in from + 1 .. from + k : mem[x] = j
  <1>. DEFINE S == from + 1 .. from + k
              R == l + 1 .. l + k
              f == [x \in S |-> mem[x]]
  <1>1. \A x \in S : mem[x] \in R  BY DEF Prefix
  <1>2. R \subseteq 1 .. NLines  BY SizeAssumption
  <1>3. \A x, y \in S : y < x => Before(mem[y], mem[x])
    <2>1. ASSUME NEW x \in S, NEW y \in S, y < x  PROVE Before(mem[y], mem[x])
      <3>1. y \in from + 1 .. x - 1  BY <2>1
      <3>. QED BY <1>1, <2>1, <3>1 DEF Prefix
    <2>. QED BY <2>1
  <1>4. \A x, y \in S : mem[x] = mem[y] => x = y
    <2>1. ASSUME NEW x \in S, NEW y \in S, mem[x] = mem[y], x # y  PROVE FALSE
      <3>1. x < y \/ y < x  BY <2>1
      <3>2. Before(mem[x], mem[x])  BY <1>3, <2>1, <3>1
      <3>. QED BY <1>1, <1>2, <3>2, BeforeOrder
    <2>. QED BY <2>1
  <1>5. f \in Injection(S, R)  BY <1>1, <1>4 DEF Injection, IsInjective
  <1>6. IsFiniteSet(S) /\ IsFiniteSet(R) /\ Cardinality(S) = k /\ Cardinality(R) = k
    <2>1. from + k >= from + 1 - 1 /\ (from + k) - (from + 1) + 1 = k  OBVIOUS
    <2>2. l + k >= l + 1 - 1 /\ (l + k) - (l + 1) + 1 = k  OBVIOUS
    <2>3. IsFiniteSet(S) /\ Cardinality(S) = IF from + 1 > from + k THEN 0 ELSE (from + k) - (from + 1) + 1
      BY FS_Interval
    <2>4. IsFiniteSet(R) /\ Cardinality(R) = IF l + 1 > l + k THEN 0 ELSE (l + k) - (l + 1) + 1
      BY FS_Interval
    <2>. QED BY <2>3, <2>4
  <1>. HIDE DEF S, R, f
  <1>7. f \in Surjection(S, R)  BY <1>5, <1>6, FS_Injection
  <1>8. \A r \in R : \E x \in S : f[x] = r  BY <1>7 DEF Surjection
  <1>9. j \in R  BY DEF R
  <1>. QED BY <1>8, <1>9 DEF f, S

(* What is in cells that do not change.                                     *)
LEMMA PrefixKept ==
  ASSUME UNCHANGED config, NEW S, NEW from \in Int, NEW to \in Int, Prefix(S, from, to),
         \A x \in from + 1 .. to : mem'[x] = mem[x]
  PROVE  Prefix(S, from, to)' /\ Held(from, to)' = Held(from, to)
  <1>1. ASSUME NEW x \in from + 1 .. to
        PROVE  /\ mem'[x] \in S
               /\ \A j \in S : Before(j, mem[x])' <=> \E y \in from + 1 .. x - 1 : mem'[y] = j
    <2>1. \A y \in from + 1 .. x - 1 : y \in from + 1 .. to  OBVIOUS
    <2>2. mem'[x] = mem[x] /\ \A y \in from + 1 .. x - 1 : mem'[y] = mem[y]  BY <2>1
    <2>3. mem[x] \in S /\ \A j \in S : Before(j, mem[x]) <=> \E y \in from + 1 .. x - 1 : mem[y] = j
      BY DEF Prefix
    <2>4. PICK v : v = mem[x] /\ v = mem'[x]  BY <2>2
    <2>5. \A j : Before(j, mem[x])' <=> Before(j, v)  BY <2>4 DEF Before, config
    <2>. QED BY <2>2, <2>3, <2>4, <2>5
  <1>2. Prefix(S, from, to)'  BY <1>1 DEF Prefix
  <1>3. Held(from, to)' = Held(from, to)  BY DEF Held
  <1>. QED BY <1>2, <1>3

(* What holds of the cells up to one holds of those up to an earlier one.   *)
LEMMA PrefixShorter ==
  ASSUME NEW S, NEW from \in Int, NEW to \in Int, NEW less \in Int, less <= to,
         Prefix(S, from, to)
  PROVE  Prefix(S, from, less)
  BY DEF Prefix

(* A node reads its lines in order, from where it has taken them to.        *)
LEMMA Sources ==
  ASSUME SortInv, LeafInv, SentInv, NEW n \in Node, InPlay(n), ~Unsorted(n)
  PROVE  /\ node[n].lo = ToLo(n) /\ node[n].hi = ToHi(n)
         /\ FromLo(n) \in Nat /\ FromHi(n) \in Nat /\ ToLo(n) \in Nat /\ ToHi(n) \in Nat
         /\ node[n].end_lo \in Int /\ node[n].end_hi \in Int
         /\ ToLo(n) <= node[n].end_lo /\ ToHi(n) <= node[n].end_hi
         /\ Prefix(LowOwn(n), FromLo(n), node[n].end_lo)
         /\ Prefix(HighOwn(n), FromHi(n), node[n].end_hi)
         /\ Split(n) => /\ node[n].end_lo <= SentTo(2 * n) /\ node[n].end_hi <= SentTo(2 * n + 1)
                        /\ SentTo(2 * n) \in Int /\ SentTo(2 * n + 1) \in Int
  <1>. USE DEF SortInv
  <1>1. PICK l \in Nat, lo \in Nat, hi \in Nat, p \in Nat :
          l = Lines[n] /\ lo = Lo(n) /\ hi = Hi(n) /\ lo + hi = NTotal[n] /\ p = Place(n)
    BY Totals
  <1>2. PICK a \in Nat, b \in Nat : a = LeftLo(n) /\ b = LeftHi(n) /\ a <= lo /\ b <= hi
    BY <1>1 DEF CountInv
  <1>3. node[n].lo \in Int /\ node[n].hi \in Int /\ node[n].end_lo \in Int /\ node[n].end_hi \in Int
    BY DEF TypeInv, NodeRecord
  <1>4. PICK x \in Int, ex \in Int, y \in Int, ey \in Int :
          x = node[n].lo /\ ex = node[n].end_lo /\ y = node[n].hi /\ ey = node[n].end_hi
    BY <1>3
  <1>5. CASE ~Split(n)
    <2>1. ex - x = a /\ ey - y = b  BY <1>2, <1>4, <1>5 DEF CountInv
    <2>2. /\ ex = l + lo /\ ey = l + (lo + hi)
          /\ Prefix(LowOwn(n), l, l + lo) /\ Prefix(HighOwn(n), l + lo, l + (lo + hi))
      BY <1>1, <1>4, <1>5 DEF LeafInv
    <2>3. FromLo(n) = l /\ FromHi(n) = l + lo /\ ToLo(n) = l + lo - a /\ ToHi(n) = l + lo + hi - b
      BY <1>1, <1>2, <1>5 DEF FromLo, FromHi, ToLo, ToHi
    <2>4. x = l + lo - a /\ y = l + lo + hi - b
      <3>1. x = ex - a /\ y = ey - b  BY <1>2, <1>4, <2>1
      <3>. QED BY <2>2, <3>1
    <2>5. /\ x \in Nat /\ y \in Nat /\ x <= ex /\ y <= ey  BY <1>1, <1>2, <2>2, <2>4
    <2>. QED BY <1>1, <1>4, <1>5, <2>2, <2>3, <2>4, <2>5
  <1>6. CASE Split(n)
    <2>1. Threads[n] > 1  BY <1>6, NodeFacts DEF TreeInv, Splits
    <2>2. PICK c \in Node, d \in Node :
            /\ c = 2 * n /\ d = 2 * n + 1 /\ InPlay(c) /\ InPlay(d)
            /\ c # Root /\ d # Root /\ c \div 2 = n /\ d \div 2 = n /\ IsLo(c) /\ ~IsLo(d)
      BY <1>6, <2>1, Children, InPlayFacts
    <2>3. /\ Own(c) = LowOwn(n) /\ Own(d) = HighOwn(n) /\ NTotal[c] = lo /\ NTotal[d] = hi
          /\ Base(c) = p /\ Base(d) = p + lo
      BY <1>1, <2>1, <2>2, OwnOfChild
    <2>4. /\ Taken(c) = x /\ Dest(c) = ex /\ LeftOf(c) = a
          /\ Taken(d) = y /\ Dest(d) = ey /\ LeftOf(d) = b
      BY <1>2, <1>4, <2>2 DEF Taken, Dest, LeftOf
    <2>5. PICK e \in Nat, f \in Nat : e = Left(c) /\ f = Left(d)
      BY <2>2, LeftUp
    <2>6. /\ x <= ex /\ ex <= Sent(c) /\ x = p + lo - a /\ Sent(c) = p + lo - e
          /\ y <= ey /\ ey <= Sent(d) /\ y = p + lo + hi - b /\ Sent(d) = p + lo + hi - f
      BY <2>2, <2>3, <2>4, <2>5 DEF CountInv
    <2>7. SentTo(c) = p + lo - e /\ SentTo(d) = p + lo + hi - f
      BY <2>3, <2>5 DEF SentTo
    <2>8. PICK st \in Int, sd \in Int : st = p + lo - e /\ sd = p + lo + hi - f  BY <1>1, <2>5
    <2>9. ex <= st /\ ey <= sd  BY <2>6, <2>8
    <2>10. Prefix(LowOwn(n), p, st) /\ Prefix(HighOwn(n), p + lo, sd)
      BY <2>2, <2>3, <2>7, <2>8 DEF SentInv
    <2>11. Prefix(LowOwn(n), p, ex) /\ Prefix(HighOwn(n), p + lo, ey)
      BY <1>1, <1>4, <2>8, <2>9, <2>10, PrefixShorter
    <2>12. FromLo(n) = p /\ FromHi(n) = p + lo /\ ToLo(n) = p + lo - a /\ ToHi(n) = p + lo + hi - b
      BY <1>1, <1>2, <1>6 DEF FromLo, FromHi, ToLo, ToHi
    <2>13. x \in Nat /\ y \in Nat  BY <1>1, <1>2, <2>6
    <2>. QED BY <1>1, <1>4, <2>2, <2>6, <2>7, <2>8, <2>9, <2>11, <2>12, <2>13
  <1>. QED BY <1>5, <1>6
-----------------------------------------------------------------------------
(* Whatever a node has taken was in cells that do not change.               *)
LEMMA GoneKept ==
  ASSUME SortInv, LeafInv, SentInv, UNCHANGED <<config, joins>>, NEW n \in Node, InPlay(n),
         LeftLo(n)' = LeftLo(n), LeftHi(n)' = LeftHi(n),
         \A m \in Node : InPlay(m) /\ m # Root =>
           \A x \in Base(m) + 1 .. SentTo(m) : mem'[x] = mem[x],
         ~Split(n) /\ ~Unsorted(n) => \A x \in Own(n) : mem'[x] = mem[x]
  PROVE  Gone(n)' = Gone(n)
  <1>1. PICK l \in Nat, lo \in Nat, hi \in Nat, p \in Nat :
          l = Lines[n] /\ lo = Lo(n) /\ hi = Hi(n) /\ lo + hi = NTotal[n] /\ p = Place(n)
    BY Totals
  <1>2. PICK a \in Nat, b \in Nat : a = LeftLo(n) /\ b = LeftHi(n) /\ a <= lo /\ b <= hi
    BY <1>1 DEF SortInv, CountInv
  <1>3. Split(n)' <=> Split(n)  BY DEF Split
  <1>4. PICK fl \in Nat, fh \in Nat, tl \in Nat, th \in Nat :
          /\ fl = (IF Split(n) THEN p ELSE l) /\ fh = fl + lo
          /\ tl = fl + (lo - a) /\ th = fh + (hi - b)
    <2>1. PICK fl \in Nat : fl = (IF Split(n) THEN p ELSE l)  BY <1>1
    <2>2. fl + lo \in Nat /\ fl + (lo - a) \in Nat /\ fl + lo + (hi - b) \in Nat
      BY <1>1, <1>2, <2>1
    <2>. QED BY <2>1, <2>2
  <1>5. FromLo(n) = fl /\ FromHi(n) = fh /\ ToLo(n) = tl /\ ToHi(n) = th
    BY <1>1, <1>2, <1>4 DEF FromLo, FromHi, ToLo, ToHi
  <1>6. FromLo(n)' = fl /\ FromHi(n)' = fh /\ ToLo(n)' = tl /\ ToHi(n)' = th
    BY <1>1, <1>2, <1>3, <1>4 DEF FromLo, FromHi, ToLo, ToHi
  <1>7. \A x \in fl + 1 .. tl : mem'[x] = mem[x]
    <2>1. CASE Split(n)
      <3>1. Threads[n] > 1 /\ ~Unsorted(n)  BY <2>1, NodeFacts DEF SortInv, TreeInv, Splits
      <3>2. PICK c \in Node : c = 2 * n /\ InPlay(c) /\ c # Root
        BY <2>1, <3>1, Children, InPlayFacts DEF SortInv
      <3>3. Base(c) = p  BY <1>1, <3>1, <3>2, OwnOfChild
      <3>4. PICK e \in Int, st \in Int : e = node[n].end_lo /\ st = SentTo(c) /\ tl <= e /\ e <= st
        BY <1>5, <2>1, <3>1, <3>2, Sources
      <3>5. \A x \in p + 1 .. st : mem'[x] = mem[x]  BY <3>2, <3>3, <3>4
      <3>. QED BY <1>4, <2>1, <3>4, <3>5
    <2>2. CASE ~Split(n) /\ ~Unsorted(n)
      <3>1. \A x \in l + 1 .. l + (lo + hi) : mem'[x] = mem[x]  BY <1>1, <2>2 DEF Own
      <3>. QED BY <1>1, <1>2, <1>4, <2>2, <3>1
    <2>3. CASE Unsorted(n)
      <3>1. a = lo
        <4>1. node[n] = Initially(n) /\ lock[n] = Free  BY <2>3 DEF SortInv, TreeInv
        <4>. QED BY <1>1, <1>2, <4>1, UntouchedLeft
      <3>. QED BY <1>1, <1>4, <3>1
    <2>. QED BY <2>1, <2>2, <2>3
  <1>8. \A x \in fh + 1 .. th : mem'[x] = mem[x]
    <2>1. CASE Split(n)
      <3>1. Threads[n] > 1 /\ ~Unsorted(n)  BY <2>1, NodeFacts DEF SortInv, TreeInv, Splits
      <3>2. PICK c \in Node : c = 2 * n + 1 /\ InPlay(c) /\ c # Root
        BY <2>1, <3>1, Children, InPlayFacts DEF SortInv
      <3>3. Base(c) = p + lo  BY <1>1, <3>1, <3>2, OwnOfChild
      <3>4. PICK e \in Int, st \in Int : e = node[n].end_hi /\ st = SentTo(c) /\ th <= e /\ e <= st
        BY <1>5, <2>1, <3>1, <3>2, Sources
      <3>5. \A x \in p + lo + 1 .. st : mem'[x] = mem[x]  BY <3>2, <3>3, <3>4
      <3>. QED BY <1>1, <1>4, <2>1, <3>4, <3>5
    <2>2. CASE ~Split(n) /\ ~Unsorted(n)
      <3>1. \A x \in l + 1 .. l + (lo + hi) : mem'[x] = mem[x]  BY <1>1, <2>2 DEF Own
      <3>. QED BY <1>1, <1>2, <1>4, <2>2, <3>1
    <2>3. CASE Unsorted(n)
      <3>1. b = hi
        <4>1. node[n] = Initially(n) /\ lock[n] = Free  BY <2>3 DEF SortInv, TreeInv
        <4>. QED BY <1>1, <1>2, <4>1, UntouchedLeft
      <3>. QED BY <1>1, <1>4, <3>1
    <2>. QED BY <2>1, <2>2, <2>3
  <1>9. Held(FromLo(n), ToLo(n)) = { mem[x] : x \in fl + 1 .. tl }  BY <1>5 DEF Held
  <1>10. Held(FromHi(n), ToHi(n)) = { mem[x] : x \in fh + 1 .. th }  BY <1>5 DEF Held
  <1>11. Held(FromLo(n), ToLo(n))' = { mem'[x] : x \in fl + 1 .. tl }  BY <1>6 DEF Held
  <1>12. Held(FromHi(n), ToHi(n))' = { mem'[x] : x \in fh + 1 .. th }  BY <1>6 DEF Held
  <1>. QED BY <1>7, <1>8, <1>9, <1>10, <1>11, <1>12 DEF Gone

(* So do the invariants hold if nothing is merged and only cells change     *)
(* that nobody reads.                                                       *)
LEMMA OrderKept ==
  ASSUME SortInv, OrderInv, UNCHANGED <<config, joins, out>>, LeafInv',
         \A n \in Node : LeftLo(n)' = LeftLo(n) /\ LeftHi(n)' = LeftHi(n),
         \A n \in Node : InPlay(n) /\ n # Root =>
           \A x \in Base(n) + 1 .. SentTo(n) : mem'[x] = mem[x],
         \A n \in Node : InPlay(n) /\ ~Split(n) /\ ~Unsorted(n) => \A x \in Own(n) : mem'[x] = mem[x]
  PROVE  OrderInv'
  <1>. USE DEF OrderInv
  <1>1. \A n \in Node : InPlay(n) => Gone(n)' = Gone(n)  BY GoneKept
  <1>2. \A n : InPlay(n)' <=> InPlay(n)  BY DEF InPlay, Split
  <1>3. CaseInv'  BY DEF CaseInv, config
  <1>4. SentInv'
    <2>1. ASSUME NEW n \in Node, InPlay(n), n # Root
          PROVE  Prefix(Own(n), Base(n), SentTo(n))' /\ Held(Base(n), SentTo(n))' = Gone(n)'
      <3>1. n \div 2 \in Node  BY <2>1, Parent
      <3>2. PICK b \in Nat : b = Base(n)  BY <3>1, Totals DEF Base, Offset
      <3>3. PICK l \in Nat, k \in Nat : l = Left(n) /\ k = NTotal[n]  BY <2>1, LeftUp, Totals
      <3>4. PICK s \in Int : s = SentTo(n) /\ s = b + k - l  BY <3>2, <3>3 DEF SentTo
      <3>5. SentTo(n)' = s  BY <3>2, <3>3, <3>4 DEF SentTo, Left, Base
      <3>6. PICK S : S = Own(n)  OBVIOUS
      <3>7. Prefix(S, b, s) /\ Held(b, s) = Gone(n)  BY <2>1, <3>2, <3>4, <3>6 DEF SentInv
      <3>8. \A x \in b + 1 .. s : mem'[x] = mem[x]  BY <2>1, <3>2, <3>4
      <3>9. Prefix(S, b, s)' /\ Held(b, s)' = Held(b, s)
        BY <3>2, <3>4, <3>7, <3>8, PrefixKept DEF config
      <3>10. Prefix(Own(n), Base(n), SentTo(n))' <=> Prefix(S, b, s)'
        BY <3>2, <3>5, <3>6 DEF Prefix, Own, Base
      <3>11. Held(Base(n), SentTo(n))' = Held(b, s)'
        BY <3>2, <3>5 DEF Held, Base
      <3>. QED BY <1>1, <2>1, <3>7, <3>9, <3>10, <3>11
    <2>. QED BY <1>2, <2>1 DEF SentInv
  <1>5. CutInv'
    <2>1. ASSUME NEW n \in Node, InPlay(n), NEW i \in Gone(n)
          PROVE  i \in Own(n) /\ \A j \in Own(n) \ Gone(n) : Before(i, j)'
      BY <2>1, BeforeKept DEF CutInv, config
    <2>. QED BY <1>1, <1>2, <2>1 DEF CutInv, Own
  <1>6. OutInv'
    <2>1. Gone(Root)' = Gone(Root)  BY <1>1, NodeFacts DEF InPlay
    <2>2. \A i : Wanted(i)' <=> Wanted(i)  BY DEF Wanted, config
    <2>3. \A i, j : Before(i, j)' <=> Before(i, j)  BY BeforeKept DEF config
    <2>4. out' = out  OBVIOUS
    <2>5. \A k \in DOMAIN out : out[k] = out[Len(out)] \/ Before(out[k], out[Len(out)])'
      BY <2>3 DEF OutInv
    <2>. QED BY <2>1, <2>2, <2>4, <2>5 DEF OutInv
  <1>. QED BY <1>3, <1>4, <1>5, <1>6

-----------------------------------------------------------------------------
(* What is left of a node can be told from where it reads.                  *)
LEMMA LeftSame ==
  ASSUME SortInv, SortInv', joins' = joins,
         \A m \in Node : node'[m].lo = node[m].lo /\ node'[m].hi = node[m].hi,
         \A m \in Node : ~Split(m) =>
           node'[m].end_lo = node[m].end_lo /\ node'[m].end_hi = node[m].end_hi,
         \A m \in Node : (Unsorted(m)' <=> Unsorted(m)), NEW n \in Node
  PROVE  LeftLo(n)' = LeftLo(n) /\ LeftHi(n)' = LeftHi(n)
  <1>. USE DEF SortInv
  <1>1. \A m : (InPlay(m)' <=> InPlay(m)) /\ (Split(m)' <=> Split(m))
    BY DEF InPlay, Split
  <1>2. PICK a \in Nat, b \in Nat : a = LeftLo(n) /\ b = LeftHi(n)
    BY Totals DEF CountInv
  <1>3. PICK c \in Nat, d \in Nat : c = LeftLo(n)' /\ d = LeftHi(n)'
    <2>1. Lo(n) \in Nat /\ Hi(n) \in Nat  BY Totals
    <2>2. LeftLo(n)' \in 0 .. Lo(n) /\ LeftHi(n)' \in 0 .. Hi(n)  BY DEF CountInv
    <2>. QED BY <2>1, <2>2
  <1>4. CASE ~InPlay(n) \/ Unsorted(n)
    <2>1. node[n] = Initially(n) /\ lock[n] = Free  BY <1>4 DEF TreeInv
    <2>2. node'[n] = Initially(n) /\ lock'[n] = Free
      BY <1>1, <1>4 DEF TreeInv, Initially
    <2>3. LeftLo(n)' = Lo(n) /\ LeftHi(n)' = Hi(n)
      BY <2>2, Totals DEF LeftLo, LeftHi, Busy, Initially, MergeNode
    <2>. QED BY <2>1, <2>3, UntouchedLeft
  <1>5. CASE Split(n)
    <2>1. Threads[n] > 1  BY <1>5, NodeFacts DEF TreeInv, Splits
    <2>2. PICK p \in Node, q \in Node :
            /\ p = 2 * n /\ q = 2 * n + 1 /\ p # Root /\ q # Root
            /\ p \div 2 = n /\ q \div 2 = n /\ IsLo(p) /\ ~IsLo(q) /\ InPlay(p) /\ InPlay(q)
      BY <1>5, <2>1, Children DEF InPlay
    <2>3. PICK bp \in Nat, bq \in Nat, tp \in Nat, tq \in Nat :
            bp = Base(p) /\ bq = Base(q) /\ tp = NTotal[p] /\ tq = NTotal[q]
      <3>1. /\ Base(p) = Place(n) /\ Base(q) = Place(n) + Lo(n) /\ NTotal[p] = Lo(n) /\ NTotal[q] = Hi(n)
        BY <2>1, <2>2, OwnOfChild
      <3>. QED BY <3>1, Totals
    <2>4. node[n].lo = bp + tp - a /\ node[n].hi = bq + tq - b
      BY <1>2, <2>2, <2>3 DEF CountInv, Taken, LeftOf
    <2>5. Taken(p)' = node'[n].lo /\ Taken(q)' = node'[n].hi /\ LeftOf(p)' = c /\ LeftOf(q)' = d
      BY <1>3, <2>2 DEF Taken, LeftOf
    <2>6. Taken(p)' = bp + tp - c /\ Taken(q)' = bq + tq - d
      BY <1>1, <2>2, <2>3, <2>5 DEF CountInv, Base
    <2>7. bp + tp - a = bp + tp - c /\ bq + tq - b = bq + tq - d
      BY <2>4, <2>5, <2>6
    <2>8. a = c /\ b = d  BY <2>3, <2>7
    <2>. QED BY <1>2, <1>3, <2>8
  <1>6. CASE InPlay(n) /\ ~Split(n) /\ ~Unsorted(n)
    <2>1. node[n].end_lo - node[n].lo = a /\ node[n].end_hi - node[n].hi = b
      BY <1>2, <1>6 DEF CountInv
    <2>2. node'[n].end_lo - node'[n].lo = c /\ node'[n].end_hi - node'[n].hi = d
      BY <1>1, <1>3, <1>6 DEF CountInv
    <2>. QED BY <1>2, <1>3, <1>6, <2>1, <2>2
  <1>. QED BY <1>4, <1>5, <1>6

(* The leaves that are to be sorted are the same if t does not sort.        *)
LEMMA UnsortedSame ==
  ASSUME NEW t \in Thread, ~Sorting(t), ~Sorting(t)',
         \A u \in Thread : u # t => at'[u] = at[u],
         \A u \in Thread : u # t => pc'[u] = pc[u] \/ (pc[u] = "wait" /\ pc'[u] = "pop")
  PROVE  \A n : Unsorted(n)' <=> Unsorted(n)
  <1>1. \A u \in Thread : u # t => (Sorting(u)' <=> Sorting(u))  BY DEF Sorting
  <1>. QED BY <1>1 DEF Unsorted

(* The leaves that have been sorted stay as they are.                       *)
LEMMA LeafKept ==
  ASSUME LeafInv, UNCHANGED <<config, joins>>,
         \A n \in Node : InPlay(n) /\ ~Split(n) /\ ~Unsorted(n)' =>
           /\ ~Unsorted(n)
           /\ node'[n].end_lo = node[n].end_lo /\ node'[n].end_hi = node[n].end_hi
           /\ \A x \in Own(n) : mem'[x] = mem[x]
  PROVE  LeafInv'
  <1>1. \A m : (InPlay(m)' <=> InPlay(m)) /\ (Split(m)' <=> Split(m))
    BY DEF InPlay, Split
  <1>2. ASSUME NEW n \in Node, InPlay(n), ~Split(n), ~Unsorted(n)'
        PROVE  /\ node'[n].end_lo = Lines[n] + Lo(n) /\ node'[n].end_hi = Lines[n] + NTotal[n]
               /\ Prefix(LowOwn(n), Lines[n], Lines[n] + Lo(n))'
               /\ Prefix(HighOwn(n), Lines[n] + Lo(n), Lines[n] + NTotal[n])'
    <2>1. /\ node[n].end_lo = Lines[n] + Lo(n) /\ node[n].end_hi = Lines[n] + NTotal[n]
          /\ Prefix(LowOwn(n), Lines[n], Lines[n] + Lo(n))
          /\ Prefix(HighOwn(n), Lines[n] + Lo(n), Lines[n] + NTotal[n])
      BY <1>2 DEF LeafInv
    <2>2. PICK l \in Int, m \in Int, h \in Int :
            l = Lines[n] /\ m = Lines[n] + Lo(n) /\ h = Lines[n] + NTotal[n] /\ l <= m /\ m <= h
      BY Totals
    <2>3. \A x \in l + 1 .. h : mem'[x] = mem[x]  BY <1>2, <2>2 DEF Own
    <2>4. PICK L, H : L = LowOwn(n) /\ H = HighOwn(n)  OBVIOUS
    <2>5. Prefix(L, l, m)'  BY <2>1, <2>2, <2>3, <2>4, PrefixKept
    <2>6. Prefix(H, m, h)'  BY <2>1, <2>2, <2>3, <2>4, PrefixKept
    <2>7. Prefix(LowOwn(n), Lines[n], Lines[n] + Lo(n))'
      BY <2>2, <2>4, <2>5 DEF LowOwn, Prefix
    <2>8. Prefix(HighOwn(n), Lines[n] + Lo(n), Lines[n] + NTotal[n])'
      BY <2>2, <2>4, <2>6 DEF HighOwn, Prefix
    <2>. QED BY <1>2, <2>1, <2>7, <2>8
  <1>. QED BY <1>1, <1>2 DEF LeafInv

(* Nothing is merged, and no leaf gets sorted.                              *)
LEMMA IdleKept ==
  ASSUME SortInv, SortInv', OrderInv, UNCHANGED <<config, mem, joins, out>>,
         \A m \in Node : node'[m].lo = node[m].lo /\ node'[m].hi = node[m].hi,
         \A m \in Node : ~Split(m) =>
           node'[m].end_lo = node[m].end_lo /\ node'[m].end_hi = node[m].end_hi,
         \A m \in Node : (Unsorted(m)' <=> Unsorted(m))
  PROVE  OrderInv'
  <1>1. \A n \in Node : LeftLo(n)' = LeftLo(n) /\ LeftHi(n)' = LeftHi(n)  BY LeftSame
  <1>2. LeafInv'  BY LeafKept DEF OrderInv
  <1>. QED BY <1>1, <1>2, OrderKept

(* Thread t, which does not sort, goes on.                                  *)
LEMMA GoesOn ==
  ASSUME SortInv, NEW t \in Thread, ~Sorting(t), NEW place \in Places \ {"sortlines", "sort"},
         Goto(t, place) \/ GotoAndSignal(t, place),
         \A u \in Thread : u # t => at'[u] = at[u]
  PROVE  \A n : Unsorted(n)' <=> Unsorted(n)
  <1>1. /\ ~Sorting(t)'
        /\ \A u \in Thread : u # t => pc'[u] = pc[u] \/ (pc[u] = "wait" /\ pc'[u] = "pop")
    <2>0. pc \in [Thread -> Places]  BY DEF SortInv, TypeInv
    <2>1. CASE Goto(t, place)
      BY <2>0, <2>1 DEF Goto, Sorting
    <2>2. CASE \E w \in Thread : pc[w] = "wait" /\ pc' = [pc EXCEPT ![t] = place, ![w] = "pop"]
      BY <2>0, <2>2 DEF Sorting
    <2>. QED BY <2>1, <2>2 DEF GotoAndSignal
  <1>. QED BY <1>1, UnsortedSame

(* A node that is inserted into the queue keeps what it has.                *)
LEMMA InsertKeeps ==
  ASSUME SortInv, NEW n \in Node \cup {End}, NEW b \in BOOLEAN,
         node' = [node EXCEPT ![n].queued = b] \/ node' = node
  PROVE  \A m \in Node : /\ node'[m].lo = node[m].lo /\ node'[m].hi = node[m].hi
                         /\ node'[m].end_lo = node[m].end_lo /\ node'[m].end_hi = node[m].end_hi
  BY QueuedChanges DEF SortInv, SameButQueued

(* The order is not touched by what only moves a thread, its lock or a node *)
(* in the queue.                                                            *)
LEMMA IdleSteps ==
  ASSUME SortInv, SortInv', OrderInv, NEW t \in Thread,
         \/ QueuePop(t) \/ LockNode(t) \/ ReinsertEnd(t) \/ EndBoth(t)
         \/ CheckSelf(t) \/ CheckParent(t) \/ UnlockNode(t) \/ Join(t) \/ SpuriousWakeup(t)
  PROVE  OrderInv'
  <1>1. UNCHANGED <<config, mem, joins, out>>
    BY DEF QueuePop, LockNode, ReinsertEnd, EndBoth, CheckSelf, CheckParent, UnlockNode, Join,
           SpuriousWakeup
  <1>2. \A u \in Thread : u # t => at'[u] = at[u]
    BY DEF QueuePop, LockNode, ReinsertEnd, EndBoth, CheckSelf, CheckParent, UnlockNode, Join,
           SpuriousWakeup, SortInv, TypeInv
  <1>3. ~Sorting(t)
    BY DEF QueuePop, LockNode, ReinsertEnd, EndBoth, CheckSelf, CheckParent, UnlockNode, Join,
           SpuriousWakeup, Sorting
  <1>4. \E place \in Places \ {"sortlines", "sort"} : Goto(t, place) \/ GotoAndSignal(t, place)
    <2>1. \A place \in {"wait", "lock", "end", "merge", "join", "rest", "parent", "unlock", "pop", "done"} :
            place \in Places \ {"sortlines", "sort"}
      BY DEF Places
    <2>. QED BY <2>1 DEF QueuePop, LockNode, ReinsertEnd, EndBoth, CheckSelf, CheckParent, UnlockNode,
                         Join, SpuriousWakeup, QueueCheckInsert, QueueInsert
  <1>5. \A n : Unsorted(n)' <=> Unsorted(n)  BY <1>2, <1>3, <1>4, GoesOn
  <1>6. at[t] \in Node \cup {End}  BY DEF SortInv, TypeInv
  <1>7. \E n \in Node \cup {End}, b \in BOOLEAN : node' = [node EXCEPT ![n].queued = b] \/ node' = node
    <2>1. CASE LockNode(t)  BY <1>6, <2>1 DEF LockNode
    <2>2. CASE ReinsertEnd(t)  BY <2>2 DEF ReinsertEnd, QueueInsert
    <2>3. CASE CheckSelf(t)  BY <1>6, <2>3 DEF CheckSelf, QueueCheckInsert, QueueInsert
    <2>4. CASE CheckParent(t)
      <3>1. pc[t] = "parent"  BY <2>4 DEF CheckParent
      <3>2. at[t] \in Node  BY <1>6, <3>1 DEF SortInv, LockInv, Holding
      <3>3. at[t] # Root => at[t] \div 2 \in Node  BY <3>2, Parent
      <3>. QED BY <2>4, <3>3 DEF CheckParent, QueueCheckInsert, QueueInsert
    <2>5. CASE QueuePop(t) \/ EndBoth(t) \/ UnlockNode(t) \/ Join(t) \/ SpuriousWakeup(t)
      BY <1>6, <2>5 DEF QueuePop, EndBoth, UnlockNode, Join, SpuriousWakeup
    <2>. QED BY <2>1, <2>2, <2>3, <2>4, <2>5
  <1>8. \A m \in Node : /\ node'[m].lo = node[m].lo /\ node'[m].hi = node[m].hi
                        /\ node'[m].end_lo = node[m].end_lo /\ node'[m].end_hi = node[m].end_hi
    BY <1>7, InsertKeeps
  <1>. QED BY <1>1, <1>5, <1>8, IdleKept

(* Nor by what a thread publishes.                                          *)
LEMMA PublishOrder ==
  ASSUME SortInv, SortInv', OrderInv, NEW t \in Thread, Publish(t)
  PROVE  OrderInv'
  <1>1. pc[t] = "rest" /\ Merging(t) /\ ~Sorting(t)  BY DEF Publish, Merging, Sorting
  <1>2. PICK n \in Node : n = at[t] /\ InPlay(n)  BY <1>1, MergingFacts
  <1>3. UNCHANGED <<config, mem, joins, out, at>> /\ Goto(t, "check")  BY DEF Publish
  <1>4. PICK place \in Places \ {"sortlines", "sort"} : place = "check"  BY DEF Places
  <1>5. \A m : Unsorted(m)' <=> Unsorted(m)  BY <1>1, <1>3, <1>4, GoesOn
  <1>6. PICK ml \in Int, mh \in Int, de \in Int :
          ml = node[n].lo - reg[t].lo /\ mh = node[n].hi - reg[t].hi /\ de = reg[t].dest
    <2>1. node[n] \in NodeRecord /\ reg[t] \in RegRecord  BY DEF SortInv, TypeInv
    <2>. QED BY <2>1 DEF NodeRecord, RegRecord
  <1>7. n # Root => Split(n \div 2)  BY <1>2, InPlayFacts DEF SortInv
  <1>8. \A m \in Node \cup {End} :
          /\ node'[m].lo = node[m].lo /\ node'[m].hi = node[m].hi
          /\ (n # Root /\ m = n \div 2) \/ node'[m].end_lo = node[m].end_lo
          /\ (n # Root /\ m = n \div 2) \/ node'[m].end_hi = node[m].end_hi
    BY <1>2, <1>6, PublishNodes DEF Published
  <1>9. ASSUME NEW m \in Node
        PROVE  /\ node'[m].lo = node[m].lo /\ node'[m].hi = node[m].hi
               /\ ~Split(m) => node'[m].end_lo = node[m].end_lo /\ node'[m].end_hi = node[m].end_hi
    BY <1>7, <1>8
  <1>. QED BY <1>3, <1>5, <1>9, IdleKept

(* Nor by nothing.                                                          *)
LEMMA StutterOrder ==
  ASSUME SortInv, OrderInv, UNCHANGED vars
  PROVE  OrderInv'
  <1>1. SortInv'  BY StutterSafe
  <1>2. \A m \in Node : (Unsorted(m)' <=> Unsorted(m))  BY DEF vars, Unsorted, Sorting
  <1>. QED BY <1>1, <1>2, IdleKept DEF vars, config

-----------------------------------------------------------------------------
(* Nothing is in no cells.                                                  *)
LEMMA HeldNone ==
  ASSUME NEW from \in Int, NEW S
  PROVE  Held(from, from) = {} /\ Held(from, from)' = {} /\ Prefix(S, from, from)'
  BY DEF Held, Prefix

(* A thread gives one child to a new thread; nothing has been taken of the  *)
(* node or its children.                                                    *)
LEMMA CreateThreadOrder ==
  ASSUME SortInv, SortInv', OrderInv, NEW t \in Thread, CreateThread(t)
  PROVE  OrderInv'
  <1>. USE DEF SortInv, OrderInv
  <1>1. pc[t] = "sortlines" /\ Sorting(t)  BY DEF CreateThread, Sorting
  <1>2. PICK n \in Node : n = at[t] /\ Unsorted(n) /\ Splits(n)
    <2>1. at[t] # End  BY <1>1 DEF TreeInv
    <2>. QED BY <1>1, <2>1 DEF TypeInv, Unsorted, CreateThread
  <1>3. Threads[n] > 1 /\ n \in Nat  BY <1>2, NodeFacts DEF Splits
  <1>4. PICK c \in Node, d \in Node :
          /\ c = 2 * n /\ d = 2 * n + 1 /\ c \in Thread /\ c # Root /\ d # Root /\ c # n /\ d # n
          /\ c \div 2 = n /\ d \div 2 = n
    BY <1>3, Children, NodeFacts
  <1>5. InPlay(n) /\ ~Split(n) /\ node[n] = Initially(n) /\ lock[n] = Free
    BY <1>2, <1>3, UnsortedLeft DEF TreeInv
  <1>6. ~InPlay(c) /\ ~InPlay(d)  BY <1>4, <1>5 DEF InPlay
  <1>7. /\ node[c] = Initially(c) /\ lock[c] = Free /\ node[d] = Initially(d) /\ lock[d] = Free
        /\ pc[c] = "none"
    BY <1>1, <1>4, <1>6 DEF TreeInv
  <1>8. UNCHANGED <<config, mem, node, lock, reg, out>>  BY DEF CreateThread
  <1>9. \A m \in Nat : Split(m)' <=> Split(m) \/ m = n
    <2>1. joins' = [joins EXCEPT ![t] = @ \cup {c}]  BY <1>2, <1>4 DEF CreateThread
    <2>2. \A u \in Thread : joins'[u] = IF u = t THEN joins[u] \cup {c} ELSE joins[u]
      BY <2>1 DEF TypeInv
    <2>3. ASSUME NEW m \in Nat  PROVE Split(m)' <=> Split(m) \/ m = n
      <3>1. 2 * m = c <=> m = n  BY <1>3, <1>4
      <3>. QED BY <2>2, <3>1 DEF Split
    <2>. QED BY <2>3
  <1>10. \A m \in Node : InPlay(m)' <=> InPlay(m) \/ m \in {c, d}
    <2>1. ASSUME NEW m \in Node  PROVE InPlay(m)' <=> InPlay(m) \/ m \in {c, d}
      <3>1. CASE m = Root  BY <1>4, <3>1 DEF InPlay
      <3>2. CASE m # Root
        <4>1. m \div 2 \in Nat  BY <3>2, Parent, NodeFacts
        <4>2. m \div 2 = n <=> m \in {c, d}  BY <1>4, <3>2, Parent
        <4>. QED BY <1>9, <3>2, <4>1, <4>2 DEF InPlay
      <3>. QED BY <3>1, <3>2
    <2>. QED BY <2>1
  <1>11. /\ \A u \in Thread : pc'[u] = IF u = c THEN "sortlines" ELSE pc[u]
         /\ \A u \in Thread : at'[u] = IF u = t THEN d ELSE at[u]
    <2>1. pc' = [pc EXCEPT ![c] = "sortlines"] /\ at' = [at EXCEPT ![t] = d]
      BY <1>2, <1>4 DEF CreateThread
    <2>. QED BY <2>1 DEF TypeInv
  <1>12. \A m \in Node : Unsorted(m) => Unsorted(m)' \/ m = n
    <2>1. ASSUME NEW m \in Node, NEW u \in Thread, Sorting(u), at[u] = m, m # n  PROVE Unsorted(m)'
      <3>1. u # t /\ u # c  BY <1>2, <1>7, <2>1 DEF Sorting
      <3>2. Sorting(u)' /\ at'[u] = m  BY <1>11, <2>1, <3>1 DEF Sorting
      <3>. QED BY <3>2 DEF Unsorted
    <2>. QED BY <2>1 DEF Unsorted
  <1>13. Unsorted(c)' /\ Unsorted(d)'
    <2>1. Sorting(t)' /\ at'[t] = d  BY <1>1, <1>7, <1>11 DEF Sorting
    <2>2. at[c] = c /\ c # t  BY <1>1, <1>4, <1>7 DEF TreeInv
    <2>3. Sorting(c)' /\ at'[c] = c  BY <1>4, <1>11, <2>2 DEF Sorting
    <2>. QED BY <1>4, <2>1, <2>3 DEF Unsorted
  <1>14. \A m \in Node : LeftLo(m)' = LeftLo(m) /\ LeftHi(m)' = LeftHi(m)
    <2>1. \A m \in Node : lock[m] # Free => lock[m] \in Thread  BY DEF TypeInv
    <2>2. \A u \in Thread : Merging(u)' <=> Merging(u)  BY <1>7, <1>11 DEF Merging
    <2>3. \A m \in Node : Busy(m)' <=> Busy(m)  BY <1>8, <2>1, <2>2 DEF Busy, Merging
    <2>. QED BY <1>8, <2>3 DEF LeftLo, LeftHi
  <1>15. CaseInv'  BY <1>8 DEF CaseInv, config
  <1>16. \A i, j : Before(i, j)' <=> Before(i, j)  BY <1>8, BeforeKept
  <1>17. LeafInv'
    <2>1. ASSUME NEW m \in Node, InPlay(m)', ~Split(m)', ~Unsorted(m)'
          PROVE  /\ node'[m].end_lo = Lines[m] + Lo(m) /\ node'[m].end_hi = Lines[m] + NTotal[m]
                 /\ Prefix(LowOwn(m), Lines[m], Lines[m] + Lo(m))'
                 /\ Prefix(HighOwn(m), Lines[m] + Lo(m), Lines[m] + NTotal[m])'
      <3>1. m # n /\ m # c /\ m # d  BY <1>9, <1>13, <2>1, <1>3
      <3>2. InPlay(m) /\ ~Split(m) /\ ~Unsorted(m)
        BY <1>9, <1>10, <1>12, <2>1, <3>1, NodeFacts
      <3>3. /\ node[m].end_lo = Lines[m] + Lo(m) /\ node[m].end_hi = Lines[m] + NTotal[m]
            /\ Prefix(LowOwn(m), Lines[m], Lines[m] + Lo(m))
            /\ Prefix(HighOwn(m), Lines[m] + Lo(m), Lines[m] + NTotal[m])
        BY <3>2 DEF LeafInv
      <3>. QED BY <1>8, <1>16, <3>3 DEF Prefix, Before, LowOwn, HighOwn, config
    <2>. QED BY <2>1 DEF LeafInv
  <1>18. \A m \in {n, c, d} : Gone(m) = {} /\ Gone(m)' = {}
    <2>1. ASSUME NEW m \in Node, node[m] = Initially(m), lock[m] = Free
          PROVE  Gone(m) = {} /\ Gone(m)' = {}
      <3>1. PICK l \in Nat, lo \in Nat, hi \in Nat, p \in Nat :
              l = Lines[m] /\ lo = Lo(m) /\ hi = Hi(m) /\ p = Place(m)
        BY Totals
      <3>2. LeftLo(m) = lo /\ LeftHi(m) = hi /\ LeftLo(m)' = lo /\ LeftHi(m)' = hi
        BY <1>14, <2>1, <3>1, UntouchedLeft
      <3>3. PICK a \in Nat, b \in Nat : a = FromLo(m) /\ b = FromHi(m)
        BY <3>1 DEF FromLo, FromHi
      <3>4. PICK e \in Nat, f \in Nat : e = FromLo(m)' /\ f = FromHi(m)'
        BY <3>1 DEF FromLo, FromHi
      <3>5. ToLo(m) = a /\ ToHi(m) = b /\ ToLo(m)' = e /\ ToHi(m)' = f
        BY <3>1, <3>2, <3>3, <3>4 DEF ToLo, ToHi
      <3>6. Held(FromLo(m), ToLo(m))' = Held(e, e)' /\ Held(FromHi(m), ToHi(m))' = Held(f, f)'
        BY <3>4, <3>5 DEF Held
      <3>. QED BY <3>3, <3>5, <3>6, HeldNone DEF Gone
    <2>. QED BY <1>5, <1>7, <2>1
  <1>19. \A m \in Node : m \notin {n, c, d} => Gone(m)' = Gone(m)
    <2>1. ASSUME NEW m \in Node, m # n  PROVE Gone(m)' = Gone(m)
      <3>1. Split(m)' <=> Split(m)  BY <1>9, <2>1, NodeFacts
      <3>. QED BY <1>8, <1>14, <3>1 DEF Gone, Held, FromLo, FromHi, ToLo, ToHi
    <2>. QED BY <2>1
  <1>20. \A m \in Node : InPlay(m) => Gone(m)' = Gone(m)  BY <1>18, <1>19
  <1>21. SentInv'
    <2>1. ASSUME NEW m \in Node, InPlay(m), m # Root
          PROVE  Prefix(Own(m), Base(m), SentTo(m))' /\ Held(Base(m), SentTo(m))' = Gone(m)'
      <3>1. SentTo(m)' = SentTo(m)  BY <1>14 DEF SentTo, Left, Base
      <3>2. Prefix(Own(m), Base(m), SentTo(m)) /\ Held(Base(m), SentTo(m)) = Gone(m)
        BY <2>1 DEF SentInv
      <3>3. Prefix(Own(m), Base(m), SentTo(m))'  BY <1>8, <1>16, <3>1, <3>2 DEF Prefix, Own, Base
      <3>4. Held(Base(m), SentTo(m))' = Held(Base(m), SentTo(m))  BY <1>8, <3>1 DEF Held, Base
      <3>. QED BY <1>20, <2>1, <3>2, <3>3, <3>4
    <2>2. ASSUME NEW m \in {c, d}
          PROVE  Prefix(Own(m), Base(m), SentTo(m))' /\ Held(Base(m), SentTo(m))' = Gone(m)'
      <3>1. m \in Node /\ m # Root  BY <1>4
      <3>2. m \div 2 = n  BY <1>4
      <3>3. PICK b \in Nat, k \in Nat : b = Base(m) /\ k = NTotal[m]
        BY <3>1, <3>2, Totals DEF Base, Offset
      <3>4. LeftLo(m)' + LeftHi(m)' = k  BY <1>7, <1>14, <3>1, <3>3, UntouchedLeft DEF Left
      <3>5. SentTo(m)' = b  BY <3>3, <3>4 DEF SentTo, Left, Base
      <3>6. PICK S : S = Own(m)  OBVIOUS
      <3>7. Prefix(Own(m), Base(m), SentTo(m))' <=> Prefix(S, b, b)'
        BY <3>3, <3>5, <3>6 DEF Prefix, Own, Base
      <3>8. Held(Base(m), SentTo(m))' = Held(b, b)'  BY <3>3, <3>5 DEF Held, Base
      <3>. QED BY <1>18, <3>3, <3>7, <3>8, HeldNone
    <2>. QED BY <1>10, <2>1, <2>2 DEF SentInv
  <1>22. CutInv'
    <2>1. ASSUME NEW m \in Node, InPlay(m), NEW i \in Gone(m)
          PROVE  i \in Own(m) /\ \A j \in Own(m) \ Gone(m) : Before(i, j)'
      BY <1>16, <2>1 DEF CutInv
    <2>. QED BY <1>10, <1>18, <1>20, <2>1 DEF CutInv, Own
  <1>23. OutInv'
    <2>1. Gone(Root)' = Gone(Root)  BY <1>20, NodeFacts DEF InPlay
    <2>2. \A i : Wanted(i)' <=> Wanted(i)  BY <1>8 DEF Wanted, config
    <2>3. out' = out  BY <1>8
    <2>4. \A k \in DOMAIN out : out[k] = out[Len(out)] \/ Before(out[k], out[Len(out)])'
      BY <1>16, <2>3 DEF OutInv
    <2>. QED BY <2>1, <2>2, <2>3, <2>4 DEF OutInv
  <1>. QED BY <1>15, <1>17, <1>21, <1>22, <1>23

-----------------------------------------------------------------------------
(* No node is further from the root than its number.                        *)
LEMMA Deep ==
  \A n \in Node : Level[n] <= n
  <1>. DEFINE A == { n \in 1 .. Bound : Level[n] <= n }
  <1>1. Bound \in Nat /\ 1 \in A  BY SizeAssumption, LevelDef DEF Bound, Root
  <1>2. ASSUME NEW n \in 2 .. Bound, n \div 2 \in A  PROVE n \in A
    <2>1. PICK k \in Nat, h \in Nat : k = Level[n \div 2] /\ h = n \div 2 /\ k <= h
      BY <1>2, LevelDef
    <2>2. Level[n] = k + 1  BY <2>1, LevelDef
    <2>3. h + 1 <= n  BY <2>1
    <2>. QED BY <2>1, <2>2, <2>3
  <1>. HIDE DEF A
  <1>3. \A n \in 1 .. Bound : n \in A  BY <1>1, <1>2, FromTheTop
  <1>. QED BY <1>3, NodeFacts DEF A

(* Where a node merges to: as far from the start of its level as its lines  *)
(* from that of the buffer.                                                 *)
LEMMA Region ==
  ASSUME NEW n \in Node, n # Root
  PROVE  \E lv \in Nat \ {0}, p \in Nat :
           /\ Level[n] = lv + 1 /\ p = lv * NLines /\ Base(n) = Lines[n] + p /\ p >= NLines
           /\ n \div 2 # Root => p >= 2 * NLines
           /\ n \div 2 = Root => p = NLines
  <1>1. PICK up \in Node : up = n \div 2  BY Parent
  <1>2. PICK l \in Nat, o \in Nat, lv \in Nat \ {0} :
          l = Lines[up] /\ o = Offset(n) /\ lv = Level[up]
    BY <1>1, Totals DEF Offset
  <1>3. PICK p \in Nat : p = lv * NLines  BY <1>2, SizeAssumption
  <1>4. p >= NLines  BY <1>2, <1>3, SizeAssumption
  <1>5. Level[n] = lv + 1 /\ Lines[n] = l + o  BY <1>1, <1>2, Totals
  <1>6. Base(n) = l + p + o  BY <1>1, <1>2, <1>3 DEF Base, Place
  <1>7. ASSUME up # Root  PROVE p >= 2 * NLines
    <2>1. up \div 2 \in Node  BY <1>7, Parent
    <2>2. Level[up \div 2] \in Nat \ {0} /\ Level[up] = Level[up \div 2] + 1
      BY <1>7, <2>1, Totals
    <2>3. lv >= 2  BY <1>2, <2>2
    <2>. QED BY <1>3, <2>3, SizeAssumption
  <1>8. ASSUME up = Root  PROVE p = NLines
    <2>1. lv = 1  BY <1>2, <1>8, LevelDef
    <2>. QED BY <1>3, <2>1, SizeAssumption
  <1>. QED BY <1>1, <1>2, <1>3, <1>4, <1>5, <1>6, <1>7, <1>8

(* It has not sent more lines than it has.                                  *)
LEMMA SentFits ==
  ASSUME SortInv, NEW n \in Node, n # Root
  PROVE  /\ Base(n) \in Nat /\ SentTo(n) \in Nat /\ Left(n) \in Nat /\ Left(n) <= NTotal[n]
         /\ Base(n) <= SentTo(n) /\ SentTo(n) <= Base(n) + NTotal[n]
         /\ SentTo(n) = Base(n) + NTotal[n] - Left(n)
  <1>1. LeftLo(n) \in 0 .. Lo(n) /\ LeftHi(n) \in 0 .. Hi(n)  BY DEF SortInv, CountInv
  <1>2. PICK lo \in Nat, hi \in Nat : lo = Lo(n) /\ hi = Hi(n) /\ NTotal[n] = lo + hi  BY Totals
  <1>3. PICK a \in Nat, b \in Nat : a = LeftLo(n) /\ b = LeftHi(n) /\ a <= lo /\ b <= hi
    BY <1>1, <1>2
  <1>4. PICK p \in Nat : Base(n) = Lines[n] + p  BY Region
  <1>5. PICK s \in Nat : s = Base(n)  BY <1>4, Totals
  <1>6. SentTo(n) = s + (lo + hi) - (a + b) /\ Left(n) = a + b  BY <1>2, <1>3, <1>5 DEF SentTo, Left
  <1>7. s + (lo + hi) - (a + b) \in Nat /\ s <= s + (lo + hi) - (a + b)  BY <1>3
  <1>. QED BY <1>2, <1>3, <1>5, <1>6, <1>7

(* These are cells, after the buffer; and so are those of the buffer.       *)
LEMMA AllCells ==
  /\ \A n \in Node : \A x \in Own(n) : x \in Cells /\ x \in 1 .. NLines
  /\ \A n \in Node : n # Root =>
       \A x \in Base(n) + 1 .. Base(n) + NTotal[n] : x \in Cells /\ x \in Nat /\ x > NLines
  <1>1. PICK b \in Nat : b = Bound /\ b >= 4  BY SizeAssumption DEF Bound
  <1>2. PICK q \in Nat : q = NLines * b  BY <1>1, SizeAssumption
  <1>3. ASSUME NEW n \in Node, NEW x \in Own(n)  PROVE x \in Cells /\ x \in 1 .. NLines
    <2>1. x \in 1 .. NLines  BY OwnSides
    <2>2. NLines * b >= NLines  BY <1>1, SizeAssumption
    <2>3. x \in 1 .. q /\ x <= 2 * NLines  BY <1>2, <2>1, <2>2, SizeAssumption
    <2>. QED BY <1>1, <1>2, <2>1, <2>3 DEF Cells
  <1>4. ASSUME NEW n \in Node, n # Root, NEW x \in Base(n) + 1 .. Base(n) + NTotal[n]
        PROVE  x \in Cells /\ x \in Nat /\ x > NLines
    <2>1. PICK lv \in Nat \ {0}, p \in Nat :
            Level[n] = lv + 1 /\ p = lv * NLines /\ Base(n) = Lines[n] + p /\ p >= NLines
      BY <1>4, Region
    <2>2. PICK l \in Nat, k \in Nat : l = Lines[n] /\ k = NTotal[n] /\ l + k <= NLines
      BY Totals, LinesFit
    <2>3. x \in l + p + 1 .. l + p + k  BY <1>4, <2>1, <2>2
    <2>4. NLines * (lv + 1) = p + NLines  BY <2>1, SizeAssumption
    <2>5. x <= NLines * Level[n]  BY <2>1, <2>2, <2>3, <2>4, SizeAssumption
    <2>6. NLines * Level[n] <= NLines * b
      <3>1. lv + 1 <= b
        <4>1. n \in 1 .. b /\ lv + 1 <= n  BY <1>1, <2>1, NodeFacts, Deep
        <4>. QED BY <1>1, <4>1
      <3>2. NLines * (lv + 1) <= NLines * b  BY <1>1, <3>1, SizeAssumption
      <3>. QED BY <2>1, <3>2
    <2>7. PICK r \in Nat : r = NLines * Level[n]  BY <2>1, SizeAssumption
    <2>8. x \in 1 .. q  BY <1>2, <2>3, <2>5, <2>6, <2>7
    <2>9. x \in 1 .. NLines * Bound  BY <1>1, <1>2, <2>8
    <2>. QED BY <2>1, <2>3, <2>5, <2>9, SizeAssumption DEF Cells
  <1>. QED BY <1>3, <1>4

(* Each node has a place of its own to merge to.                            *)
LEMMA RegionsApart ==
  ASSUME NEW n \in Node, NEW m \in Node, n # Root, m # Root, n # m,
         NEW x \in Base(n) + 1 .. Base(n) + NTotal[n]
  PROVE  x \notin Base(m) + 1 .. Base(m) + NTotal[m]
  <1>1. PICK lv \in Nat \ {0}, p \in Nat :
          Level[n] = lv + 1 /\ p = lv * NLines /\ Base(n) = Lines[n] + p
    BY Region
  <1>2. PICK lw \in Nat \ {0}, q \in Nat :
          Level[m] = lw + 1 /\ q = lw * NLines /\ Base(m) = Lines[m] + q
    BY Region
  <1>3. PICK l \in Nat, k \in Nat, h \in Nat, j \in Nat :
          /\ l = Lines[n] /\ k = NTotal[n] /\ h = Lines[m] /\ j = NTotal[m]
          /\ l + k <= NLines /\ h + j <= NLines
    BY Totals, LinesFit
  <1>4. x \in l + p + 1 .. l + p + k  BY <1>1, <1>3
  <1>5. CASE lv = lw
    <2>1. Apart(n, m)  BY <1>1, <1>2, <1>5, LevelApart
    <2>2. p = q /\ (l + k <= h \/ h + j <= l)  BY <1>1, <1>2, <1>3, <1>5, <2>1 DEF Apart
    <2>. QED BY <1>2, <1>3, <1>4, <2>2
  <1>6. CASE lv < lw
    <2>1. p + NLines <= q
      <3>1. (lv + 1) * NLines <= lw * NLines  BY <1>6, SizeAssumption
      <3>2. (lv + 1) * NLines = p + NLines  BY <1>1, SizeAssumption
      <3>. QED BY <1>2, <3>1, <3>2
    <2>. QED BY <1>2, <1>3, <1>4, <2>1, SizeAssumption
  <1>7. CASE lw < lv
    <2>1. q + NLines <= p
      <3>1. (lw + 1) * NLines <= lv * NLines  BY <1>7, SizeAssumption
      <3>2. (lw + 1) * NLines = q + NLines  BY <1>2, SizeAssumption
      <3>. QED BY <1>1, <3>1, <3>2
    <2>. QED BY <1>2, <1>3, <1>4, <2>1, SizeAssumption
  <1>. QED BY <1>5, <1>6, <1>7

(* What a leaf sorts in is not where something has been merged to.          *)
LEMMA SpaceApart ==
  ASSUME SortInv, NEW n \in Node, Unsorted(n), NEW m \in Node, InPlay(m), m # Root,
         NEW x \in Base(m) + 1 .. SentTo(m)
  PROVE  x \notin Temp(n)
  <1>1. SUFFICES ASSUME x \in Temp(n)  PROVE FALSE  OBVIOUS
  <1>2. PICK l \in Nat, k \in Nat, h \in Nat, j \in Nat :
          l = Lines[n] /\ k = NTotal[n] /\ h = Lines[m] /\ j = NTotal[m]
    BY Totals
  <1>3. x \in Nat /\ x > NLines + l /\ x <= NLines + l + k /\ x <= 2 * NLines
    BY <1>1, <1>2, TempPlace
  <1>4. PICK p \in Nat :
          /\ Base(m) = h + p /\ p >= NLines
          /\ m \div 2 # Root => p >= 2 * NLines
          /\ m \div 2 = Root => p = NLines
    BY <1>2, Region
  <1>5. PICK s \in Nat : s = SentTo(m) /\ s <= h + p + j  BY <1>2, <1>4, SentFits
  <1>6. x \in h + p + 1 .. s  BY <1>4, <1>5
  <1>7. m \div 2 = Root  BY <1>3, <1>4, <1>6, SizeAssumption
  <1>8. Split(Root)  BY <1>7, InPlayFacts DEF SortInv
  <1>9. n # Root
    <2>1. Root \in Nat  BY DEF Root
    <2>. QED BY <1>8, <2>1 DEF SortInv, TreeInv
  <1>10. Left(n) = NTotal[n] /\ InPlay(n)  BY UnsortedLeft
  <1>11. PICK c \in Node : Above(c, n)  BY <1>9, <1>10, Quiet DEF QuietInv
  <1>12. /\ c # Root /\ c \div 2 = Root /\ Left(c) = NTotal[c]
         /\ Lines[c] <= l /\ l + k <= Lines[c] + NTotal[c]
    BY <1>2, <1>10, <1>11 DEF Above
  <1>13. PICK lc \in Nat, kc \in Nat : lc = Lines[c] /\ kc = NTotal[c]  BY Totals
  <1>14. CASE c = m
    <2>1. s = Base(m) + j - j  BY <1>2, <1>5, <1>12, <1>14 DEF SentTo
    <2>. QED BY <1>4, <1>6, <2>1
  <1>15. CASE c # m
    <2>1. Level[c] = Level[Root] + 1 /\ Level[m] = Level[Root] + 1
      BY <1>7, <1>12, Totals
    <2>2. Apart(c, m)  BY <1>15, <2>1, LevelApart
    <2>3. lc + kc <= h \/ h + j <= lc  BY <1>2, <1>13, <2>2 DEF Apart
    <2>4. lc <= l /\ l + k <= lc + kc  BY <1>12, <1>13
    <2>5. p = NLines  BY <1>4, <1>7
    <2>. QED BY <1>3, <1>5, <1>6, <2>3, <2>4, <2>5, SizeAssumption
  <1>. QED BY <1>14, <1>15

(* A thread starts to sort its leaf.                                        *)
LEMMA SortSequentiallyOrder ==
  ASSUME SortInv, SortInv', OrderInv, NEW t \in Thread, SortSequentially(t)
  PROVE  OrderInv'
  <1>1. Sorting(t) /\ pc \in [Thread -> Places]
    BY DEF SortSequentially, Sorting, SortInv, TypeInv
  <1>2. PICK n \in Node : n = at[t] /\ Unsorted(n)
    <2>1. at[t] # End  BY <1>1 DEF SortInv, TreeInv
    <2>. QED BY <1>1, <2>1 DEF SortInv, TypeInv, Unsorted
  <1>3. UNCHANGED <<config, node, joins, out, at>>  BY DEF SortSequentially
  <1>4. \A u \in Thread : Sorting(u)' <=> Sorting(u)
    BY <1>1 DEF SortSequentially, Goto, Sorting
  <1>5. \A m \in Node : Unsorted(m)' <=> Unsorted(m)  BY <1>3, <1>4 DEF Unsorted
  <1>6. \A m \in Node : LeftLo(m)' = LeftLo(m) /\ LeftHi(m)' = LeftHi(m)  BY <1>3, <1>5, LeftSame
  <1>7. ASSUME NEW x \in Cells, x \notin Temp(n)  PROVE mem'[x] = mem[x]
    BY <1>2, <1>7 DEF SortSequentially
  <1>8. ASSUME NEW m \in Node, NEW x \in Own(m)  PROVE mem'[x] = mem[x]
    <2>1. x \in Cells /\ x \in 1 .. NLines  BY AllCells
    <2>2. x \notin Temp(n)
      <3>1. ASSUME x \in Temp(n)  PROVE FALSE
        <4>1. x > NLines + Lines[n] /\ Lines[n] \in Nat  BY <3>1, TempPlace, Totals
        <4>. QED BY <2>1, <4>1, SizeAssumption
      <3>. QED BY <3>1
    <2>. QED BY <1>7, <2>1, <2>2
  <1>9. ASSUME NEW m \in Node, InPlay(m), m # Root, NEW x \in Base(m) + 1 .. SentTo(m)
        PROVE  mem'[x] = mem[x]
    <2>1. x \notin Temp(n)  BY <1>2, <1>9, SpaceApart
    <2>2. PICK b \in Nat, s \in Nat, k \in Nat :
            b = Base(m) /\ s = SentTo(m) /\ k = NTotal[m] /\ s <= b + k
      BY <1>9, SentFits, Totals
    <2>3. x \in Base(m) + 1 .. Base(m) + NTotal[m]  BY <1>9, <2>2
    <2>4. x \in Cells  BY <1>9, <2>3, AllCells
    <2>. QED BY <1>7, <2>1, <2>4
  <1>10. LeafInv'  BY <1>3, <1>5, <1>8, LeafKept DEF OrderInv
  <1>. QED BY <1>3, <1>6, <1>8, <1>9, <1>10, OrderKept

-----------------------------------------------------------------------------
(* Each line is where as many of the others come before it.                 *)
Ranked(f, a, b) ==
  \A x \in a + 1 .. b :
    /\ f[x] \in a + 1 .. b
    /\ \A j \in a + 1 .. b : Before(j, f[x]) <=> \E y \in a + 1 .. x - 1 : f[y] = j

(* That is how a sequential sort leaves them.                               *)
LEMMA SortedRanked ==
  ASSUME CaseInv, NEW a \in Nat, NEW b \in Nat, a <= b, b <= NLines
  PROVE  DOMAIN SortedCells(a, b) = a + 1 .. b /\ Ranked(SortedCells(a, b), a, b)
  <1>. DEFINE S == a + 1 .. b
              Less(i) == { j \in S : Before(j, i) }
              g == [i \in S |-> a + 1 + Cardinality(Less(i))]
              f == SortedCells(a, b)
  <1>1. S \subseteq 1 .. NLines /\ S \subseteq Nat  BY SizeAssumption
  <1>2. IsFiniteSet(S) /\ Cardinality(S) = b - a
    <2>1. IsFiniteSet(S) /\ Cardinality(S) = IF a + 1 > b THEN 0 ELSE b - (a + 1) + 1
      BY FS_Interval
    <2>2. b - (a + 1) + 1 = b - a  OBVIOUS
    <2>. QED BY <2>1, <2>2
  <1>3. f = [c \in S |-> CHOOSE i \in S : c = a + 1 + Cardinality(Less(i))]
    BY DEF SortedCells
  <1>4. /\ \A i, j \in S : Before(i, j) \/ Before(j, i) \/ i = j
        /\ \A i, j \in S : ~(Before(i, j) /\ Before(j, i))
        /\ \A i \in S : ~Before(i, i)
        /\ \A i, j, k \in S : Before(i, j) /\ Before(j, k) => Before(i, k)
    BY <1>1, BeforeOrder
  <1>. HIDE DEF S
  <1>5. \A i \in S : /\ IsFiniteSet(Less(i)) /\ Cardinality(Less(i)) \in Nat
                     /\ Cardinality(Less(i)) < b - a
    <2>1. ASSUME NEW i \in S
          PROVE  /\ IsFiniteSet(Less(i)) /\ Cardinality(Less(i)) \in Nat
                 /\ Cardinality(Less(i)) < b - a
      <3>1. IsFiniteSet(S \ {i}) /\ Cardinality(S \ {i}) = b - a - 1
        <4>1. IsFiniteSet(S \ {i}) /\ Cardinality(S \ {i}) = IF i \in S THEN Cardinality(S) - 1 ELSE Cardinality(S)
          BY <1>2, FS_RemoveElement
        <4>. QED BY <1>2, <2>1, <4>1
      <3>2. Less(i) \in SUBSET (S \ {i})  BY <1>4
      <3>3. IsFiniteSet(Less(i)) /\ Cardinality(Less(i)) <= Cardinality(S \ {i})
        BY <3>1, <3>2, FS_Subset
      <3>4. Cardinality(Less(i)) \in Nat  BY <3>3, FS_CardinalityType
      <3>. QED BY <3>1, <3>3, <3>4
    <2>. QED BY <2>1
  <1>6. \A i, j \in S : Before(i, j) => Cardinality(Less(i)) < Cardinality(Less(j))
    <2>1. ASSUME NEW i \in S, NEW j \in S, Before(i, j)
          PROVE  Cardinality(Less(i)) < Cardinality(Less(j))
      <3>1. IsFiniteSet(Less(i) \cup {i}) /\ Cardinality(Less(i) \cup {i}) = Cardinality(Less(i)) + 1
        <4>1. i \notin Less(i) /\ IsFiniteSet(Less(i))  BY <1>4, <1>5
        <4>. HIDE DEF Less
        <4>. QED BY <4>1, FS_AddElement
      <3>2. Less(i) \cup {i} \in SUBSET Less(j)  BY <1>4, <2>1
      <3>3. Cardinality(Less(i) \cup {i}) <= Cardinality(Less(j))  BY <1>5, <3>2, FS_Subset
      <3>4. PICK k \in Nat, l \in Nat : k = Cardinality(Less(i)) /\ l = Cardinality(Less(j))  BY <1>5
      <3>5. k + 1 <= l
        <4>. HIDE DEF Less
        <4>. QED BY <3>1, <3>3, <3>4
      <3>6. k < l  BY <3>5
      <3>. QED BY <3>4, <3>6
    <2>. QED BY <2>1
  <1>7. \A i \in S : g[i] = a + 1 + Cardinality(Less(i)) /\ g[i] \in S
    <2>1. ASSUME NEW i \in S  PROVE g[i] \in S
      <3>1. PICK k \in Nat : k = Cardinality(Less(i)) /\ k < b - a  BY <1>5
      <3>2. a + 1 + k \in a + 1 .. b  BY <3>1
      <3>. QED BY <3>1, <3>2 DEF S
    <2>. QED BY <2>1
  <1>8. \A i, j \in S : Before(i, j) => g[i] < g[j]
    <2>1. ASSUME NEW i \in S, NEW j \in S, Before(i, j)  PROVE g[i] < g[j]
      <3>1. PICK k \in Nat, l \in Nat : k = Cardinality(Less(i)) /\ l = Cardinality(Less(j))
        BY <1>5
      <3>2. k < l  BY <1>6, <2>1, <3>1
      <3>3. g[i] = a + 1 + k /\ g[j] = a + 1 + l  BY <1>7, <3>1
      <3>. QED BY <3>2, <3>3
    <2>. QED BY <2>1
  <1>9. g \in [S -> S]  BY <1>7
  <1>10. \A i \in S : g[i] \in Nat  BY <1>1, <1>7
  <1>11. \A i \in S, j \in S : (Before(i, j) <=> g[i] < g[j]) /\ (g[i] = g[j] => i = j)
    <2>1. ASSUME NEW i \in S, NEW j \in S
          PROVE  (Before(i, j) <=> g[i] < g[j]) /\ (g[i] = g[j] => i = j)
      <3>1. PICK x \in Nat, y \in Nat : x = g[i] /\ y = g[j]  BY <1>10
      <3>2. (Before(i, j) => x < y) /\ (Before(j, i) => y < x) /\ (i = j => x = y)
        BY <1>8, <3>1
      <3>3. Before(i, j) \/ Before(j, i) \/ i = j  BY <1>4
      <3>4. (x < y => Before(i, j)) /\ (x = y => i = j)  BY <3>2, <3>3
      <3>. QED BY <3>1, <3>2, <3>4
    <2>. QED BY <2>1
  <1>12. \A c \in S : f[c] \in S /\ g[f[c]] = c
    <2>1. g \in Injection(S, S)  BY <1>9, <1>11 DEF Injection, IsInjective
    <2>2. g \in Surjection(S, S)
      <3>. HIDE DEF g
      <3>. QED BY <1>2, <2>1, FS_Injection
    <2>3. \A c \in S : \E i \in S : g[i] = c  BY <2>2 DEF Surjection
    <2>4. ASSUME NEW c \in S  PROVE f[c] \in S /\ g[f[c]] = c
      <3>1. f[c] = CHOOSE i \in S : c = a + 1 + Cardinality(Less(i))  BY <1>3
      <3>2. \E i \in S : c = a + 1 + Cardinality(Less(i))  BY <1>7, <2>3
      <3>3. f[c] \in S /\ c = a + 1 + Cardinality(Less(f[c]))
        <4>. HIDE DEF f, Less
        <4>. QED BY <3>1, <3>2
      <3>. HIDE DEF f, g, Less
      <3>4. g[f[c]] = a + 1 + Cardinality(Less(f[c]))  BY <1>7, <3>3
      <3>. QED BY <3>3, <3>4
    <2>. QED BY <2>4
  <1>. HIDE DEF f, g, Less
  <1>13. ASSUME NEW x \in S, NEW j \in S
         PROVE  Before(j, f[x]) <=> \E y \in a + 1 .. x - 1 : f[y] = j
    <2>1. f[x] \in S /\ g[f[x]] = x  BY <1>12
    <2>2. Before(j, f[x]) <=> g[j] < x  BY <1>11, <2>1
    <2>3. ASSUME g[j] < x  PROVE \E y \in a + 1 .. x - 1 : f[y] = j
      <3>1. PICK y \in S : y = g[j]  BY <1>7
      <3>2. f[y] \in S /\ g[f[y]] = g[j]  BY <1>12, <3>1
      <3>3. f[y] = j  BY <1>11, <3>2
      <3>4. y \in a + 1 .. x - 1  BY <2>3, <3>1 DEF S
      <3>. QED BY <3>3, <3>4
    <2>4. ASSUME NEW y \in a + 1 .. x - 1, f[y] = j  PROVE g[j] < x
      <3>1. y \in S /\ y < x  BY DEF S
      <3>. QED BY <1>12, <2>4, <3>1
    <2>. QED BY <2>2, <2>3, <2>4
  <1>14. DOMAIN f = S  BY <1>3
  <1>. QED BY <1>12, <1>13, <1>14 DEF f, S, Ranked

(* So they are in the cells then.                                           *)
LEMMA RankedPrefix ==
  ASSUME UNCHANGED config, NEW f, NEW a \in Nat, NEW b \in Nat, Ranked(f, a, b),
         \A x \in a + 1 .. b : mem'[x] = f[x]
  PROVE  Prefix(a + 1 .. b, a, b)'
  <1>1. ASSUME NEW x \in a + 1 .. b
        PROVE  /\ mem'[x] \in a + 1 .. b
               /\ \A j \in a + 1 .. b : Before(j, mem[x])' <=> \E y \in a + 1 .. x - 1 : mem'[y] = j
    <2>1. \A y \in a + 1 .. x - 1 : y \in a + 1 .. b  OBVIOUS
    <2>2. mem'[x] = f[x] /\ \A y \in a + 1 .. x - 1 : mem'[y] = f[y]  BY <2>1
    <2>3. /\ f[x] \in a + 1 .. b
          /\ \A j \in a + 1 .. b : Before(j, f[x]) <=> \E y \in a + 1 .. x - 1 : f[y] = j
      BY DEF Ranked
    <2>4. PICK v : v = f[x] /\ v = mem'[x]  BY <2>2
    <2>5. \A j : Before(j, mem[x])' <=> Before(j, v)  BY <2>4 DEF Before, config
    <2>. QED BY <2>2, <2>3, <2>4, <2>5
  <1>. QED BY <1>1 DEF Prefix

(* A leaf has been sorted, and its two halves are in order.                 *)
LEMMA EndSortOrder ==
  ASSUME SortInv, SortInv', OrderInv, NEW t \in Thread, EndSort(t)
  PROVE  OrderInv'
  <1>. USE DEF SortInv, OrderInv
  <1>1. pc[t] = "sort" /\ ~Merging(t)  BY DEF EndSort, Merging
  <1>2. PICK n \in Node : n = at[t] /\ Unsorted(n) /\ InPlay(n)  BY <1>1, SortingLeaf
  <1>3. node[n] = Initially(n) /\ lock[n] = Free  BY <1>2 DEF TreeInv
  <1>4. PICK from \in Nat, lo \in Nat, hi \in Nat :
          from = Lines[n] /\ lo = Lo(n) /\ hi = Hi(n) /\ NTotal[n] = lo + hi
    BY Totals
  <1>5. PICK mid \in Nat, to \in Nat :
          mid = from + lo /\ to = mid + hi /\ to = from + (lo + hi) /\ mid <= to /\ to <= NLines
    <2>1. from + (lo + hi) <= NLines  BY <1>4, LinesFit
    <2>. QED BY <2>1, SizeAssumption
  <1>6. UNCHANGED <<config, lock, reg, joins, out>>  BY DEF EndSort
  <1>7. /\ node'[n].nlo = lo /\ node'[n].nhi = hi /\ node'[n].end_lo = mid /\ node'[n].end_hi = to
        /\ \A m \in Node \cup {End} : m # n => node'[m] = node[m]
    <2>1. node[n].nlo = lo /\ node[n].nhi = hi  BY <1>3, <1>4 DEF Initially, MergeNode
    <2>2. PICK q : q = MergeNode(from, mid, mid, to, lo, hi)  OBVIOUS
    <2>3. q \in NodeRecord /\ q.end_lo = mid /\ q.end_hi = to /\ q.nlo = lo /\ q.nhi = hi
      BY <2>2 DEF MergeNode, NodeRecord
    <2>4. PICK r : r = [q EXCEPT !.queued = TRUE]  OBVIOUS
    <2>5. r.end_lo = mid /\ r.end_hi = to /\ r.nlo = lo /\ r.nhi = hi
      BY <2>3, <2>4 DEF NodeRecord
    <2>6. node' = [node EXCEPT ![n] = r]
      BY <1>2, <1>4, <1>5, <2>1, <2>2, <2>4 DEF EndSort
    <2>. QED BY <2>5, <2>6 DEF TypeInv
  <1>8. Moves(t, "pop")  BY <1>1, GotoMoves DEF EndSort, Places
  <1>9. at'[t] = End /\ \A u \in Thread : u # t => at'[u] = at[u]  BY DEF EndSort, TypeInv
  <1>10. \A m \in Node : m # n => (Unsorted(m)' <=> Unsorted(m))
    <2>1. ~Sorting(t)' /\ \A u \in Thread : u # t => (Sorting(u)' <=> Sorting(u))
      BY <1>8 DEF Moves, Sorting
    <2>. QED BY <1>2, <1>9, <2>1 DEF Unsorted
  <1>11. \A m : (InPlay(m)' <=> InPlay(m)) /\ (Split(m)' <=> Split(m))
    BY <1>6 DEF InPlay, Split
  <1>12. ~Split(n)
    <2>1. n \in Nat  BY NodeFacts
    <2>. QED BY <1>2, <2>1 DEF TreeInv
  <1>13. \A m \in Node : LeftLo(m)' = LeftLo(m) /\ LeftHi(m)' = LeftHi(m)
    <2>1. \A m \in Node : lock[m] # Free => lock[m] \in Thread  BY DEF TypeInv
    <2>2. \A u \in Thread : Merging(u)' <=> Merging(u)  BY <1>1, <1>8 DEF Merging, Moves
    <2>3. \A m \in Node : Busy(m)' <=> Busy(m)  BY <1>6, <2>1, <2>2 DEF Busy, Merging
    <2>4. ASSUME NEW m \in Node, m # n  PROVE LeftLo(m)' = LeftLo(m) /\ LeftHi(m)' = LeftHi(m)
      BY <1>6, <1>7, <2>3, <2>4 DEF LeftLo, LeftHi
    <2>5. LeftLo(n)' = LeftLo(n) /\ LeftHi(n)' = LeftHi(n)
      <3>1. ~Busy(n) /\ ~Busy(n)'  BY <1>3, <2>3 DEF Busy
      <3>2. node[n].nlo = lo /\ node[n].nhi = hi  BY <1>3, <1>4 DEF Initially, MergeNode
      <3>. QED BY <1>7, <3>1, <3>2 DEF LeftLo, LeftHi
    <2>. QED BY <2>4, <2>5
  <1>14. PICK f, g :
          /\ f = SortedCells(from, mid) /\ g = SortedCells(mid, to)
          /\ mem' = [a \in Cells |-> IF a \in DOMAIN f THEN f[a] ELSE IF a \in DOMAIN g THEN g[a] ELSE mem[a]]
    BY <1>2, <1>4, <1>5 DEF EndSort
  <1>15. /\ DOMAIN f = from + 1 .. mid /\ Ranked(f, from, mid)
         /\ DOMAIN g = mid + 1 .. to /\ Ranked(g, mid, to)
    <2>1. mid <= NLines /\ from <= mid  BY <1>5, SizeAssumption
    <2>. QED BY <1>5, <1>14, <2>1, SortedRanked
  <1>16. Own(n) = from + 1 .. to /\ LowOwn(n) = from + 1 .. mid /\ HighOwn(n) = mid + 1 .. to
    BY <1>4, <1>5 DEF Own, LowOwn, HighOwn
  <1>17. /\ \A x \in from + 1 .. mid : mem'[x] = f[x]
         /\ \A x \in mid + 1 .. to : mem'[x] = g[x]
    <2>1. \A x \in from + 1 .. to : x \in Cells  BY <1>16, AllCells
    <2>2. ASSUME NEW x \in from + 1 .. mid  PROVE mem'[x] = f[x]
      <3>1. x \in from + 1 .. to  BY <1>5
      <3>. QED BY <1>14, <1>15, <2>1, <3>1
    <2>3. ASSUME NEW x \in mid + 1 .. to  PROVE mem'[x] = g[x]
      <3>1. x \in from + 1 .. to /\ x \notin from + 1 .. mid  BY <1>5
      <3>. QED BY <1>14, <1>15, <2>1, <3>1
    <2>. QED BY <2>2, <2>3
  <1>18. \A x \in Cells : x \notin Own(n) => mem'[x] = mem[x]
    <2>1. from + 1 .. mid \subseteq Own(n) /\ mid + 1 .. to \subseteq Own(n)  BY <1>5, <1>16
    <2>. QED BY <1>14, <1>15, <2>1
  <1>19. ASSUME NEW m \in Node, InPlay(m), ~Split(m), m # n, NEW x \in Own(m)  PROVE mem'[x] = mem[x]
    <2>1. Apart(m, n)  BY <1>2, <1>12, <1>19, LeavesApart
    <2>2. PICK l \in Nat, k \in Nat : l = Lines[m] /\ k = NTotal[m]  BY Totals
    <2>3. l + k <= from \/ from + (lo + hi) <= l  BY <1>4, <2>1, <2>2 DEF Apart
    <2>4. x \in l + 1 .. l + k  BY <2>2 DEF Own
    <2>5. x \notin from + 1 .. to  BY <1>5, <2>3, <2>4
    <2>6. x \in Cells  BY AllCells
    <2>. QED BY <1>16, <1>18, <2>5, <2>6
  <1>20. ASSUME NEW m \in Node, InPlay(m), m # Root, NEW x \in Base(m) + 1 .. SentTo(m)
         PROVE  mem'[x] = mem[x]
    <2>1. PICK b \in Nat, s \in Nat, k \in Nat :
            b = Base(m) /\ s = SentTo(m) /\ k = NTotal[m] /\ s <= b + k
      BY <1>20, SentFits, Totals
    <2>2. x \in Base(m) + 1 .. Base(m) + NTotal[m]  BY <1>20, <2>1
    <2>3. x \in Cells /\ x \in Nat /\ x > NLines  BY <1>20, <2>2, AllCells
    <2>4. x \notin Own(n)  BY <2>3, AllCells, SizeAssumption
    <2>. QED BY <1>18, <2>3, <2>4
  <1>21. LeafInv'
    <2>1. ASSUME NEW m \in Node, InPlay(m), ~Split(m), ~Unsorted(m)'
          PROVE  /\ node'[m].end_lo = Lines[m] + Lo(m) /\ node'[m].end_hi = Lines[m] + NTotal[m]
                 /\ Prefix(LowOwn(m), Lines[m], Lines[m] + Lo(m))'
                 /\ Prefix(HighOwn(m), Lines[m] + Lo(m), Lines[m] + NTotal[m])'
      <3>1. CASE m = n
        <4>1. Prefix(from + 1 .. mid, from, mid)' /\ Prefix(mid + 1 .. to, mid, to)'
          BY <1>6, <1>15, <1>17, RankedPrefix
        <4>2. Prefix(LowOwn(n), Lines[n], Lines[n] + Lo(n))' <=> Prefix(from + 1 .. mid, from, mid)'
          BY <1>4, <1>5 DEF Prefix, LowOwn
        <4>3. Prefix(HighOwn(n), Lines[n] + Lo(n), Lines[n] + NTotal[n])' <=> Prefix(mid + 1 .. to, mid, to)'
          BY <1>4, <1>5 DEF Prefix, HighOwn
        <4>. QED BY <1>4, <1>5, <1>7, <3>1, <4>1, <4>2, <4>3
      <3>2. CASE m # n
        <4>1. ~Unsorted(m)  BY <1>10, <2>1, <3>2
        <4>2. /\ node[m].end_lo = Lines[m] + Lo(m) /\ node[m].end_hi = Lines[m] + NTotal[m]
              /\ Prefix(LowOwn(m), Lines[m], Lines[m] + Lo(m))
              /\ Prefix(HighOwn(m), Lines[m] + Lo(m), Lines[m] + NTotal[m])
          BY <2>1, <4>1 DEF LeafInv
        <4>3. PICK l \in Int, c \in Int, h \in Int :
                l = Lines[m] /\ c = Lines[m] + Lo(m) /\ h = Lines[m] + NTotal[m] /\ l <= c /\ c <= h
          BY Totals
        <4>4. \A x \in l + 1 .. h : mem'[x] = mem[x]  BY <1>19, <2>1, <3>2, <4>3 DEF Own
        <4>5. PICK L, H : L = LowOwn(m) /\ H = HighOwn(m)  OBVIOUS
        <4>6. Prefix(L, l, c)'  BY <1>6, <4>2, <4>3, <4>4, <4>5, PrefixKept
        <4>7. Prefix(H, c, h)'  BY <1>6, <4>2, <4>3, <4>4, <4>5, PrefixKept
        <4>8. Prefix(LowOwn(m), Lines[m], Lines[m] + Lo(m))'  BY <4>3, <4>5, <4>6 DEF LowOwn, Prefix
        <4>9. Prefix(HighOwn(m), Lines[m] + Lo(m), Lines[m] + NTotal[m])'
          BY <4>3, <4>5, <4>7 DEF HighOwn, Prefix
        <4>. QED BY <1>7, <3>2, <4>2, <4>8, <4>9
      <3>. QED BY <3>1, <3>2
    <2>. QED BY <1>11, <2>1 DEF LeafInv
  <1>22. \A m \in Node : InPlay(m) /\ ~Split(m) /\ ~Unsorted(m) => \A x \in Own(m) : mem'[x] = mem[x]
    BY <1>2, <1>19
  <1>. QED BY <1>6, <1>13, <1>20, <1>21, <1>22, OrderKept

-----------------------------------------------------------------------------
(* The next line on one side: those of the side that come before it are     *)
(* the ones that have been taken.                                           *)
LEMMA NextOnSide ==
  ASSUME CaseInv, NEW S \in SUBSET (1 .. NLines), NEW from \in Nat, NEW x \in Nat, NEW to \in Int,
         from <= x, x < to, Prefix(S, from, to)
  PROVE  /\ mem[x + 1] \in S /\ mem[x + 1] \notin Held(from, x)
         /\ \A j \in S : Before(j, mem[x + 1]) <=> j \in Held(from, x)
         /\ Held(from, x) \subseteq S
  <1>1. x + 1 \in from + 1 .. to /\ x + 1 - 1 = x  OBVIOUS
  <1>2. PICK i : i = mem[x + 1]  OBVIOUS
  <1>3. i \in S /\ \A j \in S : Before(j, i) <=> \E y \in from + 1 .. x : mem[y] = j
    BY <1>1, <1>2 DEF Prefix
  <1>4. \A j \in S : Before(j, i) <=> j \in Held(from, x)  BY <1>3 DEF Held
  <1>5. ~Before(i, i)  BY <1>3, BeforeOrder
  <1>6. \A y \in from + 1 .. x : y \in from + 1 .. to  OBVIOUS
  <1>7. Held(from, x) \subseteq S  BY <1>6 DEF Held, Prefix
  <1>. QED BY <1>2, <1>3, <1>4, <1>5, <1>7

(* A line may be taken from a side that has one, if it is the first of two  *)
(* or nothing is left on the other side.                                    *)
MayTake(n, side) ==
  /\ side = "lo" => node[n].lo # node[n].end_lo
  /\ side = "hi" => node[n].hi # node[n].end_hi
  /\ \/ BothAvailable(n) /\ (side = "lo" <=> GoesFirst(mem[node[n].lo + 1], mem[node[n].hi + 1]))
     \/ side = "lo" /\ LeftHi(n) = 0
     \/ side = "hi" /\ LeftLo(n) = 0
Line(n, side) == IF side = "lo" THEN mem[node[n].lo + 1] ELSE mem[node[n].hi + 1]

(* What has been taken of a node is all that comes before line i of it.     *)
Following(i, n) ==
  /\ i \in Own(n) /\ i \notin Gone(n) /\ Gone(n) \subseteq Own(n)
  /\ \A j \in Own(n) : Before(j, i) <=> j \in Gone(n)

(* So it is of the line that may be taken.                                  *)
LEMMA NextLine ==
  ASSUME SortInv, OrderInv, NEW n \in Node, InPlay(n), ~Unsorted(n),
         NEW side \in {"lo", "hi"}, MayTake(n, side)
  PROVE  Following(Line(n, side), n)
  <1>. USE DEF OrderInv
  <1>1. PICK fl \in Nat, fh \in Nat, x \in Nat, y \in Nat, el \in Int, eh \in Int :
          /\ fl = FromLo(n) /\ fh = FromHi(n) /\ x = ToLo(n) /\ y = ToHi(n)
          /\ el = node[n].end_lo /\ eh = node[n].end_hi /\ x = node[n].lo /\ y = node[n].hi
          /\ x <= el /\ y <= eh
    BY Sources
  <1>2. Prefix(LowOwn(n), fl, el) /\ Prefix(HighOwn(n), fh, eh)  BY <1>1, Sources
  <1>3. PICK l \in Nat, lo \in Nat, hi \in Nat, a \in Nat, b \in Nat :
          /\ l = Lines[n] /\ lo = Lo(n) /\ hi = Hi(n) /\ NTotal[n] = lo + hi
          /\ a = LeftLo(n) /\ b = LeftHi(n) /\ a <= lo /\ b <= hi
    BY Totals DEF SortInv, CountInv
  <1>4. x = fl + lo - a /\ y = fh + hi - b  BY <1>1, <1>3 DEF ToLo, ToHi
  <1>5. fl <= x /\ fh <= y  BY <1>3, <1>4
  <1>6. /\ LowOwn(n) \in SUBSET (1 .. NLines) /\ HighOwn(n) \in SUBSET (1 .. NLines)
        /\ Own(n) = LowOwn(n) \cup HighOwn(n) /\ LowOwn(n) \cap HighOwn(n) = {}
        /\ \A i \in LowOwn(n), j \in HighOwn(n) : i < j
    BY OwnSides
  <1>7. Gone(n) = Held(fl, x) \cup Held(fh, y)  BY <1>1 DEF Gone
  <1>8. Gone(n) \subseteq Own(n) /\ \A i \in Gone(n), j \in Own(n) \ Gone(n) : Before(i, j)
    BY DEF CutInv
  <1>9. Held(fl, x) \subseteq LowOwn(n) /\ Held(fh, y) \subseteq HighOwn(n)
    <2>1. \A z \in fl + 1 .. x : z \in fl + 1 .. el  BY <1>1
    <2>2. \A z \in fh + 1 .. y : z \in fh + 1 .. eh  BY <1>1
    <2>. QED BY <1>2, <2>1, <2>2 DEF Held, Prefix
  <1>10. ASSUME x # el
         PROVE  /\ mem[x + 1] \in LowOwn(n) /\ mem[x + 1] \notin Held(fl, x)
                /\ \A j \in LowOwn(n) : Before(j, mem[x + 1]) <=> j \in Held(fl, x)
    <2>1. x < el  BY <1>1, <1>10
    <2>. QED BY <1>2, <1>5, <1>6, <2>1, NextOnSide
  <1>11. ASSUME y # eh
         PROVE  /\ mem[y + 1] \in HighOwn(n) /\ mem[y + 1] \notin Held(fh, y)
                /\ \A j \in HighOwn(n) : Before(j, mem[y + 1]) <=> j \in Held(fh, y)
    <2>1. y < eh  BY <1>1, <1>11
    <2>. QED BY <1>2, <1>5, <1>6, <2>1, NextOnSide
  <1>12. l + (lo + hi) <= NLines /\ l + lo + hi <= NLines /\ l + lo <= NLines
    BY <1>3, LinesFit, SizeAssumption
  <1>13. ASSUME LeftHi(n) = 0  PROVE \A j \in HighOwn(n) : j \in Held(fh, y)
    <2>1. y = fh + hi  BY <1>3, <1>4, <1>13
    <2>2. Prefix(HighOwn(n), fh, y)  BY <1>1, <1>2, PrefixShorter
    <2>3. PICK m \in Nat : m = l + lo  OBVIOUS
    <2>4. m + hi = l + (lo + hi) /\ m + hi <= NLines  BY <1>12, <2>3
    <2>6. HighOwn(n) = m + 1 .. m + hi  BY <1>3, <2>3, <2>4 DEF HighOwn
    <2>7. Prefix(m + 1 .. m + hi, fh, fh + hi)  BY <2>1, <2>2, <2>6
    <2>8. ASSUME NEW j \in m + 1 .. m + hi  PROVE \E z \in fh + 1 .. fh + hi : mem[z] = j
      BY <2>4, <2>7, PrefixFull
    <2>. QED BY <2>1, <2>6, <2>8 DEF Held
  <1>14. ASSUME LeftLo(n) = 0  PROVE \A j \in LowOwn(n) : j \in Held(fl, x)
    <2>1. x = fl + lo  BY <1>3, <1>4, <1>14
    <2>2. Prefix(LowOwn(n), fl, x)  BY <1>1, <1>2, PrefixShorter
    <2>3. LowOwn(n) = l + 1 .. l + lo  BY <1>3 DEF LowOwn
    <2>4. Prefix(l + 1 .. l + lo, fl, fl + lo)  BY <2>1, <2>2, <2>3
    <2>5. ASSUME NEW j \in l + 1 .. l + lo  PROVE \E z \in fl + 1 .. fl + lo : mem[z] = j
      BY <1>12, <2>4, PrefixFull
    <2>. QED BY <2>1, <2>3, <2>5 DEF Held
  <1>15. PICK p, q : p = mem[x + 1] /\ q = mem[y + 1]  OBVIOUS
  <1>16. CASE side = "lo"
    <2>1. x # el  BY <1>1, <1>16 DEF MayTake
    <2>2. Line(n, side) = p  BY <1>1, <1>15, <1>16 DEF Line
    <2>3. p \in LowOwn(n) /\ p \notin Gone(n)  BY <1>6, <1>7, <1>9, <1>10, <1>15, <2>1
    <2>4. ASSUME NEW j \in Own(n), Before(j, p), j \notin Gone(n)  PROVE FALSE
      <3>1. j \notin LowOwn(n)  BY <1>7, <1>10, <1>15, <2>1, <2>4
      <3>2. j \in HighOwn(n) /\ j \notin Held(fh, y)  BY <1>6, <1>7, <2>4, <3>1
      <3>3. LeftHi(n) # 0  BY <1>13, <3>2
      <3>4. y # eh /\ GoesFirst(p, q)
        BY <1>1, <1>15, <1>16, <3>3 DEF MayTake, BothAvailable
      <3>5. q \in HighOwn(n) /\ ~Before(j, q)  BY <1>11, <1>15, <3>2, <3>4
      <3>6. p < q /\ input[p] \in Nat /\ input[q] \in Nat  BY <1>6, <2>3, <3>5 DEF CaseInv
      <3>7. Before(p, q)  BY <3>4, <3>6 DEF Before, GoesFirst
      <3>8. p \in 1 .. NLines /\ q \in 1 .. NLines /\ j \in 1 .. NLines  BY <1>6, <2>3, <3>2, <3>5
      <3>9. Before(j, q)  BY <2>4, <3>7, <3>8, BeforeOrder
      <3>. QED BY <3>5, <3>9
    <2>. QED BY <1>6, <1>8, <2>2, <2>3, <2>4 DEF Following
  <1>17. CASE side = "hi"
    <2>1. y # eh  BY <1>1, <1>17 DEF MayTake
    <2>2. Line(n, side) = q  BY <1>1, <1>15, <1>17 DEF Line
    <2>3. q \in HighOwn(n) /\ q \notin Gone(n)  BY <1>6, <1>7, <1>9, <1>11, <1>15, <2>1
    <2>4. ASSUME NEW j \in Own(n), Before(j, q), j \notin Gone(n)  PROVE FALSE
      <3>1. j \notin HighOwn(n)  BY <1>7, <1>11, <1>15, <2>1, <2>4
      <3>2. j \in LowOwn(n) /\ j \notin Held(fl, x)  BY <1>6, <1>7, <2>4, <3>1
      <3>3. LeftLo(n) # 0  BY <1>14, <3>2
      <3>4. x # el /\ ~GoesFirst(p, q)
        BY <1>1, <1>15, <1>17, <3>3 DEF MayTake, BothAvailable
      <3>5. p \in LowOwn(n) /\ ~Before(j, p)  BY <1>10, <1>15, <3>2, <3>4
      <3>6. input[p] \in Nat /\ input[q] \in Nat  BY <1>6, <2>3, <3>5 DEF CaseInv
      <3>7. Before(q, p)  BY <3>4, <3>6 DEF Before, GoesFirst
      <3>8. p \in 1 .. NLines /\ q \in 1 .. NLines /\ j \in 1 .. NLines  BY <1>6, <2>3, <3>2, <3>5
      <3>9. Before(j, p)  BY <2>4, <3>7, <3>8, BeforeOrder
      <3>. QED BY <3>5, <3>9
    <2>. QED BY <1>6, <1>8, <2>2, <2>3, <2>4 DEF Following
  <1>. QED BY <1>16, <1>17

-----------------------------------------------------------------------------
(* What the root does with a line: it is written, or is not wanted.         *)
Put(i) ==
  out' = IF unique /\ out # <<>> /\ input[out[Len(out)]] = input[i] THEN out ELSE Append(out, i)

(* The line that follows what has been taken of the root is the one that a  *)
(* stable sort writes next; it is left out if the same key has been written.*)
LEMMA PutNext ==
  ASSUME OrderInv, NEW i, Following(i, Root), UNCHANGED config, Put(i)
  PROVE  \/ out' = out /\ ~Wanted(i)
         \/ out' = Append(out, i) /\ Wanted(i) /\ Sort!Next1(i) /\ i \in DOMAIN input
  <1>. USE DEF OrderInv
  <1>1. Own(Root) = 1 .. NLines
    <2>1. Root \in 1 .. Bound  BY NodeFacts
    <2>2. Lines[Root] = 0 /\ NTotal[Root] = NLines  BY <2>1, LinesDef, NTotalDef
    <2>3. 0 + 1 = 1 /\ 0 + NLines = NLines  BY SizeAssumption
    <2>. QED BY <2>2, <2>3 DEF Own
  <1>2. /\ i \in 1 .. NLines /\ i \notin Gone(Root) /\ Gone(Root) \subseteq 1 .. NLines
        /\ \A j \in 1 .. NLines : Before(j, i) <=> j \in Gone(Root)
    BY <1>1 DEF Following
  <1>3. \A j \in 1 .. NLines : input[j] \in Nat /\ j \in Nat  BY SizeAssumption DEF CaseInv
  <1>4. out \in Seq(Nat) /\ Len(out) \in Nat /\ DOMAIN out = 1 .. Len(out)  BY DEF OutInv
  <1>5. { out[k] : k \in DOMAIN out } = { j \in Gone(Root) : Wanted(j) }  BY DEF OutInv
  <1>6. \A k \in DOMAIN out : out[k] \in Gone(Root) /\ Before(out[k], i)
    BY <1>2, <1>5
  <1>7. out # <<>> => Len(out) \in DOMAIN out  BY <1>4
  <1>8. CASE unique /\ out # <<>> /\ input[out[Len(out)]] = input[i]
    <2>1. PICK z \in 1 .. NLines : z = out[Len(out)] /\ Before(z, i)
      BY <1>2, <1>6, <1>7, <1>8
    <2>2. z < i /\ input[z] = input[i]  BY <1>2, <1>3, <1>8, <2>1 DEF Before
    <2>3. ~Wanted(i)  BY <1>8, <2>1, <2>2 DEF Wanted
    <2>. QED BY <1>8, <2>3 DEF Put
  <1>9. CASE ~(unique /\ out # <<>> /\ input[out[Len(out)]] = input[i])
    <2>1. ASSUME unique, NEW j \in 1 .. NLines, j < i, input[j] = input[i]  PROVE FALSE
      <3>. DEFINE B == { c \in 1 .. NLines : input[c] = input[i] }
      <3>1. B \in SUBSET Nat /\ j \in B  BY <1>3, <2>1
      <3>. HIDE DEF B
      <3>2. PICK c \in B : \A d \in B : c <= d  BY <3>1, LeastNumber
      <3>. USE DEF B
      <3>3. c \in 1 .. NLines /\ input[c] = input[i] /\ c <= j  BY <3>1, <3>2
      <3>4. c < i  BY <1>2, <1>3, <2>1, <3>3
      <3>5. Before(c, i)  BY <1>2, <1>3, <3>3, <3>4 DEF Before
      <3>6. Wanted(c)
        <4>1. ASSUME NEW d \in 1 .. NLines, d < c, input[d] = input[c]  PROVE FALSE
          <5>1. d \in B  BY <3>3, <4>1
          <5>2. c <= d  BY <3>2, <5>1
          <5>. QED BY <1>3, <3>3, <4>1, <5>2
        <4>. QED BY <4>1 DEF Wanted
      <3>7. PICK k \in DOMAIN out : out[k] = c  BY <1>2, <1>5, <3>3, <3>5, <3>6
      <3>8. out # <<>>  BY <3>7
      <3>9. PICK z \in 1 .. NLines : z = out[Len(out)] /\ Before(z, i) /\ (c = z \/ Before(c, z))
        BY <1>2, <1>6, <1>7, <3>7, <3>8 DEF OutInv
      <3>10. PICK u \in Nat, v \in Nat : u = input[i] /\ v = input[z]  BY <1>2, <1>3
      <3>11. v <= u /\ u <= v  BY <1>3, <3>3, <3>9, <3>10 DEF Before
      <3>12. input[z] = input[i]  BY <3>10, <3>11
      <3>. QED BY <1>9, <2>1, <3>8, <3>9, <3>12
    <2>2. Wanted(i)  BY <2>1 DEF Wanted
    <2>3. DOMAIN input = 1 .. NLines  BY DEF CaseInv
    <2>4. \A k \in DOMAIN out : out[k] # i  BY <1>2, <1>6
    <2>5. ASSUME NEW j \in 1 .. NLines, Before(j, i)
          PROVE  \/ \E k \in DOMAIN out : out[k] = j
                 \/ unique /\ \E d \in 1 .. NLines : d < j /\ input[d] = input[j]
      <3>1. j \in Gone(Root)  BY <1>2, <2>5
      <3>2. CASE Wanted(j)  BY <1>5, <3>1, <3>2
      <3>3. CASE ~Wanted(j)  BY <3>3 DEF Wanted
      <3>. QED BY <3>2, <3>3
    <2>6. Sort!Next1(i)
      <3>1. \A j : Sort!Before(j, i) <=> Before(j, i)  BY DEF Sort!Before, Before
      <3>. QED BY <1>2, <2>2, <2>3, <2>4, <2>5, <3>1 DEF Sort!Next1, Wanted
    <2>. QED BY <1>2, <1>9, <2>2, <2>3, <2>6 DEF Put
  <1>. QED BY <1>8, <1>9

(* What is out is in order after that.                                      *)
LEMMA PutOrder ==
  ASSUME OrderInv, NEW i, Following(i, Root), UNCHANGED config, Put(i),
         Gone(Root)' = Gone(Root) \cup {i}
  PROVE  OutInv'
  <1>. USE DEF OrderInv
  <1>1. \A j : Wanted(j)' <=> Wanted(j)  BY DEF Wanted, config
  <1>2. \A j, k : Before(j, k)' <=> Before(j, k)  BY BeforeKept DEF config
  <1>3. out \in Seq(Nat) /\ DOMAIN out = 1 .. Len(out) /\ Len(out) \in Nat  BY DEF OutInv
  <1>4. { out[k] : k \in DOMAIN out } = { j \in Gone(Root) : Wanted(j) }  BY DEF OutInv
  <1>5. { j \in Gone(Root) : Wanted(j) }' = { j \in Gone(Root) : Wanted(j) } \cup { j \in {i} : Wanted(j) }
    BY <1>1
  <1>6. CASE out' = out /\ ~Wanted(i)
    <2>1. \A k \in DOMAIN out : out[k] = out[Len(out)] \/ Before(out[k], out[Len(out)])'
      BY <1>2, <1>6 DEF OutInv
    <2>2. { out[k] : k \in DOMAIN out }' = { j \in Gone(Root) : Wanted(j) }'
      BY <1>4, <1>5, <1>6
    <2>. QED BY <1>3, <1>6, <2>1, <2>2 DEF OutInv
  <1>7. CASE out' = Append(out, i) /\ Wanted(i)
    <2>1. i \in Nat /\ i \in Own(Root) /\ i \notin Gone(Root)
      <3>1. i \in Own(Root) /\ i \notin Gone(Root)  BY DEF Following
      <3>2. i \in 1 .. NLines  BY <3>1, OwnSides, NodeFacts
      <3>. QED BY <3>1, <3>2, SizeAssumption
    <2>2. PICK len \in Nat : len = Len(out)  BY <1>3
    <2>3. out' \in Seq(Nat) /\ Len(out') = len + 1 /\ DOMAIN out' = 1 .. len + 1
      BY <1>3, <1>7, <2>1, <2>2
    <2>4. out'[len + 1] = i /\ \A k \in 1 .. len : out'[k] = out[k]
      BY <1>3, <1>7, <2>1, <2>2
    <2>5. 1 .. len + 1 = (1 .. len) \cup {len + 1}  BY <2>2
    <2>6. { out'[k] : k \in DOMAIN out' } = { out[k] : k \in DOMAIN out } \cup {i}
      BY <1>3, <2>2, <2>3, <2>4, <2>5
    <2>7. ASSUME NEW k \in DOMAIN out'  PROVE out'[k] = i \/ Before(out'[k], i)
      <3>1. CASE k = len + 1  BY <2>4, <3>1
      <3>2. CASE k # len + 1
        <4>1. k \in 1 .. len /\ k \in DOMAIN out /\ out'[k] = out[k]  BY <1>3, <2>2, <2>3, <2>4, <2>5, <3>2
        <4>2. out[k] \in Gone(Root)  BY <1>4, <4>1
        <4>3. Before(out[k], i)  BY <2>1, <4>2 DEF Following
        <4>. QED BY <4>1, <4>3
      <3>. QED BY <3>1, <3>2
    <2>8. \A k \in DOMAIN out' : out'[k] = i \/ (Before(out[k], i))'
      BY <1>2, <2>7
    <2>. QED BY <1>4, <1>5, <1>7, <2>3, <2>4, <2>6, <2>8 DEF OutInv
  <1>. QED BY <1>6, <1>7, PutNext

-----------------------------------------------------------------------------
(* What a node has taken when it has read one line more.                     *)
Reads(n, dl, dh) ==
  Gone(n)' = Gone(n) \cup (IF dl = 1 THEN {mem[node[n].lo + 1]} ELSE {})
                     \cup (IF dh = 1 THEN {mem[node[n].hi + 1]} ELSE {})

(* A node that goes on by one line has taken that line.                     *)
LEMMA GoneGrows ==
  ASSUME SortInv, OrderInv, UNCHANGED <<config, joins>>, NEW n \in Node, InPlay(n), ~Unsorted(n),
         NEW dl \in {0, 1}, NEW dh \in {0, 1},
         LeftLo(n)' = LeftLo(n) - dl, LeftHi(n)' = LeftHi(n) - dh,
         dl = 1 => node[n].lo # node[n].end_lo, dh = 1 => node[n].hi # node[n].end_hi,
         \A m \in Node : InPlay(m) /\ m # Root =>
           \A x \in Base(m) + 1 .. SentTo(m) : mem'[x] = mem[x],
         \A x \in Own(n) : mem'[x] = mem[x]
  PROVE  Reads(n, dl, dh)
  <1>. USE DEF OrderInv
  <1>1. PICK fl \in Nat, fh \in Nat, x \in Nat, y \in Nat, el \in Int, eh \in Int :
          /\ fl = FromLo(n) /\ fh = FromHi(n) /\ x = ToLo(n) /\ y = ToHi(n)
          /\ el = node[n].end_lo /\ eh = node[n].end_hi /\ x = node[n].lo /\ y = node[n].hi
          /\ x <= el /\ y <= eh
    BY Sources
  <1>2. PICK l \in Nat, lo \in Nat, hi \in Nat, p \in Nat :
          l = Lines[n] /\ lo = Lo(n) /\ hi = Hi(n) /\ lo + hi = NTotal[n] /\ p = Place(n)
    BY Totals
  <1>3. PICK a \in Nat, b \in Nat : a = LeftLo(n) /\ b = LeftHi(n) /\ a <= lo /\ b <= hi
    BY <1>2 DEF SortInv, CountInv
  <1>4. x = fl + lo - a /\ y = fh + hi - b /\ fh = fl + lo  BY <1>1, <1>2, <1>3 DEF ToLo, ToHi, FromHi
  <1>5. Split(n)' <=> Split(n)  BY DEF Split
  <1>6. FromLo(n)' = fl /\ FromHi(n)' = fh /\ ToLo(n)' = x + dl /\ ToHi(n)' = y + dh
    <2>1. FromLo(n)' = fl  BY <1>1, <1>5 DEF FromLo
    <2>2. FromHi(n)' = fh  BY <1>1, <1>5 DEF FromHi, FromLo
    <2>3. ToLo(n)' = fl + lo - (a - dl)  BY <1>2, <1>3, <2>1 DEF ToLo
    <2>4. ToHi(n)' = fh + hi - (b - dh)  BY <1>2, <1>3, <2>2 DEF ToHi
    <2>. QED BY <1>4, <2>1, <2>2, <2>3, <2>4
  <1>7. x + dl <= el /\ y + dh <= eh  BY <1>1
  <1>8. fl <= x /\ fh <= y  BY <1>3, <1>4
  <1>9. /\ \A z \in fl + 1 .. el : mem'[z] = mem[z]
        /\ \A z \in fh + 1 .. eh : mem'[z] = mem[z]
    <2>1. CASE Split(n)
      <3>1. Threads[n] > 1  BY <2>1, NodeFacts DEF SortInv, TreeInv, Splits
      <3>2. PICK c \in Node, d \in Node :
              c = 2 * n /\ d = 2 * n + 1 /\ InPlay(c) /\ InPlay(d) /\ c # Root /\ d # Root
        BY <2>1, <3>1, Children, InPlayFacts DEF SortInv
      <3>3. Base(c) = p /\ Base(d) = p + lo  BY <1>2, <3>1, <3>2, OwnOfChild
      <3>4. PICK s \in Int, u \in Int : s = SentTo(c) /\ u = SentTo(d) /\ el <= s /\ eh <= u
        BY <1>1, <2>1, <3>2, Sources
      <3>5. fl = p /\ fh = p + lo  BY <1>1, <1>2, <1>4, <2>1 DEF FromLo
      <3>6. \A z \in fl + 1 .. s : mem'[z] = mem[z]  BY <3>2, <3>3, <3>4, <3>5
      <3>7. \A z \in fh + 1 .. u : mem'[z] = mem[z]  BY <3>2, <3>3, <3>4, <3>5
      <3>. QED BY <3>4, <3>6, <3>7
    <2>2. CASE ~Split(n)
      <3>1. el = l + lo /\ eh = l + (lo + hi)  BY <1>1, <1>2, <2>2 DEF LeafInv
      <3>2. fl = l /\ fh = l + lo  BY <1>1, <1>2, <1>4, <2>2 DEF FromLo
      <3>3. \A z \in l + 1 .. l + (lo + hi) : mem'[z] = mem[z]  BY <1>2 DEF Own
      <3>. QED BY <3>1, <3>2, <3>3
    <2>. QED BY <2>1, <2>2
  <1>10. Held(fl, x + dl)' = Held(fl, x) \cup (IF dl = 1 THEN {mem[node[n].lo + 1]} ELSE {})
    <2>1. Held(fl, x + dl)' = { mem[z] : z \in fl + 1 .. x + dl }
      <3>1. \A z \in fl + 1 .. x + dl : z \in fl + 1 .. el  BY <1>1, <1>7
      <3>. QED BY <1>9, <3>1 DEF Held
    <2>2. CASE dl = 0
      <3>1. x + dl = x  BY <1>1, <2>2
      <3>2. (IF dl = 1 THEN {mem[node[n].lo + 1]} ELSE {}) = {}  BY <2>2
      <3>3. { mem[z] : z \in fl + 1 .. x + dl } = { mem[z] : z \in fl + 1 .. x }  BY <3>1
      <3>4. Held(fl, x) = { mem[z] : z \in fl + 1 .. x }  BY DEF Held
      <3>. QED BY <2>1, <3>2, <3>3, <3>4
    <2>3. CASE dl = 1
      <3>1. fl + 1 .. x + dl = (fl + 1 .. x) \cup {x + 1}  BY <1>8, <2>3
      <3>2. { mem[z] : z \in fl + 1 .. x + dl } = { mem[z] : z \in fl + 1 .. x } \cup {mem[x + 1]}
        BY <3>1
      <3>3. (IF dl = 1 THEN {mem[node[n].lo + 1]} ELSE {}) = {mem[x + 1]}  BY <1>1, <2>3
      <3>. QED BY <2>1, <3>2, <3>3 DEF Held
    <2>. QED BY <2>2, <2>3
  <1>11. Held(fh, y + dh)' = Held(fh, y) \cup (IF dh = 1 THEN {mem[node[n].hi + 1]} ELSE {})
    <2>1. Held(fh, y + dh)' = { mem[z] : z \in fh + 1 .. y + dh }
      <3>1. \A z \in fh + 1 .. y + dh : z \in fh + 1 .. eh  BY <1>1, <1>7
      <3>. QED BY <1>9, <3>1 DEF Held
    <2>2. CASE dh = 0
      <3>1. y + dh = y  BY <1>1, <2>2
      <3>2. (IF dh = 1 THEN {mem[node[n].hi + 1]} ELSE {}) = {}  BY <2>2
      <3>3. { mem[z] : z \in fh + 1 .. y + dh } = { mem[z] : z \in fh + 1 .. y }  BY <3>1
      <3>4. Held(fh, y) = { mem[z] : z \in fh + 1 .. y }  BY DEF Held
      <3>. QED BY <2>1, <3>2, <3>3, <3>4
    <2>3. CASE dh = 1
      <3>1. fh + 1 .. y + dh = (fh + 1 .. y) \cup {y + 1}  BY <1>8, <2>3
      <3>2. { mem[z] : z \in fh + 1 .. y + dh } = { mem[z] : z \in fh + 1 .. y } \cup {mem[y + 1]}
        BY <3>1
      <3>3. (IF dh = 1 THEN {mem[node[n].hi + 1]} ELSE {}) = {mem[y + 1]}  BY <1>1, <2>3
      <3>. QED BY <2>1, <3>2, <3>3 DEF Held
    <2>. QED BY <2>2, <2>3
  <1>12. Gone(n) = Held(fl, x) \cup Held(fh, y)  BY <1>1 DEF Gone
  <1>13. Gone(n)' = Held(fl, x + dl)' \cup Held(fh, y + dh)'  BY <1>6 DEF Gone, Held
  <1>. QED BY <1>10, <1>11, <1>12, <1>13 DEF Reads

(* One line is merged: the next one of its node.                            *)
LEMMA MoveOrder ==
  ASSUME SortInv, SortInv', OrderInv, NEW t \in Thread, NEW side \in {"lo", "hi"},
         Move(t, side), Merging(t), reg[t].to_merge > 0, MayTake(at[t], side)
  PROVE  OrderInv'
  <1>. USE DEF SortInv, OrderInv
  <1>1. PICK n \in Node : n = at[t] /\ InPlay(n) /\ ~Unsorted(n) /\ lock[n] = t /\ Busy(n)
    BY MergingFacts
  <1>2. PICK dl \in {0, 1}, dh \in {0, 1} :
          /\ dl + dh = 1 /\ (dl = 1 <=> side = "lo") /\ (dh = 1 <=> side = "hi")
    OBVIOUS
  <1>3. Merged(t, n, dl, dh)  BY <1>1, <1>2, MergedNodes
  <1>4. UNCHANGED <<config, lock, pc, at, joins>>  BY DEF Move
  <1>5. \A m : (InPlay(m)' <=> InPlay(m)) /\ (Split(m)' <=> Split(m)) /\ (Unsorted(m)' <=> Unsorted(m))
    BY <1>4 DEF InPlay, Split, Unsorted, Sorting
  <1>6. PICK i : i = Line(n, side)  OBVIOUS
  <1>7. Following(i, n)  BY <1>1, <1>6, NextLine
  <1>8. \A j, k : Before(j, k)' <=> Before(j, k)  BY <1>4, BeforeKept
  <1>9. CaseInv'  BY <1>4 DEF CaseInv, config
  <1>10. \/ n = Root /\ mem' = mem /\ Put(i)
         \/ n # Root /\ mem' = [mem EXCEPT ![reg[t].dest + 1] = i] /\ out' = out
    BY <1>1, <1>6 DEF Move, Line, Put
  <1>11. ASSUME n # Root
         PROVE  /\ reg[t].dest = SentTo(n) /\ SentTo(n) + 1 \in Base(n) + 1 .. Base(n) + NTotal[n]
                /\ SentTo(n)' = SentTo(n) + 1
    <2>1. PICK b \in Nat, s \in Nat, l \in Nat, k \in Nat :
            /\ b = Base(n) /\ s = SentTo(n) /\ l = Left(n) /\ k = NTotal[n] /\ l <= k
            /\ b <= s /\ s = b + k - l
      BY <1>11, SentFits, Totals
    <2>2. Sent(n) = b + k - l /\ Sent(n) = reg[t].dest
      BY <1>1, <1>11, <2>1 DEF CountInv, Sent
    <2>3. PICK a \in Nat, c \in Nat : a = LeftLo(n) /\ c = LeftHi(n) /\ l = a + c
      BY <2>1, Totals DEF CountInv, Left
    <2>4. PICK a2 \in Nat, c2 \in Nat : a2 = LeftLo(n)' /\ c2 = LeftHi(n)'
      <3>1. Lo(n) \in Nat /\ Hi(n) \in Nat  BY Totals
      <3>2. LeftLo(n)' \in 0 .. Lo(n) /\ LeftHi(n)' \in 0 .. Hi(n)  BY DEF CountInv
      <3>. QED BY <3>1, <3>2
    <2>5. a2 = a - dl /\ c2 = c - dh  BY <1>3, <2>3, <2>4 DEF Merged
    <2>6. l >= 1 /\ a2 + c2 = l - 1  BY <1>2, <2>3, <2>4, <2>5
    <2>7. SentTo(n)' = b + k - (a2 + c2)  BY <2>1, <2>4 DEF SentTo, Left, Base
    <2>8. SentTo(n)' = s + 1  BY <2>1, <2>6, <2>7
    <2>9. s + 1 \in b + 1 .. b + k  BY <2>1, <2>6
    <2>. QED BY <2>1, <2>2, <2>8, <2>9
  <1>12. ASSUME NEW m \in Node, InPlay(m), m # Root, NEW x \in Base(m) + 1 .. SentTo(m)
         PROVE  mem'[x] = mem[x]
    <2>1. CASE n = Root  BY <1>10, <2>1
    <2>2. CASE n # Root
      <3>1. PICK b \in Nat, s \in Nat, k \in Nat :
              b = Base(m) /\ s = SentTo(m) /\ k = NTotal[m] /\ s <= b + k
        BY <1>12, SentFits, Totals
      <3>2. PICK v \in Nat : v = SentTo(n)  BY <2>2, SentFits
      <3>3. x # v + 1
        <4>1. CASE m = n  BY <3>1, <3>2, <4>1
        <4>2. CASE m # n
          <5>1. v + 1 \notin Base(m) + 1 .. Base(m) + NTotal[m]
            BY <1>11, <1>12, <2>2, <3>2, <4>2, RegionsApart
          <5>. QED BY <3>1, <5>1
        <4>. QED BY <4>1, <4>2
      <3>4. x \in Cells
        <4>1. x \in Base(m) + 1 .. Base(m) + NTotal[m]  BY <3>1
        <4>. QED BY <1>12, <4>1, AllCells
      <3>5. mem = [c \in Cells |-> mem[c]]  BY DEF TypeInv
      <3>6. mem' = [mem EXCEPT ![v + 1] = i]  BY <1>10, <1>11, <2>2, <3>2
      <3>. QED BY <3>3, <3>4, <3>5, <3>6
    <2>. QED BY <2>1, <2>2
  <1>13. ASSUME NEW m \in Node, NEW x \in Own(m)  PROVE mem'[x] = mem[x]
    <2>1. CASE n = Root  BY <1>10, <2>1
    <2>2. CASE n # Root
      <3>1. x \in Cells /\ x \in 1 .. NLines  BY AllCells
      <3>2. PICK v \in Nat : v = SentTo(n)  BY <2>2, SentFits
      <3>3. v + 1 > NLines  BY <1>11, <2>2, <3>2, AllCells
      <3>4. x # v + 1  BY <3>1, <3>3, SizeAssumption
      <3>5. mem = [c \in Cells |-> mem[c]]  BY DEF TypeInv
      <3>6. mem' = [mem EXCEPT ![v + 1] = i]  BY <1>10, <1>11, <2>2, <3>2
      <3>. QED BY <3>1, <3>4, <3>5, <3>6
    <2>. QED BY <2>1, <2>2
  <1>14. Gone(n)' = Gone(n) \cup {i}
    <2>1. /\ LeftLo(n)' = LeftLo(n) - dl /\ LeftHi(n)' = LeftHi(n) - dh
      BY <1>3 DEF Merged
    <2>2. /\ dl = 1 => node[n].lo # node[n].end_lo
          /\ dh = 1 => node[n].hi # node[n].end_hi
      BY <1>1, <1>2 DEF MayTake
    <2>3. Reads(n, dl, dh)
      BY <1>1, <1>4, <1>12, <1>13, <2>1, <2>2, GoneGrows
    <2>. QED BY <1>2, <1>6, <2>3 DEF Reads, Line
  <1>15. ASSUME NEW m \in Node, InPlay(m), m # n  PROVE Gone(m)' = Gone(m)
    <2>1. LeftLo(m)' = LeftLo(m) /\ LeftHi(m)' = LeftHi(m)  BY <1>3, <1>15 DEF Merged
    <2>. QED BY <1>4, <1>12, <1>13, <1>15, <2>1, GoneKept
  <1>16. LeafInv'
    <2>1. \A m \in Node : node'[m].end_lo = node[m].end_lo /\ node'[m].end_hi = node[m].end_hi
      BY <1>3 DEF Merged
    <2>. QED BY <1>4, <1>5, <1>13, <2>1, LeafKept
  <1>17. SentInv'
    <2>1. ASSUME NEW m \in Node, InPlay(m), m # Root
          PROVE  Prefix(Own(m), Base(m), SentTo(m))' /\ Held(Base(m), SentTo(m))' = Gone(m)'
      <3>1. PICK b \in Nat, s \in Nat : b = Base(m) /\ s = SentTo(m) /\ b <= s  BY <2>1, SentFits
      <3>2. PICK S : S = Own(m)  OBVIOUS
      <3>3. Prefix(S, b, s) /\ Held(b, s) = Gone(m)  BY <2>1, <3>1, <3>2 DEF SentInv
      <3>4. \A x \in b + 1 .. s : mem'[x] = mem[x]  BY <1>12, <2>1, <3>1
      <3>5. Prefix(S, b, s)' /\ Held(b, s)' = Held(b, s)  BY <1>4, <3>1, <3>3, <3>4, PrefixKept
      <3>6. CASE m # n
        <4>1. LeftLo(m)' = LeftLo(m) /\ LeftHi(m)' = LeftHi(m)  BY <1>3, <3>6 DEF Merged
        <4>2. SentTo(m)' = s  BY <3>1, <4>1 DEF SentTo, Left, Base
        <4>3. Prefix(Own(m), Base(m), SentTo(m))' <=> Prefix(S, b, s)'
          BY <3>1, <3>2, <4>2 DEF Prefix, Own, Base
        <4>4. Held(Base(m), SentTo(m))' = Held(b, s)'  BY <3>1, <4>2 DEF Held, Base
        <4>. QED BY <1>15, <2>1, <3>3, <3>5, <3>6, <4>3, <4>4
      <3>7. CASE m = n
        <4>1. SentTo(m)' = s + 1  BY <1>11, <2>1, <3>1, <3>7
        <4>2. mem'[s + 1] = i
          <5>1. mem' = [mem EXCEPT ![s + 1] = i]  BY <1>10, <1>11, <2>1, <3>1, <3>7
          <5>2. s + 1 \in Cells  BY <1>11, <2>1, <3>1, <3>7, AllCells
          <5>3. mem = [c \in Cells |-> mem[c]]  BY DEF TypeInv
          <5>. QED BY <5>1, <5>2, <5>3
        <4>3. b + 1 .. s + 1 = (b + 1 .. s) \cup {s + 1}  BY <3>1
        <4>4. Held(b, s + 1)' = Gone(m) \cup {i}
          <5>1. { mem'[x] : x \in b + 1 .. s + 1 } = { mem[x] : x \in b + 1 .. s } \cup {i}
            BY <3>4, <4>2, <4>3
          <5>. QED BY <3>3, <5>1 DEF Held
        <4>5. i \in S /\ \A j \in S : Before(j, i) <=> j \in Held(b, s)
          BY <1>7, <3>2, <3>3, <3>7 DEF Following
        <4>6. ASSUME NEW x \in b + 1 .. s + 1
              PROVE  /\ mem'[x] \in S
                     /\ \A j \in S : Before(j, mem[x])' <=> \E y \in b + 1 .. x - 1 : mem'[y] = j
          <5>1. CASE x \in b + 1 .. s  BY <3>5, <5>1 DEF Prefix
          <5>2. CASE x = s + 1
            <6>1. x - 1 = s /\ mem'[x] = i  BY <3>1, <4>2, <5>2
            <6>2. \A j \in S : j \in Held(b, s) <=> \E y \in b + 1 .. s : mem'[y] = j
              BY <3>4 DEF Held
            <6>3. \A j : Before(j, mem[x])' <=> Before(j, i)  BY <1>4, <6>1 DEF Before, config
            <6>. QED BY <4>5, <6>1, <6>2, <6>3
          <5>. QED BY <4>3, <5>1, <5>2
        <4>7. Prefix(S, b, s + 1)'  BY <4>6 DEF Prefix
        <4>8. Prefix(Own(m), Base(m), SentTo(m))' <=> Prefix(S, b, s + 1)'
          BY <3>1, <3>2, <4>1 DEF Prefix, Own, Base
        <4>9. Held(Base(m), SentTo(m))' = Held(b, s + 1)'  BY <3>1, <4>1 DEF Held, Base
        <4>. QED BY <1>14, <3>7, <4>4, <4>7, <4>8, <4>9
      <3>. QED BY <3>6, <3>7
    <2>. QED BY <1>5, <2>1 DEF SentInv
  <1>18. CutInv'
    <2>1. ASSUME NEW m \in Node, InPlay(m), NEW k \in Gone(m)'
          PROVE  k \in Own(m) /\ \A j \in Own(m) \ Gone(m)' : Before(k, j)'
      <3>1. CASE m # n  BY <1>8, <1>15, <2>1, <3>1 DEF CutInv
      <3>2. CASE m = n /\ k \in Gone(n)
        BY <1>1, <1>8, <1>14, <3>2 DEF CutInv
      <3>3. CASE m = n /\ k = i
        <4>1. i \in Own(n) /\ Own(n) \subseteq 1 .. NLines  BY <1>7, OwnSides DEF Following
        <4>2. ASSUME NEW j \in Own(n), j \notin Gone(n)'  PROVE Before(i, j)
          <5>1. j # i /\ ~Before(j, i)  BY <1>7, <1>14, <4>2 DEF Following
          <5>. QED BY <4>1, <5>1, BeforeOrder
        <4>. QED BY <1>8, <3>3, <4>1, <4>2
      <3>. QED BY <1>14, <2>1, <3>1, <3>2, <3>3
    <2>. QED BY <1>5, <2>1 DEF CutInv, Own
  <1>19. OutInv'
    <2>1. CASE n = Root
      <3>1. Put(i) /\ Following(i, Root) /\ Gone(Root)' = Gone(Root) \cup {i}
        BY <1>7, <1>10, <1>14, <2>1
      <3>. QED BY <1>4, <3>1, PutOrder
    <2>2. CASE n # Root
      <3>1. Gone(Root)' = Gone(Root)  BY <1>15, <2>2, NodeFacts DEF InPlay
      <3>2. \A j : Wanted(j)' <=> Wanted(j)  BY <1>4 DEF Wanted, config
      <3>3. out' = out  BY <1>10, <2>2
      <3>4. \A k \in DOMAIN out : out[k] = out[Len(out)] \/ Before(out[k], out[Len(out)])'
        BY <1>8, <3>3 DEF OutInv
      <3>. QED BY <3>1, <3>2, <3>3, <3>4 DEF OutInv
    <2>. QED BY <2>1, <2>2
  <1>. QED BY <1>9, <1>16, <1>17, <1>18, <1>19

-----------------------------------------------------------------------------
(* A thread takes the next line of its node from one side.                  *)
Takes(t, side) ==
  Move(t, side) /\ Merging(t) /\ reg[t].to_merge > 0 /\ MayTake(at[t], side)

(* Whichever loop a thread is in, it takes a line that may be taken.        *)
LEMMA MergesTake ==
  ASSUME SortInv, NEW t \in Thread, MergeBoth(t) \/ MergeRest(t)
  PROVE  \E side \in {"lo", "hi"} : Takes(t, side)
  <1>1. Merging(t) /\ reg[t].to_merge > 0  BY DEF MergeBoth, MergeRest, Merging
  <1>2. PICK n \in Node : n = at[t] /\ lock[n] = t /\ Busy(n)
    BY <1>1, MergingFacts
  <1>3. CASE MergeBoth(t)
    <2>1. BothAvailable(n) /\ node[n].lo # node[n].end_lo /\ node[n].hi # node[n].end_hi
      BY <1>2, <1>3 DEF MergeBoth, BothAvailable
    <2>2. CASE GoesFirst(mem[node[n].lo + 1], mem[node[n].hi + 1])
      <3>1. PICK side \in {"lo", "hi"} : side = "lo"  OBVIOUS
      <3>2. Move(t, side)  BY <1>2, <1>3, <2>2, <3>1 DEF MergeBoth
      <3>3. MayTake(n, side)  BY <2>1, <2>2, <3>1 DEF MayTake
      <3>. QED BY <1>1, <1>2, <3>2, <3>3 DEF Takes
    <2>3. CASE ~GoesFirst(mem[node[n].lo + 1], mem[node[n].hi + 1])
      <3>1. PICK side \in {"lo", "hi"} : side = "hi"  OBVIOUS
      <3>2. Move(t, side)  BY <1>2, <1>3, <2>3, <3>1 DEF MergeBoth
      <3>3. MayTake(n, side)  BY <2>1, <2>3, <3>1 DEF MayTake
      <3>. QED BY <1>1, <1>2, <3>2, <3>3 DEF Takes
    <2>. QED BY <2>2, <2>3
  <1>4. CASE MergeRest(t)
    <2>1. /\ node[n].lo \in Int /\ node[n].hi \in Int /\ node[n].nlo \in Int /\ node[n].nhi \in Int
          /\ reg[t].lo \in Int /\ reg[t].hi \in Int
      BY DEF SortInv, TypeInv, NodeRecord, RegRecord
    <2>2. LeftLo(n) = node[n].nlo - MergedLo(t) /\ LeftHi(n) = node[n].nhi - MergedHi(t)
      BY <1>2 DEF LeftLo, LeftHi, MergedLo, MergedHi
    <2>3. MergedLo(t) \in Int /\ MergedHi(t) \in Int
      BY <1>2, <2>1 DEF MergedLo, MergedHi
    <2>4. CASE RestOfLo(t) /\ Move(t, "lo")
      <3>1. LeftHi(n) = 0 /\ node[n].lo # node[n].end_lo
        BY <1>2, <2>1, <2>2, <2>3, <2>4 DEF RestOfLo
      <3>2. PICK side \in {"lo", "hi"} : side = "lo"  OBVIOUS
      <3>3. Move(t, side) /\ MayTake(n, side)  BY <2>4, <3>1, <3>2 DEF MayTake
      <3>. QED BY <1>1, <1>2, <3>3 DEF Takes
    <2>5. CASE RestOfHi(t) /\ Move(t, "hi")
      <3>1. LeftLo(n) = 0 /\ node[n].hi # node[n].end_hi
        BY <1>2, <2>1, <2>2, <2>3, <2>5 DEF RestOfHi
      <3>2. PICK side \in {"lo", "hi"} : side = "hi"  OBVIOUS
      <3>3. Move(t, side) /\ MayTake(n, side)  BY <2>5, <3>1, <3>2 DEF MayTake
      <3>. QED BY <1>1, <1>2, <3>3 DEF Takes
    <2>. QED BY <1>4, <2>4, <2>5 DEF MergeRest
  <1>. QED BY <1>3, <1>4

(* Nothing has been taken at the start.                                     *)
LEMMA InitOrder ==
  ASSUME Init
  PROVE  OrderInv
  <1>1. SortInv  BY InitSafe
  <1>2. /\ lock = [n \in Node \cup {End} |-> Free] /\ out = <<>>
        /\ pc = [t \in Thread |-> IF t = Root THEN "sortlines" ELSE "none"]
        /\ at = [t \in Thread |-> t] /\ joins = [t \in Thread |-> {}]
    BY DEF Init
  <1>3. \A n \in Node : node[n] = Initially(n)  BY NodeFacts DEF Init, Initially
  <1>4. \A n : ~Split(n) /\ (InPlay(n) <=> n = Root)  BY <1>2 DEF Split, InPlay
  <1>5. Unsorted(Root)
    <2>1. Root \in Thread  BY NodeFacts
    <2>. QED BY <1>2, <2>1 DEF Unsorted, Sorting
  <1>6. CaseInv
    <2>1. PICK case \in Cases : input = case[1] /\ unique = case[2]  BY DEF Init
    <2>2. case \in [1 .. NLines -> Nat] \X BOOLEAN  BY CaseAssumption
    <2>. QED BY <2>1, <2>2 DEF CaseInv
  <1>7. LeafInv  BY <1>4, <1>5 DEF LeafInv
  <1>8. SentInv  BY <1>4 DEF SentInv
  <1>9. Gone(Root) = {}
    <2>1. Root \in Node /\ lock[Root] = Free  BY <1>2, NodeFacts
    <2>2. PICK l \in Nat, lo \in Nat, hi \in Nat : l = Lines[Root] /\ lo = Lo(Root) /\ hi = Hi(Root)
      BY <2>1, Totals
    <2>3. LeftLo(Root) = lo /\ LeftHi(Root) = hi  BY <1>3, <2>1, <2>2, UntouchedLeft
    <2>4. FromLo(Root) = l /\ FromHi(Root) = l + lo  BY <1>4, <2>2 DEF FromLo, FromHi
    <2>5. ToLo(Root) = l + lo - lo /\ ToHi(Root) = l + lo + hi - hi
      BY <2>2, <2>3, <2>4 DEF ToLo, ToHi
    <2>6. l + lo - lo = l /\ l + lo + hi - hi = l + lo /\ l + lo \in Nat  OBVIOUS
    <2>7. PICK m \in Int : m = l + lo  BY <2>6
    <2>8. l \in Int  BY <2>2
    <2>9. Held(l, l) = {}  BY <2>8, HeldNone
    <2>10. Held(m, m) = {}  BY <2>7, HeldNone
    <2>. QED BY <2>4, <2>5, <2>6, <2>7, <2>9, <2>10 DEF Gone
  <1>10. CutInv  BY <1>4, <1>9 DEF CutInv
  <1>11. OutInv  BY <1>2, <1>9 DEF OutInv
  <1>. QED BY <1>6, <1>7, <1>8, <1>10, <1>11 DEF OrderInv

(* Every step keeps what has been merged in order.                          *)
LEMMA StepOrder ==
  ASSUME SortInv, SortInv', OrderInv, Next
  PROVE  OrderInv'
  <1>1. PICK t \in Thread : Step(t) \/ SpuriousWakeup(t)  BY DEF Next
  <1>2. CASE CreateThread(t)  BY <1>2, CreateThreadOrder
  <1>3. CASE SortSequentially(t)  BY <1>3, SortSequentiallyOrder
  <1>4. CASE EndSort(t)  BY <1>4, EndSortOrder
  <1>5. CASE MergeBoth(t) \/ MergeRest(t)
    <2>1. PICK side \in {"lo", "hi"} : Takes(t, side)  BY <1>5, MergesTake
    <2>. QED BY <2>1, MoveOrder DEF Takes
  <1>6. CASE Publish(t)  BY <1>6, PublishOrder
  <1>7. CASE \/ QueuePop(t) \/ LockNode(t) \/ ReinsertEnd(t) \/ EndBoth(t)
             \/ CheckSelf(t) \/ CheckParent(t) \/ UnlockNode(t) \/ Join(t) \/ SpuriousWakeup(t)
    BY <1>7, IdleSteps
  <1>. QED BY <1>1, <1>2, <1>3, <1>4, <1>5, <1>6, <1>7 DEF Step, Merges

(* Whatever a thread does, nothing is written or the line that a stable     *)
(* sort writes next.                                                        *)
LEMMA StepWrites ==
  ASSUME SortInv, OrderInv, Next
  PROVE  Sort!Write \/ UNCHANGED <<input, unique, out>>
  <1>1. PICK t \in Thread : Step(t) \/ SpuriousWakeup(t)  BY DEF Next
  <1>2. CASE MergeBoth(t) \/ MergeRest(t)
    <2>1. PICK side \in {"lo", "hi"} : Takes(t, side)  BY <1>2, MergesTake
    <2>2. PICK n \in Node : n = at[t] /\ InPlay(n) /\ ~Unsorted(n)  BY <2>1, MergingFacts DEF Takes
    <2>3. UNCHANGED config /\ (n # Root => out' = out)  BY <2>1, <2>2 DEF Takes, Move
    <2>4. CASE n = Root
      <3>1. Following(Line(n, side), n)  BY <2>1, <2>2, NextLine DEF Takes
      <3>2. PICK i : i = Line(n, side)  OBVIOUS
      <3>3. Put(i)  BY <2>1, <2>2, <2>4, <3>2 DEF Takes, Move, Line, Put
      <3>4. \/ out' = out
            \/ out' = Append(out, i) /\ Sort!Next1(i) /\ i \in DOMAIN input
        BY <2>3, <2>4, <3>1, <3>2, <3>3, PutNext
      <3>. QED BY <2>3, <3>4 DEF Sort!Write, config
    <2>. QED BY <2>3, <2>4 DEF config
  <1>3. CASE ~(MergeBoth(t) \/ MergeRest(t))
    <2>1. UNCHANGED <<config, out>>
      BY <1>1, <1>3 DEF Step, Merges, CreateThread, SortSequentially, EndSort, QueuePop, LockNode,
         ReinsertEnd, EndBoth, Publish, CheckSelf, CheckParent, UnlockNode, Join, SpuriousWakeup
    <2>. QED BY <2>1 DEF config
  <1>. QED BY <1>2, <1>3

(* However many threads there are, however the lines are divided among them *)
(* and whatever order the nodes are merged in, what they write is, line by  *)
(* line, what a stable sort of the whole buffer writes.                     *)
THEOREM AlwaysImplementsStableSort == Spec => ImplementsStableSort
  <1>1. Init => Sort!Init  BY DEF Init, Sort!Init
  <1>2. SortInv /\ SortInv' /\ OrderInv /\ [Next]_vars => OrderInv'
    <2>1. CASE UNCHANGED vars  BY <2>1, StutterOrder
    <2>. QED BY <2>1, StepOrder
  <1>3. SortInv /\ OrderInv /\ [Next]_vars => [Sort!Write]_<<input, unique, out>>
    <2>1. CASE UNCHANGED vars  BY <2>1 DEF vars
    <2>. QED BY <2>1, StepWrites
  <1>4. Spec => []SortInv  BY AlwaysAgreeing
  <1>. QED BY <1>1, <1>2, <1>3, <1>4, InitOrder, PTL DEF Spec, ImplementsStableSort, Sort!Spec
=============================================================================
