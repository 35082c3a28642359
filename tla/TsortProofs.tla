------------------------------ MODULE TsortProofs ------------------------------
(***************************************************************************)
(* tsort implements TotalOrder, for all strings and all input: it writes   *)
(* an item only after all that a relation puts before it, and gives up no  *)
(* relation but one of a loop.                                             *)
(***************************************************************************)
EXTENDS Tsort, SequenceTheorems, FiniteSetTheorems, WellFoundedInduction, TLAPS

Ids(s) == { s[i] : i \in DOMAIN s }
Distinct(s) == \A a, b \in DOMAIN s : s[a] = s[b] => a = b

TypeInv ==
  /\ input \in Seq(Item) /\ pos \in Nat \ {0}
  /\ {j, head, zeros, loop} \subseteq Item \cup {Null}
  /\ known \subseteq Item /\ walk \subseteq known
  /\ count \in [Item -> Int]
  /\ top \in [Item -> Seq(Nat)]
  /\ qlink \in [Item -> Item \cup {Null}]
  /\ p \in Seq(Nat)
  /\ written \in Seq(Item) /\ Printed \subseteq known

(* What the phases begin with.                                              *)
PhaseInv ==
  /\ pc \in {"read", "scan", "queue", "erase", "detect", "done", "failed"}
  /\ pc = "read" => /\ written = <<>> /\ head = Null
                    /\ \A x \in Item : qlink[x] = Null
                    /\ j # Null => /\ j \in known
                                   /\ pos - 1 \in 1 .. Len(input) /\ input[pos - 1] = j
  /\ pc \in {"read", "scan", "queue", "erase"} => loop = Null
  /\ pc = "detect" => head = Null
  /\ pc = "erase" => head \in Printed
  /\ p # <<>> => pc = "erase"

(* The successors of an item, and those of them still to be erased.         *)
TopInv ==
  /\ \A x \in Item :
       /\ Distinct(top[x])
       /\ \A e \in Ids(top[x]) :
            /\ e \in 2 .. Len(input) /\ e < pos
            /\ input[e - 1] = x /\ {x, input[e]} \subseteq known
  /\ Distinct(p)
  /\ pc = "erase" => Ids(p) \subseteq Ids(top[head])

(* A relation to k counts until the item before it has been written and its *)
(* successor been erased.                                                   *)
Listed == { e \in 2 .. Len(input) : e \in Ids(top[input[e - 1]]) }
Open(k) == { e \in Listed : input[e] = k /\ (input[e - 1] \notin Printed \/ e \in Ids(p)) }

CountInv == \A k \in Item : count[k] = Cardinality(Open(k))
PrintedInv == \A k \in Printed : count[k] = 0

(* All that has a qlink is on the way from head: in every set that has head *)
(* and is closed.                                                           *)
ClosedUnder(S) == \A y \in S : qlink[y] # Null => qlink[y] \in S
InChain(x) == \A S \in SUBSET known : (head # Null => head \in S) /\ ClosedUnder(S) => x \in S

Unprinted == known \ Printed
Here == Unprinted \cup ({head} \ {Null})

(* What is in the queue has no predecessor left, and is in it once.         *)
HeadInv ==
  head # Null =>
    /\ head \in known /\ count[head] = 0 /\ (pc # "erase" => head \notin Printed)
    /\ zeros \in Here /\ qlink[zeros] = Null /\ count[zeros] = 0 /\ InChain(zeros)

LinkInv ==
  /\ \A x \in Here : qlink[x] # Null =>
       /\ count[x] = 0 /\ InChain(x)
       /\ qlink[x] \in Unprinted /\ qlink[x] # head /\ count[qlink[x]] = 0
  /\ \A x, y \in Here : qlink[x] # Null /\ qlink[x] = qlink[y] => x = y

WalkInv ==
  \A k \in walk :
    /\ k # head /\ (head # Null => k # zeros)
    /\ k \in Unprinted => qlink[k] = Null
    /\ \A x \in Here : qlink[x] # k

QueueInv ==
  /\ pc \in {"scan", "queue", "erase"} => HeadInv /\ LinkInv
  /\ pc = "scan" => WalkInv

(* The trail: from each item a relation to the one it leads to.             *)
TrailInv ==
  pc = "detect" =>
    /\ loop # Null => loop \in Unprinted
    /\ \A x \in Unprinted : qlink[x] # Null =>
         /\ qlink[x] \in Unprinted
         /\ \E e \in Listed : input[e - 1] = x /\ input[e] = qlink[x]
         /\ loop # Null
         /\ \A S \in SUBSET known : loop \in S /\ ClosedUnder(S) => x \in S

SortInv ==
  /\ TypeInv /\ PhaseInv /\ TopInv
  /\ CountInv /\ PrintedInv
  /\ QueueInv /\ TrailInv

(* Of every pair of tokens read, that differ, there is a relation in the    *)
(* lists, and no other; only breaking a loop removes one.                   *)
ReadingInv ==
  /\ pc = "read" => ok /\ (j # Null <=> pos % 2 = 0)
  /\ pc \notin {"read", "failed"} => pos > Len(input)
  /\ pc = "detect" => ~ok
  /\ Listed \subseteq Given
  /\ ok => \A e \in Given : e < pos => e \in Listed

(* Whatever is written has, before it, all that a listed relation puts      *)
(* before it.                                                               *)
OrderInv ==
  \A e \in Listed : \A b \in DOMAIN written :
    written[b] = input[e] => \E a \in DOMAIN written : a < b /\ written[a] = input[e - 1]

(* n_strings counts what is still to be written, and nothing is written     *)
(* twice.                                                                   *)
NumberInv ==
  /\ Distinct(written) /\ Len(written) = Cardinality(Printed)
  /\ pc \in {"scan", "queue", "erase", "detect"} => n_strings = Cardinality(Unprinted)
  /\ pc = "done" => Unprinted = {}

(* What has no predecessor left is in the queue, or will be scanned.        *)
Queued(x) == x = head \/ \E y \in Here : qlink[y] = x
QueuedInv ==
  pc \in {"scan", "queue", "erase"} =>
    \A x \in Unprinted : count[x] = 0 => Queued(x) \/ (pc = "scan" /\ x \in walk)

(* tsort reports a loop only if there is one.                               *)
LoopInv == ~ok => ~Acyclic

EndInv == ReadingInv /\ OrderInv /\ NumberInv /\ QueuedInv /\ LoopInv
------------------------------------------------------------------------------
(* The lists of successors: without the one at k.                           *)
LEMMA WithoutFacts ==
  ASSUME NEW s \in Seq(Nat), Distinct(s), NEW t \in Seq(Nat), NEW k \in DOMAIN s,
         Len(t) = Len(s) - 1,
         \A i \in 1 .. k - 1 : t[i] = s[i],
         \A i \in k .. Len(s) - 1 : t[i] = s[i + 1]
  PROVE  Distinct(t) /\ Ids(t) = Ids(s) \ {s[k]}
  <1>1. PICK n \in Nat : /\ n = Len(s) /\ DOMAIN s = 1 .. n /\ DOMAIN t = 1 .. n - 1
                         /\ k \in 1 .. n
    BY LenProperties
  <1>. DEFINE f == [i \in 1 .. n - 1 |-> IF i < k THEN i ELSE i + 1]
  <1>2. \A i \in 1 .. n - 1 : f[i] \in 1 .. n /\ f[i] # k /\ t[i] = s[f[i]]
    <2>. SUFFICES ASSUME NEW i \in 1 .. n - 1
                  PROVE  f[i] \in 1 .. n /\ f[i] # k /\ t[i] = s[f[i]]
      OBVIOUS
    <2>1. CASE i < k
      <3>1. i \in 1 .. k - 1 /\ f[i] = i /\ i \in 1 .. n  BY <1>1, <2>1
      <3>. QED BY <2>1, <3>1
    <2>2. CASE ~(i < k)
      <3>1. i \in k .. n - 1 /\ f[i] = i + 1 /\ i + 1 \in 1 .. n /\ i + 1 # k  BY <1>1, <2>2
      <3>. QED BY <1>1, <3>1
    <2>. QED BY <2>1, <2>2
  <1>3. \A i \in 1 .. n : i # k => \E m \in 1 .. n - 1 : f[m] = i
    <2>. SUFFICES ASSUME NEW i \in 1 .. n, i # k  PROVE \E m \in 1 .. n - 1 : f[m] = i
      OBVIOUS
    <2>1. CASE i < k
      <3>1. i \in 1 .. n - 1 /\ f[i] = i  BY <1>1, <2>1
      <3>. QED BY <3>1
    <2>2. CASE i > k
      <3>1. i - 1 \in 1 .. n - 1 /\ f[i - 1] = i  BY <1>1, <2>2
      <3>. QED BY <3>1
    <2>. QED BY <1>1, <2>1, <2>2
  <1>4. \A i, m \in 1 .. n - 1 : f[i] = f[m] => i = m
    <2>. SUFFICES ASSUME NEW i \in 1 .. n - 1, NEW m \in 1 .. n - 1, f[i] = f[m]  PROVE i = m
      OBVIOUS
    <2>1. f[i] = (IF i < k THEN i ELSE i + 1) /\ f[m] = (IF m < k THEN m ELSE m + 1)
      OBVIOUS
    <2>. HIDE DEF f
    <2>2. i \in Int /\ m \in Int /\ k \in Int  BY <1>1
    <2>3. CASE i < k /\ m < k      BY <2>1, <2>3
    <2>4. CASE ~(i < k) /\ ~(m < k)
      <3>1. i + 1 = m + 1  BY <2>1, <2>4
      <3>. QED BY <2>2, <3>1
    <2>5. CASE i < k /\ ~(m < k)
      <3>1. i = m + 1  BY <2>1, <2>5
      <3>. QED BY <2>2, <2>5, <3>1
    <2>6. CASE ~(i < k) /\ m < k
      <3>1. i + 1 = m  BY <2>1, <2>6
      <3>. QED BY <2>2, <2>6, <3>1
    <2>. QED BY <2>3, <2>4, <2>5, <2>6
  <1>5. f \in [1 .. n - 1 -> 1 .. n]
    BY <1>2
  <1>. HIDE DEF f
  <1>6. f \in [DOMAIN t -> DOMAIN s]  BY <1>1, <1>5, Zenon
  <1>7. \A i \in DOMAIN t : f[i] # k /\ t[i] = s[f[i]]  BY <1>1, <1>2, Zenon
  <1>8. \A i, m \in DOMAIN t : f[i] = f[m] => i = m  BY <1>1, <1>4, Zenon
  <1>9. \A i \in DOMAIN s : i # k => \E m \in DOMAIN t : f[m] = i  BY <1>1, <1>3, Zenon
  <1>10. Distinct(t)
    <2>. SUFFICES ASSUME NEW i \in DOMAIN t, NEW m \in DOMAIN t, t[i] = t[m]  PROVE i = m
      BY DEF Distinct
    <2>1. f[i] \in DOMAIN s /\ f[m] \in DOMAIN s  BY <1>6
    <2>2. s[f[i]] = s[f[m]]  BY <1>7, Zenon
    <2>3. f[i] = f[m]  BY <2>1, <2>2, Zenon DEF Distinct
    <2>. QED BY <1>8, <2>3, Zenon
  <1>11. ASSUME NEW i \in DOMAIN t  PROVE t[i] \in Ids(s) \ {s[k]}
    <2>1. f[i] \in DOMAIN s /\ f[i] # k /\ t[i] = s[f[i]]  BY <1>6, <1>7
    <2>2. s[f[i]] # s[k]  BY <2>1, Zenon DEF Distinct
    <2>. QED BY <2>1, <2>2, Zenon DEF Ids
  <1>12. ASSUME NEW i \in DOMAIN s, s[i] # s[k]  PROVE s[i] \in Ids(t)
    <2>1. PICK m \in DOMAIN t : f[m] = i  BY <1>9, <1>12, Zenon
    <2>. QED BY <1>7, <2>1, Zenon DEF Ids
  <1>13. Ids(t) = Ids(s) \ {s[k]}
    BY <1>11, <1>12, Zenon DEF Ids
  <1>. QED BY <1>10, <1>13

(* What SubSeq and \o make of that.                                         *)
LEMMA RemoveFacts ==
  ASSUME NEW s \in Seq(Nat), Distinct(s), NEW k \in DOMAIN s
  PROVE  LET t == SubSeq(s, 1, k - 1) \o SubSeq(s, k + 1, Len(s))
         IN  t \in Seq(Nat) /\ Distinct(t) /\ Ids(t) = Ids(s) \ {s[k]}
  <1>1. PICK n \in Nat : n = Len(s) /\ DOMAIN s = 1 .. n /\ k \in 1 .. n
    BY LenProperties
  <1>. DEFINE a == SubSeq(s, 1, k - 1)
              b == SubSeq(s, k + 1, Len(s))
              t == a \o b
  <1>2. \A i \in 1 .. n : s[i] \in Nat
    BY <1>1, ElementOfSeq
  <1>3. a \in Seq(Nat) /\ Len(a) = k - 1 /\ \A i \in 1 .. k - 1 : a[i] = s[i]
    <2>0. k - 1 \in Int /\ \A i \in 1 .. k - 1 : s[i] \in Nat  BY <1>1, <1>2
    <2>1. /\ a \in Seq(Nat)
          /\ Len(a) = IF 1 <= k - 1 THEN (k - 1) - 1 + 1 ELSE 0
          /\ \A i \in 1 .. (k - 1) - 1 + 1 : a[i] = s[1 + i - 1]
      BY <2>0, SubSeqProperties
    <2>. HIDE DEF a
    <2>2. Len(a) = k - 1  BY <1>1, <2>1
    <2>3. ASSUME NEW i \in 1 .. k - 1  PROVE a[i] = s[i]
      <3>1. i \in 1 .. (k - 1) - 1 + 1 /\ 1 + i - 1 = i  BY <1>1
      <3>. QED BY <2>1, <3>1
    <2>. QED BY <2>1, <2>2, <2>3
  <1>4. b \in Seq(Nat) /\ Len(b) = n - k /\ \A i \in 1 .. n - k : b[i] = s[i + k]
    <2>0. PICK c \in Int : c = k + 1 /\ \A i \in c .. n : s[i] \in Nat
      <3>1. k + 1 \in Int /\ \A i \in k + 1 .. n : s[i] \in Nat  BY <1>1, <1>2
      <3>. QED BY <3>1
    <2>1. /\ b \in Seq(Nat)
          /\ Len(b) = IF c <= n THEN n - c + 1 ELSE 0
          /\ \A i \in 1 .. n - c + 1 : b[i] = s[c + i - 1]
      <3>1. n \in Int /\ b = SubSeq(s, c, n)  BY <1>1, <2>0
      <3>. HIDE DEF b
      <3>. QED BY <2>0, <3>1, SubSeqProperties
    <2>. HIDE DEF b
    <2>2. n \in Int /\ k \in Int /\ k <= n /\ c = k + 1  BY <1>1, <2>0
    <2>3. Len(b) = n - k
      <3>1. CASE c <= n
        <4>1. Len(b) = n - c + 1  BY <2>1, <3>1
        <4>. QED BY <2>2, <4>1
      <3>2. CASE ~(c <= n)
        <4>1. Len(b) = 0  BY <2>1, <3>2
        <4>. QED BY <2>2, <3>2, <4>1
      <3>. QED BY <3>1, <3>2
    <2>4. ASSUME NEW i \in 1 .. n - k  PROVE b[i] = s[i + k]
      <3>1. i \in 1 .. n - c + 1 /\ c + i - 1 = i + k  BY <2>2
      <3>. QED BY <2>1, <3>1
    <2>. QED BY <2>1, <2>3, <2>4
  <1>. HIDE DEF a, b
  <1>5. /\ t \in Seq(Nat) /\ Len(t) = Len(a) + Len(b)
        /\ \A i \in 1 .. Len(a) + Len(b) : t[i] = IF i <= Len(a) THEN a[i] ELSE b[i - Len(a)]
    BY <1>3, <1>4, ConcatProperties
  <1>. HIDE DEF t
  <1>6. Len(t) = n - 1
    <2>1. Len(a) = k - 1 /\ Len(b) = n - k /\ Len(t) = Len(a) + Len(b)  BY <1>3, <1>4, <1>5
    <2>2. n \in Int /\ k \in Int  BY <1>1
    <2>. QED BY <2>1, <2>2
  <1>7. ASSUME NEW i \in 1 .. k - 1  PROVE t[i] = s[i]
    <2>1. i \in 1 .. Len(a) + Len(b) /\ i <= Len(a)  BY <1>1, <1>3, <1>4
    <2>. QED BY <1>3, <1>5, <2>1
  <1>8. ASSUME NEW i \in k .. n - 1  PROVE t[i] = s[i + 1]
    <2>1. i \in 1 .. Len(a) + Len(b) /\ ~(i <= Len(a))  BY <1>1, <1>3, <1>4
    <2>2. t[i] = b[i - (k - 1)]  BY <1>3, <1>5, <2>1
    <2>3. i - (k - 1) \in 1 .. n - k /\ (i - (k - 1)) + k = i + 1  BY <1>1
    <2>4. b[i - (k - 1)] = s[(i - (k - 1)) + k]  BY <1>4, <2>3
    <2>. QED BY <2>2, <2>3, <2>4
  <1>9. Distinct(t) /\ Ids(t) = Ids(s) \ {s[k]}
    BY <1>1, <1>5, <1>6, <1>7, <1>8, WithoutFacts
  <1>. QED BY <1>5, <1>9 DEF a, b, t

(* Without the first.                                                       *)
LEMMA PopFacts ==
  ASSUME NEW s \in Seq(Nat), Distinct(s), s # <<>>
  PROVE  /\ Tail(s) \in Seq(Nat) /\ Distinct(Tail(s)) /\ Ids(Tail(s)) = Ids(s) \ {Head(s)}
         /\ Head(s) \in Ids(s)
  <1>1. PICK n \in Nat : n = Len(s) /\ DOMAIN s = 1 .. n /\ n >= 1
    BY LenProperties, EmptySeq
  <1>. DEFINE t == Tail(s)
  <1>2. t \in Seq(Nat) /\ Len(t) = n - 1 /\ \A i \in 1 .. n - 1 : t[i] = s[i + 1]
    <2>1. t \in Seq(Nat) /\ Len(t) = n - 1 /\ \A i \in 1 .. Len(t) : t[i] = s[i + 1]
      BY <1>1, HeadTailProperties
    <2>. QED BY <2>1
  <1>. HIDE DEF t
  <1>3. Head(s) = s[1] /\ 1 \in DOMAIN s
    BY <1>1
  <1>4. Distinct(t) /\ Ids(t) = Ids(s) \ {s[1]}
    <2>1. PICK k \in DOMAIN s : k = 1  BY <1>3
    <2>2. \A i \in 1 .. k - 1 : t[i] = s[i]  BY <2>1
    <2>3. Len(t) = Len(s) - 1 /\ \A i \in k .. Len(s) - 1 : t[i] = s[i + 1]  BY <1>1, <1>2, <2>1
    <2>4. Distinct(t) /\ Ids(t) = Ids(s) \ {s[k]}  BY <1>2, <2>2, <2>3, WithoutFacts
    <2>. QED BY <2>1, <2>4
  <1>. QED BY <1>2, <1>3, <1>4 DEF Ids, t

(* With one more at the beginning.                                          *)
LEMMA PushFacts ==
  ASSUME NEW s \in Seq(Nat), Distinct(s), NEW e \in Nat, e \notin Ids(s)
  PROVE  /\ <<e>> \o s \in Seq(Nat) /\ Distinct(<<e>> \o s)
         /\ Ids(<<e>> \o s) = Ids(s) \cup {e}
  <1>1. PICK n \in Nat : n = Len(s) /\ DOMAIN s = 1 .. n
    BY LenProperties
  <1>. DEFINE t == <<e>> \o s
  <1>2. t \in Seq(Nat) /\ Len(t) = n + 1 /\ DOMAIN t = 1 .. n + 1
    <2>1. <<e>> \in Seq(Nat) /\ Len(<<e>>) = 1  OBVIOUS
    <2>2. t \in Seq(Nat) /\ Len(t) = 1 + n
      BY <1>1, <2>1, ConcatProperties
    <2>3. DOMAIN t = 1 .. n + 1  BY <1>1, <2>2, LenProperties
    <2>. QED BY <1>1, <2>2, <2>3
  <1>3. t[1] = e
    BY <1>1
  <1>4. \A i \in 1 .. n : t[i + 1] = s[i]
    BY <1>1
  <1>. HIDE DEF t
  <1>5. \A i \in 2 .. n + 1 : i - 1 \in 1 .. n /\ t[i] = s[i - 1]
    <2>. SUFFICES ASSUME NEW i \in 2 .. n + 1  PROVE i - 1 \in 1 .. n /\ t[i] = s[i - 1]
      OBVIOUS
    <2>1. i - 1 \in 1 .. n /\ (i - 1) + 1 = i  OBVIOUS
    <2>. QED BY <1>4, <2>1
  <1>6. \A i \in 1 .. n + 1 : i = 1 \/ i \in 2 .. n + 1
    OBVIOUS
  <1>7. Ids(t) = Ids(s) \cup {e}
    <2>1. ASSUME NEW i \in 1 .. n + 1  PROVE t[i] \in Ids(s) \cup {e}
      BY <1>1, <1>3, <1>5, <1>6 DEF Ids
    <2>2. ASSUME NEW i \in 1 .. n  PROVE s[i] \in Ids(t)
      <3>1. i + 1 \in 1 .. n + 1  OBVIOUS
      <3>. QED BY <1>2, <1>4, <3>1 DEF Ids
    <2>3. e \in Ids(t)
      <3>1. 1 \in 1 .. n + 1  OBVIOUS
      <3>. QED BY <1>2, <1>3, <3>1 DEF Ids
    <2>. QED BY <1>1, <1>2, <2>1, <2>2, <2>3 DEF Ids
  <1>8. Distinct(t)
    <2>. SUFFICES ASSUME NEW a \in 1 .. n + 1, NEW b \in 1 .. n + 1, t[a] = t[b]  PROVE a = b
      BY <1>2 DEF Distinct
    <2>1. CASE a = 1 /\ b # 1  BY <1>1, <1>3, <1>5, <1>6, <2>1 DEF Ids
    <2>2. CASE a # 1 /\ b = 1  BY <1>1, <1>3, <1>5, <1>6, <2>2 DEF Ids
    <2>3. CASE a # 1 /\ b # 1
      <3>1. a - 1 = b - 1  BY <1>1, <1>5, <1>6, <2>3 DEF Distinct
      <3>. QED BY <3>1
    <2>. QED BY <2>1, <2>2, <2>3
  <1>. QED BY <1>2, <1>7, <1>8 DEF t
------------------------------------------------------------------------------
(* The tokens of a relation are items.                                      *)
LEMMA TokenFacts ==
  ASSUME TypeInv
  PROVE  /\ Len(input) \in Nat
         /\ \A i \in 1 .. Len(input) : input[i] \in Item
         /\ \A e \in 2 .. Len(input) : e - 1 \in 1 .. Len(input) /\ e \in 1 .. Len(input)
  <1>1. Len(input) \in Nat /\ \A i \in 1 .. Len(input) : input[i] \in Item
    BY LenProperties, ElementOfSeq DEF TypeInv
  <1>2. \A e \in 2 .. Len(input) : e - 1 \in 1 .. Len(input) /\ e \in 1 .. Len(input)
    BY <1>1
  <1>. QED BY <1>1, <1>2

(* Null is the name of no item.                                             *)
LEMMA ItemFacts == Null \notin Item
  BY ItemAssumption

(* What is listed, and what is open of it.                                  *)
LEMMA ListedFacts ==
  ASSUME TypeInv, TopInv
  PROVE  /\ \A x \in Item : \A e \in Ids(top[x]) : e \in Listed /\ input[e - 1] = x
         /\ \A e \in Listed :
              /\ input[e - 1] \in Item /\ input[e] \in Item /\ e \in Nat
              /\ e \in Ids(top[input[e - 1]]) /\ {input[e - 1], input[e]} \subseteq known
  <1>1. ASSUME NEW x \in Item, NEW e \in Ids(top[x])
        PROVE  e \in Listed /\ input[e - 1] = x
    <2>1. e \in 2 .. Len(input) /\ input[e - 1] = x  BY DEF TopInv
    <2>. QED BY <2>1 DEF Listed
  <1>2. ASSUME NEW e \in Listed
        PROVE  /\ input[e - 1] \in Item /\ input[e] \in Item /\ e \in Nat
               /\ e \in Ids(top[input[e - 1]]) /\ {input[e - 1], input[e]} \subseteq known
    <2>1. e \in 2 .. Len(input) /\ e \in Ids(top[input[e - 1]])  BY DEF Listed
    <2>2. input[e - 1] \in Item /\ input[e] \in Item  BY <2>1, TokenFacts
    <2>3. {input[e - 1], input[e]} \subseteq known  BY <2>1, <2>2 DEF TopInv
    <2>4. e \in Nat  BY <2>1
    <2>. QED BY <2>1, <2>2, <2>3, <2>4
  <1>. QED BY <1>1, <1>2

(* There are finitely many of them, so they can be counted.                 *)
LEMMA OpenFinite ==
  ASSUME TypeInv, NEW k
  PROVE  IsFiniteSet(Open(k))
  <1>1. IsFiniteSet(2 .. Len(input))
    BY TokenFacts, FS_Interval
  <1>2. Open(k) \in SUBSET (2 .. Len(input))
    BY DEF Open, Listed
  <1>. QED BY <1>1, <1>2, FS_Subset

(* Steps that leave the relations, what is written and the counts alone.    *)
LEMMA CountFrame ==
  ASSUME CountInv, PrintedInv, UNCHANGED <<input, top, written, p, count>>
  PROVE  CountInv' /\ PrintedInv'
  <1>1. \A k : Open(k)' = Open(k)
    BY DEF Open, Listed, Printed
  <1>. QED BY <1>1 DEF CountInv, PrintedInv, Printed

(* Steps that leave the lists of successors alone.                          *)
LEMMA TopFrame ==
  ASSUME TypeInv, TopInv, UNCHANGED <<input, top, p>>, known \subseteq known',
         pos' \in Nat, pos <= pos', pc' # "erase" \/ (pc = "erase" /\ head' = head)
  PROVE  TopInv'
  <1>1. ASSUME NEW x \in Item, NEW e \in Ids(top[x])
        PROVE  /\ e \in 2 .. Len(input) /\ e < pos'
               /\ input[e - 1] = x /\ {x, input[e]} \subseteq known'
    <2>1. /\ e \in 2 .. Len(input) /\ e < pos
          /\ input[e - 1] = x /\ {x, input[e]} \subseteq known
      BY DEF TopInv
    <2>2. e \in Int /\ pos \in Int /\ pos' \in Int  BY <2>1 DEF TypeInv
    <2>. QED BY <2>1, <2>2
  <1>. QED BY <1>1 DEF TopInv
------------------------------------------------------------------------------
(* The first token of a pair.                                               *)
LEMMA ReadFirstSafe ==
  ASSUME SortInv, ReadFirst
  PROVE  SortInv'
  <1>. USE DEF SortInv, ReadFirst, fields, queue, result
  <1>1. TypeInv'
    <2>1. pos \in 1 .. Len(input)  BY TokenFacts DEF TypeInv
    <2>2. input[pos] \in Item  BY <2>1, TokenFacts
    <2>. QED BY <2>2 DEF TypeInv, Printed
  <1>2. PhaseInv'
    <2>1. pos' - 1 \in 1 .. Len(input) /\ pos' - 1 = pos  BY TokenFacts DEF TypeInv
    <2>. QED BY <2>1 DEF PhaseInv, Printed
  <1>3. TopInv'
    <2>1. pos' \in Nat /\ pos <= pos'  BY DEF TypeInv
    <2>. QED BY <2>1, TopFrame
  <1>4. CountInv' /\ PrintedInv'  BY CountFrame
  <1>5. QueueInv' /\ TrailInv'  BY DEF QueueInv, TrailInv
  <1>. QED BY <1>1, <1>2, <1>3, <1>4, <1>5

(* What record_relation puts in front of a list of successors.              *)
LEMMA RecordedRelation ==
  ASSUME SortInv, RecordRelation, top' = [top EXCEPT ![j] = <<pos>> \o @]
  PROVE  /\ top' \in [Item -> Seq(Nat)]
         /\ Distinct(top'[j]) /\ Ids(top'[j]) = Ids(top[j]) \cup {pos}
         /\ \A x \in Item \ {j} : top'[x] = top[x]
         /\ pos \notin Listed /\ \A e : e \in Listed' <=> e \in Listed \/ e = pos
  <1>. USE DEF SortInv
  <1>0. /\ pos \in 2 .. Len(input) /\ pos \in Nat /\ j \in Item /\ input[pos - 1] = j
        /\ UNCHANGED input
    <2>1. /\ j \in Item /\ input[pos - 1] = j /\ pos - 1 \in 1 .. Len(input) /\ pos \in Nat
          /\ pos <= Len(input) /\ UNCHANGED input
      BY DEF RecordRelation, PhaseInv, TypeInv
    <2>2. pos \in 2 .. Len(input)
      BY <2>1, TokenFacts
    <2>. QED BY <2>1, <2>2
  <1>1. top[j] \in Seq(Nat) /\ Distinct(top[j]) /\ pos \notin Ids(top[j])
    <2>1. \A e \in Ids(top[j]) : e \in Int /\ e < pos  BY <1>0 DEF TopInv
    <2>2. ~(pos < pos)  BY <1>0
    <2>. QED BY <1>0, <2>1, <2>2 DEF TopInv, TypeInv
  <1>2. /\ top'[j] \in Seq(Nat) /\ Distinct(top'[j]) /\ Ids(top'[j]) = Ids(top[j]) \cup {pos}
        /\ \A x \in Item \ {j} : top'[x] = top[x]
        /\ top' \in [Item -> Seq(Nat)]
    <2>1. top'[j] = <<pos>> \o top[j]  BY <1>0 DEF TypeInv
    <2>2. <<pos>> \o top[j] \in Seq(Nat)  BY <1>0, <1>1, PushFacts
    <2>. QED BY <1>0, <1>1, <2>1, <2>2, PushFacts DEF TypeInv
  <1>3. \A e \in 2 .. Len(input) : e \in Ids(top'[input[e - 1]]) <=> e \in Ids(top[input[e - 1]]) \/ e = pos
    <2>. SUFFICES ASSUME NEW e \in 2 .. Len(input)
                  PROVE  e \in Ids(top'[input[e - 1]]) <=> e \in Ids(top[input[e - 1]]) \/ e = pos
      OBVIOUS
    <2>1. input[e - 1] \in Item  BY TokenFacts
    <2>2. CASE input[e - 1] = j  BY <1>2, <2>2
    <2>3. CASE input[e - 1] # j  BY <1>0, <1>2, <2>1, <2>3
    <2>. QED BY <2>2, <2>3
  <1>4. pos \notin Listed  BY <1>0, <1>1 DEF Listed
  <1>. QED BY <1>0, <1>2, <1>3, <1>4 DEF Listed

(* The second: one more relation is listed, and open.                       *)
LEMMA RecordRelationSafe ==
  ASSUME SortInv, RecordRelation
  PROVE  SortInv'
  <1>. DEFINE k == input[pos]
  <1>0. /\ pos \in 2 .. Len(input) /\ pos \in Nat /\ k \in Item
        /\ j \in known /\ j \in Item /\ input[pos - 1] = j
        /\ written = <<>> /\ p = <<>>
    <2>1. /\ j \in known /\ j \in Item /\ input[pos - 1] = j /\ written = <<>> /\ p = <<>>
          /\ pos - 1 \in 1 .. Len(input) /\ pos \in Nat
      BY DEF RecordRelation, SortInv, PhaseInv, TypeInv
    <2>2. pos \in 2 .. Len(input)
      BY <2>1, TokenFacts DEF RecordRelation, SortInv
    <2>. QED BY <2>1, <2>2, TokenFacts DEF SortInv
  <1>1. /\ pc' = "read" /\ known' = known \cup {k} /\ pos' = pos + 1 /\ j' = Null
        /\ UNCHANGED <<input, qlink, queue, loop, walk, p, result>>
        /\ \/ /\ count' = [count EXCEPT ![k] = @ + 1]
              /\ top' = [top EXCEPT ![j] = <<pos>> \o @]
           \/ UNCHANGED <<count, top>>
    BY DEF RecordRelation
  <1>. HIDE DEF k
  <1>2. PhaseInv'
    BY <1>1 DEF SortInv, RecordRelation, PhaseInv, queue, result, Printed
  <1>3. QueueInv' /\ TrailInv'
    BY <1>1 DEF QueueInv, TrailInv
  <1>4. CASE UNCHANGED <<count, top>>
    <2>1. TypeInv'
      <3>1. /\ count' \in [Item -> Int] /\ top' \in [Item -> Seq(Nat)]
            /\ qlink' \in [Item -> Item \cup {Null}]
        BY <1>1, <1>4 DEF SortInv, TypeInv
      <3>2. pos' \in Nat \ {0}  BY <1>0, <1>1
      <3>3. /\ known' \subseteq Item /\ walk' \subseteq known' /\ Printed' \subseteq known'
            /\ written' \in Seq(Item) /\ p' \in Seq(Nat) /\ input' \in Seq(Item)
        BY <1>0, <1>1 DEF SortInv, TypeInv, result, Printed
      <3>4. {j, head, zeros, loop}' \subseteq Item \cup {Null}
        BY <1>1 DEF SortInv, TypeInv, queue
      <3>. QED BY <3>1, <3>2, <3>3, <3>4 DEF TypeInv
    <2>2. TopInv'
      <3>1. pos' \in Nat /\ pos <= pos'  BY <1>0, <1>1
      <3>. QED BY <1>1, <1>4, <3>1, TopFrame DEF SortInv
    <2>3. CountInv' /\ PrintedInv'  BY <1>1, <1>4, CountFrame DEF SortInv, result
    <2>. QED BY <1>2, <1>3, <2>1, <2>2, <2>3 DEF SortInv
  <1>5. CASE /\ count' = [count EXCEPT ![k] = @ + 1]
             /\ top' = [top EXCEPT ![j] = <<pos>> \o @]
    <2>2. /\ top' \in [Item -> Seq(Nat)]
          /\ Distinct(top'[j]) /\ Ids(top'[j]) = Ids(top[j]) \cup {pos}
          /\ \A x \in Item \ {j} : top'[x] = top[x]
          /\ pos \notin Listed /\ \A e : e \in Listed' <=> e \in Listed \/ e = pos
      BY <1>5, RecordedRelation
    <2>3. TypeInv'
      <3>1. count' \in [Item -> Int]  BY <1>0, <1>5 DEF SortInv, TypeInv
      <3>2. pos' \in Nat \ {0}  BY <1>0, <1>1
      <3>3. /\ known' \subseteq Item /\ walk' \subseteq known' /\ Printed' \subseteq known'
            /\ written' \in Seq(Item) /\ p' \in Seq(Nat) /\ input' \in Seq(Item)
        BY <1>0, <1>1 DEF SortInv, TypeInv, result, Printed
      <3>4. /\ {j, head, zeros, loop}' \subseteq Item \cup {Null}
            /\ qlink' \in [Item -> Item \cup {Null}]
        BY <1>1 DEF SortInv, TypeInv, queue
      <3>. QED BY <2>2, <3>1, <3>2, <3>3, <3>4 DEF TypeInv
    <2>4. ASSUME NEW x \in Item, NEW e \in Ids(top'[x])
          PROVE  /\ e \in 2 .. Len(input) /\ e < pos + 1
                 /\ input[e - 1] = x /\ {x, input[e]} \subseteq known \cup {k}
      <3>1. CASE x = j /\ e = pos
        BY <1>0, <3>1 DEF k
      <3>2. CASE e \in Ids(top[x])
        <4>1. /\ e \in 2 .. Len(input) /\ e < pos
              /\ input[e - 1] = x /\ {x, input[e]} \subseteq known
          BY <3>2 DEF SortInv, TopInv
        <4>2. e \in Int /\ pos \in Int  BY <1>0, <4>1
        <4>. QED BY <4>1, <4>2
      <3>. QED BY <2>2, <2>4, <3>1, <3>2
    <2>5. TopInv'
      <3>1. \A x \in Item : Distinct(top'[x])  BY <2>2 DEF SortInv, TopInv
      <3>. QED BY <1>1, <2>4, <3>1 DEF SortInv, TopInv
    <2>8. Printed = {} /\ Printed' = {}
      BY <1>0, <1>1 DEF Printed, result
    <2>9. ASSUME NEW x \in Item
          PROVE  Open(x)' = IF x = k THEN Open(x) \cup {pos} ELSE Open(x)
      <3>1. \A e : e \in Open(x) <=> e \in Listed /\ input[e] = x  BY <2>8 DEF Open
      <3>2. \A e : e \in Open(x)' <=> e \in Listed' /\ input[e] = x  BY <1>1, <2>8 DEF Open
      <3>3. CASE x = k
        <4>1. Open(x)' = Open(x) \cup {pos}  BY <2>2, <3>1, <3>2, <3>3, Zenon DEF k
        <4>. QED BY <3>3, <4>1
      <3>4. CASE x # k
        <4>1. Open(x)' = Open(x)  BY <2>2, <3>1, <3>2, <3>4, Zenon DEF k
        <4>. QED BY <3>4, <4>1
      <3>. QED BY <3>3, <3>4
    <2>10. CountInv'
      <3>. SUFFICES ASSUME NEW x \in Item  PROVE count'[x] = Cardinality(Open(x)')
        BY DEF CountInv
      <3>1. CASE x = k
        <4>1. count'[x] = count[x] + 1  BY <1>0, <1>5, <3>1 DEF SortInv, TypeInv
        <4>2. pos \notin Open(x)  BY <2>2 DEF Open
        <4>3. Cardinality(Open(x) \cup {pos}) = Cardinality(Open(x)) + 1
          BY <4>2, OpenFinite, FS_AddElement DEF SortInv
        <4>. QED BY <2>9, <3>1, <4>1, <4>3 DEF SortInv, CountInv
      <3>2. CASE x # k
        <4>1. count'[x] = count[x]  BY <1>0, <1>5, <3>2 DEF SortInv, TypeInv
        <4>. QED BY <2>9, <3>2, <4>1 DEF SortInv, CountInv
      <3>. QED BY <3>1, <3>2
    <2>11. PrintedInv'  BY <2>8 DEF PrintedInv
    <2>. QED BY <1>2, <1>3, <2>3, <2>5, <2>10, <2>11 DEF SortInv
  <1>. QED BY <1>1, <1>4, <1>5
------------------------------------------------------------------------------
(* Steps that go from one phase to another.                                 *)
LEMMA OddNumberOfTokensSafe ==
  ASSUME SortInv, OddNumberOfTokens
  PROVE  SortInv'
  <1>. USE DEF SortInv, OddNumberOfTokens, fields, queue, result
  <1>1. TypeInv'  BY DEF TypeInv, Printed
  <1>2. PhaseInv'  BY DEF PhaseInv
  <1>3. TopInv'
    <2>1. pos' \in Nat /\ pos <= pos'  BY DEF TypeInv
    <2>. QED BY <2>1, TopFrame
  <1>4. CountInv' /\ PrintedInv'  BY CountFrame
  <1>5. QueueInv' /\ TrailInv'  BY DEF QueueInv, TrailInv
  <1>. QED BY <1>1, <1>2, <1>3, <1>4, <1>5

(* count_items leaves the relations alone, and has every item to be         *)
(* scanned.                                                                 *)
LEMMA CountItemsSafe ==
  ASSUME SortInv, CountItems
  PROVE  SortInv'
  <1>. USE DEF SortInv, CountItems, fields, queue
  <1>1. TypeInv'  BY DEF TypeInv, Printed
  <1>2. PhaseInv'  BY DEF PhaseInv
  <1>3. TopInv'
    <2>1. pos' \in Nat /\ pos <= pos'  BY DEF TypeInv
    <2>. QED BY <2>1, TopFrame
  <1>4. CountInv' /\ PrintedInv'  BY CountFrame
  <1>5. head' = Null /\ \A x \in known' : qlink'[x] = Null /\ x # Null
    BY ItemFacts DEF PhaseInv, TypeInv
  <1>6. walk' \subseteq known' /\ Here' \subseteq known' /\ Unprinted' \subseteq known'
    BY <1>1, <1>5 DEF TypeInv, Here, Unprinted
  <1>7. QueueInv' /\ TrailInv'
    BY <1>5, <1>6 DEF QueueInv, TrailInv, HeadInv, LinkInv, WalkInv
  <1>. QED BY <1>1, <1>2, <1>3, <1>4, <1>7

(* After the scan the queue is as the scan left it.                         *)
LEMMA EndScanSafe ==
  ASSUME SortInv, EndScan
  PROVE  SortInv'
  <1>. USE DEF SortInv, EndScan, fields, queue, result
  <1>1. TypeInv'  BY DEF TypeInv, Printed
  <1>2. PhaseInv'  BY DEF PhaseInv
  <1>3. TopInv'
    <2>1. pos' \in Nat /\ pos <= pos'  BY DEF TypeInv
    <2>. QED BY <2>1, TopFrame
  <1>4. CountInv' /\ PrintedInv'  BY CountFrame
  <1>5. QueueInv' /\ TrailInv'
    BY DEF QueueInv, TrailInv, HeadInv, LinkInv, InChain, ClosedUnder, Here, Unprinted, Printed
  <1>. QED BY <1>1, <1>2, <1>3, <1>4, <1>5

(* With nothing in the queue, no item leads to another.                     *)
LEMMA NoLinks ==
  ASSUME HeadInv, LinkInv, head = Null
  PROVE  \A x \in Unprinted : qlink[x] = Null
  <1>. SUFFICES ASSUME NEW x \in Unprinted, qlink[x] # Null  PROVE FALSE
    OBVIOUS
  <1>1. InChain(x)  BY DEF LinkInv, Here
  <1>2. {} \in SUBSET known /\ ClosedUnder({})  BY DEF ClosedUnder
  <1>. QED BY <1>1, <1>2 DEF InChain

(* With the queue empty, no qlink is left for the search to stumble over.   *)
LEMMA EndOfProcessSafe ==
  ASSUME SortInv, EndOfProcess
  PROVE  SortInv'
  <1>. USE DEF SortInv, EndOfProcess, fields, queue
  <1>1. TypeInv'  BY DEF TypeInv, Printed
  <1>2. PhaseInv'  BY DEF PhaseInv
  <1>3. TopInv'
    <2>1. pos' \in Nat /\ pos <= pos'  BY DEF TypeInv
    <2>. QED BY <2>1, TopFrame
  <1>4. CountInv' /\ PrintedInv'  BY CountFrame
  <1>5. QueueInv'  BY DEF QueueInv
  <1>6. TrailInv'
    <2>1. \A x \in Unprinted' : qlink'[x] = Null
      BY NoLinks DEF QueueInv, Unprinted, Printed
    <2>2. loop' = Null  BY DEF PhaseInv
    <2>. QED BY <2>1, <2>2 DEF TrailInv
  <1>. QED BY <1>1, <1>2, <1>3, <1>4, <1>5, <1>6

(* A new scan begins with an empty queue.                                   *)
LEMMA BeginScan ==
  ASSUME TypeInv', head' = Null, \A x \in Unprinted' : qlink'[x] = Null
  PROVE  HeadInv' /\ LinkInv' /\ WalkInv'
  <1>1. Here' = Unprinted'  BY DEF Here
  <1>2. \A k \in walk' : k # Null /\ k \in known'  BY ItemFacts DEF TypeInv
  <1>. QED BY <1>1, <1>2 DEF HeadInv, LinkInv, WalkInv, Unprinted

(* A walk of the search that ends without a loop: if it found no item to    *)
(* start from, there is no trail.                                           *)
LEMMA EndWalkSafe ==
  ASSUME SortInv, EndWalk
  PROVE  SortInv'
  <1>. USE DEF SortInv, EndWalk, fields, queue, result
  <1>1. TypeInv'  BY DEF TypeInv, Printed
  <1>2. PhaseInv'  BY DEF PhaseInv
  <1>3. TopInv'
    <2>1. pos' \in Nat /\ pos <= pos'  BY DEF TypeInv
    <2>. QED BY <2>1, TopFrame
  <1>4. CountInv' /\ PrintedInv'  BY CountFrame
  <1>5. CASE loop = Null
    <2>1. head' = Null /\ \A x \in Unprinted' : qlink'[x] = Null
      BY <1>5 DEF PhaseInv, TrailInv, Unprinted, Printed
    <2>2. HeadInv' /\ LinkInv' /\ WalkInv'  BY <1>1, <2>1, BeginScan
    <2>. QED BY <1>1, <1>2, <1>3, <1>4, <1>5, <2>2 DEF QueueInv, TrailInv
  <1>6. CASE loop # Null
    <2>1. QueueInv'  BY <1>6 DEF QueueInv
    <2>2. TrailInv'
      BY <1>6 DEF TrailInv, Unprinted, Printed, Listed, ClosedUnder
    <2>. QED BY <1>1, <1>2, <1>3, <1>4, <2>1, <2>2
  <1>. QED BY <1>5, <1>6
------------------------------------------------------------------------------
(* What comes to the end of the queue is on the way from head.              *)
LEMMA Enqueue ==
  ASSUME TypeInv, HeadInv, LinkInv, head # Null, pc' = pc,
         NEW k \in Unprinted, k # head, k # zeros, qlink[k] = Null,
         \A x \in Here : qlink[x] # k,
         qlink' = [qlink EXCEPT ![zeros] = k], zeros' = k,
         UNCHANGED <<head, known, written>>,
         count'[k] = 0, \A x \in Item \ {k} : count'[x] = count[x]
  PROVE  HeadInv' /\ LinkInv'
  <1>1. /\ k \in Item /\ k # Null /\ zeros \in Item /\ head \in Item /\ zeros # Null
        /\ Here \subseteq Item /\ Unprinted \subseteq Here /\ zeros \in Here /\ head \in known
    BY ItemFacts DEF TypeInv, HeadInv, Here, Unprinted
  <1>2. /\ Unprinted' = Unprinted /\ Here' = Here /\ Printed' = Printed
    BY DEF Unprinted, Here, Printed
  <1>3. qlink'[zeros] = k /\ \A x \in Item \ {zeros} : qlink'[x] = qlink[x]
    BY <1>1 DEF TypeInv
  <1>4. qlink[zeros] = Null /\ count[zeros] = 0 /\ count[head] = 0 /\ (pc # "erase" => head \notin Printed)
        /\ InChain(zeros)
    BY DEF HeadInv
  <1>5. ASSUME NEW S \in SUBSET known, ClosedUnder(S)'
        PROVE  ClosedUnder(S)
    BY <1>1, <1>3, <1>4, <1>5 DEF ClosedUnder, TypeInv
  <1>6. \A x : InChain(x) => InChain(x)'
    BY <1>5 DEF InChain
  <1>7. InChain(k)'
    <2>. SUFFICES ASSUME NEW S \in SUBSET known, head \in S, ClosedUnder(S)'
                  PROVE  k \in S
      BY DEF InChain
    <2>1. zeros \in S  BY <1>4, <1>5 DEF InChain
    <2>. QED BY <1>1, <1>3, <2>1 DEF ClosedUnder
  <1>8. HeadInv'
    <2>1. k \in Here' /\ qlink'[k] = Null  BY <1>1, <1>2, <1>3
    <2>2. count'[head] = 0  BY <1>1, <1>4
    <2>. QED BY <1>1, <1>2, <1>4, <1>7, <2>1, <2>2 DEF HeadInv
  <1>9. ASSUME NEW x \in Here, qlink'[x] # Null
        PROVE  /\ count'[x] = 0 /\ InChain(x)'
               /\ qlink'[x] \in Unprinted /\ qlink'[x] # head /\ count'[qlink'[x]] = 0
    <2>1. CASE x = zeros  BY <1>1, <1>3, <1>4, <1>6, <2>1
    <2>2. CASE x # zeros
      <3>1. qlink'[x] = qlink[x] /\ x \in Item  BY <1>1, <1>3, <2>2
      <3>2. /\ count[x] = 0 /\ InChain(x)
            /\ qlink[x] \in Unprinted /\ qlink[x] # head /\ count[qlink[x]] = 0
        BY <1>9, <3>1 DEF LinkInv
      <3>3. x # k /\ qlink[x] # k  BY <1>9, <3>1
      <3>4. qlink[x] \in Item  BY <1>1, <3>2
      <3>. QED BY <1>6, <3>1, <3>2, <3>3, <3>4
    <2>. QED BY <2>1, <2>2
  <1>10. ASSUME NEW x \in Here, NEW y \in Here, qlink'[x] # Null, qlink'[x] = qlink'[y]
         PROVE  x = y
    <2>1. CASE x = zeros /\ y # zeros  BY <1>1, <1>3, <1>10, <2>1
    <2>2. CASE x # zeros /\ y = zeros  BY <1>1, <1>3, <1>10, <2>2
    <2>3. CASE x # zeros /\ y # zeros  BY <1>1, <1>3, <1>10, <2>3 DEF LinkInv
    <2>. QED BY <2>1, <2>2, <2>3
  <1>11. LinkInv'
    BY <1>2, <1>9, <1>10 DEF LinkInv
  <1>. QED BY <1>8, <1>11

(* scan_zeros                                                               *)
LEMMA ScanSafe ==
  ASSUME SortInv, NEW k \in Item, Scan(k)
  PROVE  SortInv'
  <1>. USE DEF SortInv
  <1>0. /\ pc = "scan" /\ pc' = pc /\ k \in walk /\ walk' = walk \ {k} /\ k \in known
        /\ UNCHANGED <<input, pos, j, known, count, top, loop, p, written>>
        /\ HeadInv /\ LinkInv /\ WalkInv
    BY DEF Scan, Visits, result, QueueInv, TypeInv
  <1>1. TypeInv'
    <2>1. zeros' \in Item \cup {Null} /\ head' \in Item \cup {Null}
      BY DEF Scan, TypeInv, queue
    <2>2. qlink' \in [Item -> Item \cup {Null}]
      BY DEF Scan, TypeInv, queue
    <2>. QED BY <1>0, <2>1, <2>2 DEF TypeInv, Printed
  <1>2. PhaseInv'  BY <1>0 DEF PhaseInv
  <1>3. TopInv'
    <2>1. pos' \in Nat /\ pos <= pos'  BY <1>0 DEF TypeInv
    <2>. QED BY <1>0, <2>1, TopFrame
  <1>4. CountInv' /\ PrintedInv'  BY <1>0, CountFrame
  <1>5. TrailInv'  BY <1>0 DEF TrailInv
  <1>6. CASE UNCHANGED <<qlink, head, zeros>>
    <2>1. Here' = Here /\ Unprinted' = Unprinted /\ Printed' = Printed
      BY <1>0, <1>6 DEF Here, Unprinted, Printed
    <2>2. HeadInv' /\ LinkInv'
      BY <1>0, <1>6, <2>1 DEF HeadInv, LinkInv, InChain, ClosedUnder
    <2>3. WalkInv'  BY <1>0, <1>6, <2>1 DEF WalkInv
    <2>. QED BY <1>0, <1>1, <1>2, <1>3, <1>4, <1>5, <2>2, <2>3 DEF QueueInv
  <1>7. CASE IsZero(k) /\ head = Null /\ head' = k /\ UNCHANGED qlink /\ zeros' = k
    <2>1. k \in Unprinted /\ k # Null /\ k \notin Printed /\ count[k] = 0 /\ qlink[k] = Null
      BY <1>0, <1>7, ItemFacts DEF IsZero, Unprinted, WalkInv
    <2>2. \A x \in Unprinted : qlink[x] = Null  BY <1>0, <1>7, NoLinks
    <2>3. Here' = Unprinted /\ Unprinted' = Unprinted /\ Printed' = Printed
      BY <1>0, <1>7, <2>1 DEF Here, Unprinted, Printed
    <2>4. InChain(k)'  BY <1>7, <2>1 DEF InChain
    <2>5. HeadInv'  BY <1>0, <1>7, <2>1, <2>3, <2>4 DEF HeadInv
    <2>6. LinkInv'  BY <1>0, <1>7, <2>2, <2>3 DEF LinkInv
    <2>7. WalkInv'
      <3>1. \A x \in walk' : x # k /\ x # Null  BY <1>0, ItemFacts DEF TypeInv
      <3>. QED BY <1>7, <2>2, <2>3, <3>1 DEF WalkInv
    <2>. QED BY <1>0, <1>1, <1>2, <1>3, <1>4, <1>5, <2>5, <2>6, <2>7 DEF QueueInv
  <1>8. CASE IsZero(k) /\ head # Null /\ qlink' = [qlink EXCEPT ![zeros] = k] /\ UNCHANGED head /\ zeros' = k
    <2>1. /\ k \in Unprinted /\ k \notin Printed /\ count[k] = 0 /\ qlink[k] = Null
          /\ k # head /\ k # zeros /\ \A x \in Here : qlink[x] # k
      BY <1>0, <1>8 DEF IsZero, Unprinted, WalkInv
    <2>2. HeadInv' /\ LinkInv'  BY <1>0, <1>8, <2>1, Enqueue
    <2>3. Here' = Here /\ Unprinted' = Unprinted /\ Here \subseteq Item /\ zeros \in Item
      BY <1>0, <1>8 DEF Here, Unprinted, Printed, TypeInv, HeadInv
    <2>4. qlink'[zeros] = k /\ \A x \in Item \ {zeros} : qlink'[x] = qlink[x]
      BY <1>8, <2>3 DEF TypeInv
    <2>5. WalkInv'
      <3>. SUFFICES ASSUME NEW x \in walk, x # k
                    PROVE  /\ x # head' /\ x # zeros'
                           /\ x \in Unprinted' => qlink'[x] = Null
                           /\ \A y \in Here' : qlink'[y] # x
        BY <1>0 DEF WalkInv
      <3>1. /\ x # head /\ x # zeros
            /\ x \in Unprinted => qlink[x] = Null
            /\ \A y \in Here : qlink[y] # x
            /\ x \in Item
        BY <1>0, <1>8 DEF WalkInv, TypeInv
      <3>2. x \in Unprinted' => qlink'[x] = Null  BY <2>3, <2>4, <3>1
      <3>3. \A y \in Here' : qlink'[y] # x  BY <2>3, <2>4, <3>1
      <3>. QED BY <1>8, <3>1, <3>2, <3>3
    <2>. QED BY <1>0, <1>1, <1>2, <1>3, <1>4, <1>5, <2>2, <2>5 DEF QueueInv
  <1>. QED BY <1>6, <1>7, <1>8 DEF Scan, queue
------------------------------------------------------------------------------
(* The first of the queue is written; its successors are still to be erased *)
(* and so the relations to them open.                                       *)
LEMMA OutputSafe ==
  ASSUME SortInv, Output
  PROVE  SortInv'
  <1>. USE DEF SortInv
  <1>0. /\ pc = "queue" /\ pc' = "erase" /\ head # Null /\ p' = top[head] /\ p = <<>>
        /\ written' = Append(written, head)
        /\ UNCHANGED <<input, pos, j, known, count, top, qlink, head, zeros, loop, walk>>
        /\ HeadInv /\ LinkInv
    BY DEF Output, fields, queue, QueueInv, PhaseInv
  <1>1. head \in known /\ head \in Item /\ count[head] = 0 /\ head \notin Printed
    BY <1>0 DEF HeadInv, TypeInv
  <1>2. Printed' = Printed \cup {head} /\ written' \in Seq(Item)
    <2>1. /\ Len(written) \in Nat /\ DOMAIN written = 1 .. Len(written)
          /\ written' \in Seq(Item) /\ DOMAIN written' = 1 .. Len(written) + 1
          /\ \A i \in 1 .. Len(written) : written'[i] = written[i]
          /\ written'[Len(written) + 1] = head
      BY <1>0, <1>1, AppendProperties, LenProperties DEF TypeInv
    <2>2. \A i \in 1 .. Len(written) + 1 : i \in 1 .. Len(written) \/ i = Len(written) + 1
      BY <2>1
    <2>3. \A i \in 1 .. Len(written) : i \in 1 .. Len(written) + 1
      BY <2>1
    <2>4. Len(written) + 1 \in 1 .. Len(written) + 1
      BY <2>1
    <2>. QED BY <2>1, <2>2, <2>3, <2>4, Zenon DEF Printed
  <1>3. TypeInv'
    <2>1. p' \in Seq(Nat)  BY <1>0, <1>1 DEF TypeInv
    <2>. QED BY <1>0, <1>1, <1>2, <2>1 DEF TypeInv
  <1>4. PhaseInv'  BY <1>0, <1>2 DEF PhaseInv
  <1>5. TopInv'
    <2>1. Distinct(p')  BY <1>0, <1>1 DEF TopInv
    <2>. QED BY <1>0, <2>1 DEF TopInv
  <1>6. Listed' = Listed  BY <1>0 DEF Listed
  <1>7. \A k : Open(k)' = Open(k)
    <2>. SUFFICES ASSUME NEW k, NEW e \in Listed, input[e] = k
                  PROVE  (input[e - 1] \notin Printed' \/ e \in Ids(p'))
                         <=> (input[e - 1] \notin Printed \/ e \in Ids(p))
      BY <1>0, <1>6 DEF Open
    <2>1. Ids(p) = {}  BY <1>0 DEF Ids
    <2>2. CASE input[e - 1] = head
      <3>1. e \in Ids(p')  BY <1>0, <2>2, ListedFacts
      <3>. QED BY <1>1, <2>2, <3>1
    <2>3. CASE input[e - 1] # head
      <3>1. e \notin Ids(p')  BY <1>0, <1>1, <2>3, ListedFacts
      <3>. QED BY <1>2, <2>1, <2>3, <3>1
    <2>. QED BY <2>2, <2>3
  <1>8. CountInv'  BY <1>0, <1>7 DEF CountInv
  <1>9. PrintedInv'  BY <1>0, <1>1, <1>2 DEF PrintedInv
  <1>10. Here' = Here /\ Unprinted' = Unprinted \ {head}
    BY <1>0, <1>1, <1>2 DEF Here, Unprinted
  <1>11. \A x : InChain(x)' = InChain(x)  BY <1>0 DEF InChain, ClosedUnder
  <1>12. HeadInv'  BY <1>0, <1>10, <1>11 DEF HeadInv
  <1>13. LinkInv'  BY <1>0, <1>10, <1>11 DEF LinkInv
  <1>14. QueueInv' /\ TrailInv'  BY <1>0, <1>12, <1>13 DEF QueueInv, TrailInv
  <1>. QED BY <1>3, <1>4, <1>5, <1>8, <1>9, <1>14

(* Erasing a relation closes it, and the last one queues the item after it. *)
LEMMA EraseRelationSafe ==
  ASSUME SortInv, EraseRelation
  PROVE  SortInv'
  <1>. USE DEF SortInv
  <1>. DEFINE e == Head(p)
              k == input[e]
  <1>0. /\ pc = "erase" /\ pc' = "erase" /\ p # <<>> /\ p' = Tail(p)
        /\ count' = [count EXCEPT ![k] = @ - 1]
        /\ UNCHANGED <<input, pos, j, known, top, head, loop, walk, written>>
        /\ \/ /\ count[k] = 1
              /\ qlink' = [qlink EXCEPT ![zeros] = k]
              /\ zeros' = k
           \/ count[k] # 1 /\ UNCHANGED <<qlink, zeros>>
        /\ HeadInv /\ LinkInv
    BY DEF EraseRelation, IsLast, QueueInv, result
  <1>1. head # Null /\ head \in Item /\ head \in Printed
    BY <1>0, ItemFacts DEF PhaseInv, TypeInv
  <1>2. /\ p' \in Seq(Nat) /\ Distinct(p') /\ Ids(p') = Ids(p) \ {e} /\ e \in Ids(p)
        /\ Ids(p) \subseteq Ids(top[head])
    BY <1>0, PopFacts DEF TypeInv, TopInv
  <1>3. /\ e \in Listed /\ input[e - 1] = head /\ k \in Item /\ k \in known
    BY <1>1, <1>2, ListedFacts
  <1>. HIDE DEF e, k
  <1>4. Listed' = Listed /\ Printed' = Printed  BY <1>0 DEF Listed, Printed
  <1>5. ASSUME NEW x
        PROVE  Open(x)' = IF x = k THEN Open(x) \ {e} ELSE Open(x)
    <2>1. ASSUME NEW f
          PROVE  f \in Open(x)' <=> f \in Open(x) /\ f # e
      <3>1. f \in Open(x)' <=> f \in Listed /\ input[f] = x /\ (input[f - 1] \notin Printed \/ f \in Ids(p'))
        BY <1>0, <1>4 DEF Open
      <3>2. f \in Open(x) <=> f \in Listed /\ input[f] = x /\ (input[f - 1] \notin Printed \/ f \in Ids(p))
        BY DEF Open
      <3>3. CASE f = e  BY <1>1, <1>2, <1>3, <3>1, <3>3
      <3>4. CASE f # e  BY <1>2, <3>1, <3>2, <3>4
      <3>. QED BY <3>3, <3>4
    <2>2. CASE x = k
      <3>1. Open(x)' = Open(x) \ {e}  BY <2>1, Zenon
      <3>. QED BY <2>2, <3>1
    <2>3. CASE x # k
      <3>1. e \notin Open(x)  BY <2>3 DEF Open, k
      <3>2. Open(x)' = Open(x)  BY <2>1, <3>1, Zenon
      <3>. QED BY <2>3, <3>2
    <2>. QED BY <2>2, <2>3
  <1>6. e \in Open(k)
    BY <1>2, <1>3 DEF Open, k
  <1>7. count[k] \in Int /\ count[k] # 0 /\ count'[k] = count[k] - 1
        /\ (\A x \in Item \ {k} : count'[x] = count[x]) /\ count' \in [Item -> Int]
    <2>1. count[k] # 0
      BY <1>3, <1>6, OpenFinite, FS_EmptySet DEF CountInv
    <2>2. count[k] \in Int /\ count'[k] = count[k] - 1  BY <1>0, <1>3 DEF TypeInv
    <2>3. \A x \in Item \ {k} : count'[x] = count[x]  BY <1>0 DEF TypeInv
    <2>4. count' \in [Item -> Int]
      <3>1. count \in [Item -> Int] /\ count' = [count EXCEPT ![k] = count[k] - 1]
        BY <1>0 DEF TypeInv
      <3>2. count[k] - 1 \in Int  BY <2>2
      <3>. QED BY <3>1, <3>2
    <2>. QED BY <2>1, <2>2, <2>3, <2>4
  <1>8. TypeInv'
    <2>1. zeros' \in Item \cup {Null} /\ qlink' \in [Item -> Item \cup {Null}]
      BY <1>0, <1>3 DEF TypeInv
    <2>2. /\ input' \in Seq(Item) /\ pos' \in Nat \ {0}
          /\ {j, head, zeros, loop}' \subseteq Item \cup {Null}
          /\ known' \subseteq Item /\ walk' \subseteq known'
      BY <1>0, <2>1 DEF TypeInv
    <2>3. top' \in [Item -> Seq(Nat)] /\ written' \in Seq(Item) /\ Printed' \subseteq known'
      BY <1>0, <1>4 DEF TypeInv
    <2>. QED BY <1>2, <1>7, <2>1, <2>2, <2>3 DEF TypeInv
  <1>9. PhaseInv'  BY <1>0, <1>4 DEF PhaseInv
  <1>10. TopInv'  BY <1>0, <1>2 DEF TopInv
  <1>11. CountInv'
    <2>. SUFFICES ASSUME NEW x \in Item  PROVE count'[x] = Cardinality(Open(x)')
      BY DEF CountInv
    <2>1. CASE x = k
      <3>1. Cardinality(Open(k) \ {e}) = Cardinality(Open(k)) - 1
        BY <1>6, OpenFinite, FS_RemoveElement
      <3>2. Open(x)' = Open(k) \ {e}  BY <1>5, <2>1
      <3>. QED BY <1>3, <1>7, <2>1, <3>1, <3>2 DEF CountInv
    <2>2. CASE x # k
      <3>1. Open(x)' = Open(x)  BY <1>5, <2>2
      <3>. QED BY <1>7, <2>2, <3>1 DEF CountInv
    <2>. QED BY <2>1, <2>2
  <1>12. k \notin Printed
    BY <1>7 DEF PrintedInv
  <1>13. PrintedInv'
    <2>1. \A x \in Printed : x \in Item /\ x # k  BY <1>12 DEF TypeInv
    <2>. QED BY <1>4, <1>7, <2>1 DEF PrintedInv
  <1>14. /\ k \in Unprinted /\ k # head /\ k # zeros /\ qlink[k] = Null
         /\ \A x \in Here : qlink[x] # k
    <2>1. k \in Unprinted /\ k # head  BY <1>1, <1>3, <1>12 DEF Unprinted
    <2>2. k # zeros  BY <1>0, <1>1, <1>7 DEF HeadInv
    <2>3. k \in Here  BY <2>1 DEF Here
    <2>4. k # Null  BY <1>3, ItemFacts
    <2>. QED BY <1>0, <1>7, <2>1, <2>2, <2>3, <2>4 DEF LinkInv
  <1>15. HeadInv' /\ LinkInv'
    <2>1. CASE count[k] = 1 /\ qlink' = [qlink EXCEPT ![zeros] = k] /\ zeros' = k
      <3>1. count'[k] = 0  BY <1>7, <2>1
      <3>. QED BY <1>0, <1>1, <1>7, <1>14, <2>1, <3>1, Enqueue
    <2>2. CASE UNCHANGED <<qlink, zeros>>
      <3>1. Here' = Here /\ Unprinted' = Unprinted /\ Here \subseteq Item /\ zeros \in Item
        BY <1>0, <1>1, <1>4 DEF Here, Unprinted, TypeInv, HeadInv
      <3>2. \A x : InChain(x)' = InChain(x)  BY <1>0, <2>2 DEF InChain, ClosedUnder
      <3>3. HeadInv'
        <4>1. count'[head] = 0 /\ count'[zeros] = 0  BY <1>0, <1>1, <1>7, <1>14, <3>1 DEF HeadInv
        <4>. QED BY <1>0, <2>2, <3>1, <3>2, <4>1 DEF HeadInv
      <3>4. LinkInv'
        <4>. SUFFICES ASSUME NEW x \in Here, qlink[x] # Null
                      PROVE  /\ count'[x] = 0 /\ InChain(x)
                             /\ qlink[x] \in Unprinted /\ qlink[x] # head /\ count'[qlink[x]] = 0
          BY <1>0, <2>2, <3>1, <3>2 DEF LinkInv
        <4>1. /\ count[x] = 0 /\ InChain(x)
              /\ qlink[x] \in Unprinted /\ qlink[x] # head /\ count[qlink[x]] = 0
          BY <1>0 DEF LinkInv
        <4>2. x \in Item \ {k} /\ qlink[x] \in Item \ {k}
          BY <1>14, <3>1, <4>1 DEF Unprinted, TypeInv
        <4>. QED BY <1>7, <4>1, <4>2
      <3>. QED BY <3>3, <3>4
    <2>. QED BY <1>0, <2>1, <2>2
  <1>16. QueueInv' /\ TrailInv'  BY <1>0, <1>15 DEF QueueInv, TrailInv
  <1>. QED BY <1>8, <1>9, <1>10, <1>11, <1>13, <1>16

(* The next of the queue comes first.                                       *)
LEMMA RemoveFromQueueSafe ==
  ASSUME SortInv, RemoveFromQueue
  PROVE  SortInv'
  <1>. USE DEF SortInv
  <1>0. /\ pc = "erase" /\ pc' = "queue" /\ p = <<>> /\ head' = qlink[head]
        /\ UNCHANGED <<input, pos, j, known, count, top, qlink, zeros, loop, walk, p, written>>
        /\ HeadInv /\ LinkInv
    BY DEF RemoveFromQueue, QueueInv, fields, result
  <1>1. head # Null /\ head \in Item /\ head \in Printed /\ head \in Here /\ head \in known
    BY <1>0, ItemFacts DEF PhaseInv, TypeInv, Here
  <1>2. head' # Null => head' \in Unprinted /\ head' # head /\ count[head'] = 0
    BY <1>0, <1>1 DEF LinkInv
  <1>3. TypeInv'
    <2>1. head' \in Item \cup {Null}  BY <1>0, <1>1 DEF TypeInv
    <2>. QED BY <1>0, <2>1 DEF TypeInv, Printed
  <1>4. PhaseInv'  BY <1>0 DEF PhaseInv
  <1>5. TopInv'
    <2>1. pos' \in Nat /\ pos <= pos'  BY <1>0 DEF TypeInv
    <2>. QED BY <1>0, <2>1, TopFrame
  <1>6. CountInv' /\ PrintedInv'  BY <1>0, CountFrame
  <1>7. Unprinted' = Unprinted /\ Here' = Unprinted /\ Here = Unprinted \cup {head} /\ Printed' = Printed
    BY <1>0, <1>1, <1>2 DEF Unprinted, Here, Printed
  <1>8. ASSUME NEW x \in Unprinted, InChain(x)
        PROVE  InChain(x)'
    <2>. SUFFICES ASSUME NEW S \in SUBSET known, head' # Null => head' \in S, ClosedUnder(S)
                  PROVE  x \in S
      BY <1>0 DEF InChain, ClosedUnder
    <2>1. S \cup {head} \in SUBSET known /\ ClosedUnder(S \cup {head})
      BY <1>0, <1>1 DEF ClosedUnder
    <2>2. x \in S \cup {head}  BY <1>8, <2>1 DEF InChain
    <2>3. x # head  BY <1>1 DEF Unprinted
    <2>. QED BY <2>2, <2>3
  <1>9. HeadInv'
    <2>. SUFFICES ASSUME head' # Null  PROVE HeadInv'
      BY DEF HeadInv
    <2>1. zeros \in Here /\ qlink[zeros] = Null /\ count[zeros] = 0 /\ InChain(zeros)
      BY <1>0, <1>1 DEF HeadInv
    <2>2. zeros \in Unprinted  BY <1>0, <1>7, <2>1
    <2>3. head' \in known /\ head' \notin Printed  BY <1>2 DEF Unprinted
    <2>. QED BY <1>0, <1>2, <1>7, <1>8, <2>1, <2>2, <2>3 DEF HeadInv
  <1>10. LinkInv'
    <2>1. ASSUME NEW x \in Unprinted, qlink[x] # Null
          PROVE  /\ count[x] = 0 /\ InChain(x)'
                 /\ qlink[x] \in Unprinted /\ qlink[x] # head' /\ count[qlink[x]] = 0
      <3>1. /\ count[x] = 0 /\ InChain(x)
            /\ qlink[x] \in Unprinted /\ count[qlink[x]] = 0
        BY <1>0, <1>7, <2>1 DEF LinkInv
      <3>2. x # head  BY <1>1 DEF Unprinted
      <3>3. qlink[x] # head'  BY <1>0, <1>7, <2>1, <3>2 DEF LinkInv
      <3>. QED BY <1>8, <3>1, <3>3
    <2>2. \A x, y \in Unprinted : qlink[x] # Null /\ qlink[x] = qlink[y] => x = y
      BY <1>0, <1>7 DEF LinkInv
    <2>. QED BY <1>0, <1>7, <2>1, <2>2 DEF LinkInv
  <1>11. QueueInv' /\ TrailInv'  BY <1>0, <1>9, <1>10 DEF QueueInv, TrailInv
  <1>. QED BY <1>3, <1>4, <1>5, <1>6, <1>11
------------------------------------------------------------------------------
(* The search for a loop.                                                   *)
LEMMA DetectFrame ==
  ASSUME SortInv, NEW k \in Item, pc = "detect", Visits(k), pc' = "detect",
         UNCHANGED <<input, pos, j, known, queue, p, result>>, UNCHANGED <<count, top>>,
         loop' \in Item \cup {Null}, qlink' \in [Item -> Item \cup {Null}],
         walk' = walk \ {k}, TrailInv'
  PROVE  SortInv'
  <1>. USE DEF SortInv, queue, result
  <1>1. TypeInv'  BY DEF TypeInv, Printed
  <1>2. PhaseInv'  BY DEF PhaseInv
  <1>3. TopInv'
    <2>1. pos' \in Nat /\ pos <= pos'  BY DEF TypeInv
    <2>. QED BY <2>1, TopFrame
  <1>4. CountInv' /\ PrintedInv'  BY CountFrame
  <1>5. QueueInv'  BY DEF QueueInv
  <1>. QED BY <1>1, <1>2, <1>3, <1>4, <1>5

(* The trail starts with one item, which is not out.                        *)
LEMMA StartTrailSafe ==
  ASSUME SortInv, NEW k \in Item, Detect(k), StartTrail(k)
  PROVE  SortInv'
  <1>. USE DEF SortInv, Detect, StartTrail, fields
  <1>1. k \in Unprinted
    <2>1. k \notin Printed  BY DEF PrintedInv
    <2>. QED BY <2>1 DEF Unprinted, Visits, TypeInv
  <1>2. \A x \in Unprinted : qlink[x] = Null  BY DEF TrailInv
  <1>3. Unprinted' = Unprinted  BY DEF Unprinted, Printed, result
  <1>4. TrailInv'  BY <1>1, <1>2, <1>3 DEF TrailInv
  <1>. QED BY <1>4, DetectFrame DEF TypeInv

(* From the item that leads to loop, loop and all that it leads to follow.  *)
LEMMA ExtendTrailSafe ==
  ASSUME SortInv, NEW k \in Item, Detect(k), ExtendTrail(k)
  PROVE  SortInv'
  <1>. USE DEF SortInv
  <1>0. /\ pc = "detect" /\ pc' = "detect" /\ Visits(k) /\ walk' = walk \ {k}
        /\ UNCHANGED <<input, pos, j, known, queue, p, result>> /\ UNCHANGED <<count, top>>
        /\ count[k] > 0 /\ loop # Null /\ Leads(k, loop) # {} /\ qlink[k] = Null
        /\ qlink' = [qlink EXCEPT ![k] = loop] /\ loop' = k
    BY DEF Detect, ExtendTrail
  <1>1. k \in Unprinted /\ loop \in Unprinted /\ loop \in Item
    <2>1. k \notin Printed  BY <1>0 DEF PrintedInv
    <2>. QED BY <1>0, <2>1 DEF Unprinted, Visits, TypeInv, TrailInv
  <1>2. \E e \in Listed : input[e - 1] = k /\ input[e] = loop
    <2>1. PICK i \in DOMAIN top[k] : input[top[k][i]] = loop  BY <1>0 DEF Leads
    <2>2. top[k][i] \in Ids(top[k])  BY DEF Ids
    <2>. QED BY <2>1, <2>2, ListedFacts
  <1>3. /\ Unprinted' = Unprinted /\ Listed' = Listed /\ Printed' = Printed /\ Unprinted \subseteq Item
    BY <1>0 DEF Unprinted, Printed, Listed, result, TypeInv
  <1>4. qlink'[k] = loop /\ \A x \in Item \ {k} : qlink'[x] = qlink[x]
    BY <1>0 DEF TypeInv
  <1>5. ASSUME NEW S \in SUBSET known, k \in S, ClosedUnder(S)'
        PROVE  ClosedUnder(S) /\ loop \in S
    <2>1. loop \in S  BY <1>0, <1>4, <1>5 DEF ClosedUnder
    <2>2. \A y \in S : y \in Item  BY DEF TypeInv
    <2>. QED BY <1>0, <1>4, <1>5, <2>1, <2>2 DEF ClosedUnder
  <1>6. TrailInv'
    <2>. SUFFICES ASSUME NEW x \in Unprinted, qlink'[x] # Null
                  PROVE  /\ qlink'[x] \in Unprinted
                         /\ \E e \in Listed : input[e - 1] = x /\ input[e] = qlink'[x]
                         /\ \A S \in SUBSET known : k \in S /\ ClosedUnder(S)' => x \in S
      BY <1>0, <1>1, <1>3, ItemFacts DEF TrailInv
    <2>1. CASE x = k  BY <1>1, <1>2, <1>4, <2>1
    <2>2. CASE x # k
      <3>1. qlink'[x] = qlink[x]  BY <1>3, <1>4, <2>2
      <3>2. /\ qlink[x] \in Unprinted
            /\ \E e \in Listed : input[e - 1] = x /\ input[e] = qlink[x]
            /\ \A S \in SUBSET known : loop \in S /\ ClosedUnder(S) => x \in S
        BY <1>0, <3>1 DEF TrailInv
      <3>. QED BY <1>5, <3>1, <3>2
    <2>. QED BY <2>1, <2>2
  <1>7. loop' \in Item \cup {Null} /\ qlink' \in [Item -> Item \cup {Null}]
    BY <1>0, <1>1 DEF TypeInv
  <1>. QED BY <1>0, <1>6, <1>7, DetectFrame

(* detect_loop passes an item by.                                           *)
LEMMA PassSafe ==
  ASSUME SortInv, NEW k \in Item, Detect(k), Pass(k)
  PROVE  SortInv'
  <1>. USE DEF SortInv, Detect, Pass, fields
  <1>1. TrailInv'  BY DEF TrailInv, Unprinted, Printed, Listed, ClosedUnder, result
  <1>. QED BY <1>1, DetectFrame DEF TypeInv

(* What detect_loop removes, if it removes something.                       *)
LEMMA BrokenRelation ==
  ASSUME SortInv, NEW k \in Item, pc = "detect", BreakLoop(k)
  PROVE  \/ UNCHANGED <<count, top>>
         \/ \E e \in Listed :
              /\ input[e - 1] = k /\ input[e] = loop /\ e \in Ids(top[k]) /\ k \in Trail
              /\ top' \in [Item -> Seq(Nat)]
              /\ Distinct(top'[k]) /\ Ids(top'[k]) = Ids(top[k]) \ {e}
              /\ \A x \in Item \ {k} : top'[x] = top[x]
              /\ count' = [count EXCEPT ![loop] = @ - 1]
  <1>. USE DEF SortInv
  <1>. SUFFICES ASSUME ~UNCHANGED <<count, top>>
                PROVE  \E e \in Listed :
                         /\ input[e - 1] = k /\ input[e] = loop /\ e \in Ids(top[k]) /\ k \in Trail
                         /\ top' \in [Item -> Seq(Nat)]
                         /\ Distinct(top'[k]) /\ Ids(top'[k]) = Ids(top[k]) \ {e}
                         /\ \A x \in Item \ {k} : top'[x] = top[x]
                         /\ count' = [count EXCEPT ![loop] = @ - 1]
    OBVIOUS
  <1>1. PICK i \in Leads(k, loop) :
          top' = [top EXCEPT ![k] = SubSeq(@, 1, i - 1) \o SubSeq(@, i + 1, Len(@))]
    BY DEF BreakLoop
  <1>2. k \in Trail /\ count' = [count EXCEPT ![loop] = @ - 1]
    BY DEF BreakLoop
  <1>3. i \in DOMAIN top[k] /\ input[top[k][i]] = loop  BY DEF Leads
  <1>4. top[k] \in Seq(Nat) /\ Distinct(top[k])  BY DEF TypeInv, TopInv
  <1>5. top[k][i] \in Ids(top[k])  BY <1>3 DEF Ids
  <1>6. top[k][i] \in Listed /\ input[top[k][i] - 1] = k  BY <1>5, ListedFacts
  <1>. DEFINE t == SubSeq(top[k], 1, i - 1) \o SubSeq(top[k], i + 1, Len(top[k]))
  <1>7. t \in Seq(Nat) /\ Distinct(t) /\ Ids(t) = Ids(top[k]) \ {top[k][i]}
    BY <1>3, <1>4, RemoveFacts
  <1>8. top' = [top EXCEPT ![k] = t]  BY <1>1
  <1>. HIDE DEF t
  <1>9. top'[k] = t /\ (\A x \in Item \ {k} : top'[x] = top[x]) /\ top' \in [Item -> Seq(Nat)]
    BY <1>7, <1>8 DEF TypeInv
  <1>. QED BY <1>2, <1>3, <1>5, <1>6, <1>7, <1>9

(* After a loop has been broken nothing of the trail is left, and the count *)
(* is of the relations that are left.                                       *)
LEMMA BreakLoopSafe ==
  ASSUME SortInv, NEW k \in Item, Detect(k), BreakLoop(k)
  PROVE  SortInv'
  <1>. USE DEF SortInv
  <1>0. /\ pc = "detect" /\ pc' = "scan" /\ k \in known /\ walk' = known
        /\ UNCHANGED <<input, pos, j, known, head, zeros, p, written>>
        /\ count[k] > 0 /\ loop # Null
        /\ qlink' = TidiedUp /\ loop' = Null
        /\ head = Null /\ p = <<>>
    BY DEF Detect, BreakLoop, queue, result, Visits, TypeInv, PhaseInv
  <1>1. loop \in Item /\ loop \in known /\ loop \notin Printed /\ k \notin Printed
    BY <1>0 DEF TrailInv, Unprinted, TypeInv, PrintedInv
  <1>2. Printed' = Printed /\ Unprinted' = Unprinted  BY <1>0 DEF Printed, Unprinted
  <1>3. \A x \in Unprinted' : qlink'[x] = Null
    <2>. SUFFICES ASSUME NEW x \in Unprinted  PROVE qlink'[x] = Null
      BY <1>2
    <2>1. x \in Item /\ x \in known  BY DEF Unprinted, TypeInv
    <2>2. CASE qlink[x] = Null  BY <1>0, <2>1, <2>2 DEF TidiedUp
    <2>3. CASE qlink[x] # Null
      <3>1. x \in Trail  BY <1>0, <2>1, <2>3 DEF TrailInv, Trail, ClosedUnder
      <3>. QED BY <1>0, <2>1, <3>1 DEF TidiedUp
    <2>. QED BY <2>2, <2>3
  <1>4. qlink' \in [Item -> Item \cup {Null}]
    BY <1>0 DEF TidiedUp, TypeInv
  <1>5. PhaseInv'  BY <1>0 DEF PhaseInv
  <1>6. CASE UNCHANGED <<count, top>>
    <2>1. TypeInv'  BY <1>0, <1>2, <1>4, <1>6 DEF TypeInv
    <2>2. TopInv'
      <3>1. pos' \in Nat /\ pos <= pos'  BY <1>0 DEF TypeInv
      <3>. QED BY <1>0, <1>6, <3>1, TopFrame
    <2>3. CountInv' /\ PrintedInv'  BY <1>0, <1>6, CountFrame
    <2>4. QueueInv' /\ TrailInv'
      BY <1>0, <1>3, <2>1, BeginScan DEF QueueInv, TrailInv
    <2>. QED BY <1>5, <2>1, <2>2, <2>3, <2>4
  <1>7. ASSUME NEW e \in Listed,
               input[e - 1] = k, input[e] = loop, e \in Ids(top[k]),
               top' \in [Item -> Seq(Nat)],
               Distinct(top'[k]), Ids(top'[k]) = Ids(top[k]) \ {e},
               \A x \in Item \ {k} : top'[x] = top[x],
               count' = [count EXCEPT ![loop] = @ - 1]
        PROVE  SortInv'
    <2>1. /\ count' \in [Item -> Int] /\ count[loop] \in Int /\ count'[loop] = count[loop] - 1
          /\ \A x \in Item \ {loop} : count'[x] = count[x]
      <3>1. count[loop] \in Int /\ count'[loop] = count[loop] - 1  BY <1>1, <1>7 DEF TypeInv
      <3>2. \A x \in Item \ {loop} : count'[x] = count[x]  BY <1>7 DEF TypeInv
      <3>3. count' \in [Item -> Int]
        <4>1. count[loop] - 1 \in Int  BY <3>1
        <4>. QED BY <1>7, <4>1 DEF TypeInv
      <3>. QED BY <3>1, <3>2, <3>3
    <2>2. TypeInv'
      <3>1. /\ {j, head, zeros, loop}' \subseteq Item \cup {Null}
            /\ known' \subseteq Item /\ walk' \subseteq known' /\ Printed' \subseteq known'
        BY <1>0, <1>2 DEF TypeInv
      <3>2. /\ input' \in Seq(Item) /\ pos' \in Nat \ {0}
            /\ p' \in Seq(Nat) /\ written' \in Seq(Item)
        BY <1>0 DEF TypeInv
      <3>. QED BY <1>4, <1>7, <2>1, <3>1, <3>2 DEF TypeInv
    <2>3. TopInv'
      <3>1. \A x \in Item : Distinct(top'[x]) /\ Ids(top'[x]) \subseteq Ids(top[x])
        BY <1>7 DEF TopInv
      <3>. QED BY <1>0, <3>1 DEF TopInv
    <2>4. \A f : f \in Listed' <=> f \in Listed /\ f # e
      <3>. SUFFICES ASSUME NEW f \in 2 .. Len(input)
                    PROVE  f \in Ids(top'[input[f - 1]]) <=> f \in Ids(top[input[f - 1]]) /\ f # e
        BY <1>0 DEF Listed
      <3>1. input[f - 1] \in Item  BY TokenFacts
      <3>2. CASE input[f - 1] = k  BY <1>7, <3>2
      <3>3. CASE input[f - 1] # k
        <4>1. f # e  BY <1>7, <3>3
        <4>. QED BY <1>7, <3>1, <3>3, <4>1
      <3>. QED BY <3>2, <3>3
    <2>5. e \in Open(loop)  BY <1>1, <1>7 DEF Open
    <2>6. ASSUME NEW x
          PROVE  Open(x)' = IF x = loop THEN Open(x) \ {e} ELSE Open(x)
      <3>1. \A f : f \in Open(x)' <=> f \in Open(x) /\ f # e
        BY <1>0, <1>2, <2>4 DEF Open
      <3>2. CASE x = loop
        <4>1. Open(x)' = Open(x) \ {e}  BY <3>1, Zenon
        <4>. QED BY <3>2, <4>1
      <3>3. CASE x # loop
        <4>1. e \notin Open(x)  BY <1>7, <3>3 DEF Open
        <4>2. Open(x)' = Open(x)  BY <3>1, <4>1, Zenon
        <4>. QED BY <3>3, <4>2
      <3>. QED BY <3>2, <3>3
    <2>7. CountInv'
      <3>. SUFFICES ASSUME NEW x \in Item  PROVE count'[x] = Cardinality(Open(x)')
        BY DEF CountInv
      <3>1. CASE x = loop
        <4>1. Cardinality(Open(loop) \ {e}) = Cardinality(Open(loop)) - 1
          BY <2>5, OpenFinite, FS_RemoveElement
        <4>2. Open(x)' = Open(loop) \ {e}  BY <2>6, <3>1
        <4>. QED BY <1>1, <2>1, <3>1, <4>1, <4>2 DEF CountInv
      <3>2. CASE x # loop
        <4>1. Open(x)' = Open(x)  BY <2>6, <3>2
        <4>. QED BY <2>1, <3>2, <4>1 DEF CountInv
      <3>. QED BY <3>1, <3>2
    <2>8. PrintedInv'
      <3>1. \A x \in Printed : x \in Item /\ x # loop  BY <1>1 DEF TypeInv
      <3>. QED BY <1>2, <2>1, <3>1 DEF PrintedInv
    <2>9. QueueInv' /\ TrailInv'
      BY <1>0, <1>3, <2>2, BeginScan DEF QueueInv, TrailInv
    <2>. QED BY <1>5, <2>2, <2>3, <2>7, <2>8, <2>9
  <1>. QED BY <1>0, <1>6, <1>7, BrokenRelation
------------------------------------------------------------------------------
(* The invariant holds of every execution.                                  *)
THEOREM AlwaysSorting == Spec => []SortInv
  <1>1. Init => SortInv
    <2>. SUFFICES ASSUME Init  PROVE SortInv
      OBVIOUS
    <2>0. /\ pc = "read" /\ input \in Seq(Item) /\ pos = 1 /\ j = Null /\ known = {}
          /\ count = [x \in Item |-> 0] /\ top = [x \in Item |-> <<>>]
          /\ qlink = [x \in Item |-> Null]
          /\ head = Null /\ zeros = Null /\ loop = Null /\ walk = {} /\ p = <<>> /\ written = <<>>
      BY InputAssumption DEF Init
    <2>1. Printed = {}  BY <2>0 DEF Printed
    <2>2. TypeInv
      <3>1. count \in [Item -> Int] /\ pos \in Nat \ {0}  BY <2>0
      <3>2. top \in [Item -> Seq(Nat)] /\ p \in Seq(Nat) /\ written \in Seq(Item)
        BY <2>0, EmptySeq
      <3>. QED BY <2>0, <2>1, <3>1, <3>2 DEF TypeInv
    <2>3. PhaseInv  BY <2>0 DEF PhaseInv
    <2>4. \A x \in Item : Ids(top[x]) = {} /\ Distinct(top[x])  BY <2>0 DEF Ids, Distinct
    <2>5. TopInv  BY <2>0, <2>4 DEF TopInv, Distinct
    <2>6. \A x : Open(x) = {}  BY <2>2, <2>4, TokenFacts DEF Open, Listed
    <2>7. CountInv  BY <2>0, <2>6, FS_EmptySet DEF CountInv
    <2>8. PrintedInv  BY <2>1 DEF PrintedInv
    <2>9. QueueInv /\ TrailInv  BY <2>0 DEF QueueInv, TrailInv
    <2>. QED BY <2>2, <2>3, <2>5, <2>7, <2>8, <2>9 DEF SortInv
  <1>2. SortInv /\ [Next]_vars => SortInv'
    <2>. SUFFICES ASSUME SortInv, [Next]_vars  PROVE SortInv'
      OBVIOUS
    <2>1. CASE UNCHANGED vars
      <3>1. UNCHANGED <<pc, input, pos, j, known, count, top, qlink, head, zeros, loop, walk, p, written>>
        BY <2>1 DEF vars, fields, queue, result
      <3>2. TypeInv'  BY <3>1 DEF SortInv, TypeInv, Printed
      <3>3. PhaseInv'  BY <3>1 DEF SortInv, PhaseInv, Printed
      <3>4. TopInv'  BY <3>1 DEF SortInv, TopInv
      <3>5. CountInv' /\ PrintedInv'  BY <3>1, CountFrame DEF SortInv
      <3>6. Here' = Here /\ Unprinted' = Unprinted /\ Printed' = Printed
        BY <3>1 DEF Here, Unprinted, Printed
      <3>7. \A x : InChain(x)' = InChain(x)  BY <3>1 DEF InChain, ClosedUnder
      <3>8. QueueInv'
        BY <3>1, <3>6, <3>7 DEF SortInv, QueueInv, HeadInv, LinkInv, WalkInv
      <3>9. TrailInv'
        BY <3>1, <3>6 DEF SortInv, TrailInv, ClosedUnder, Listed
      <3>. QED BY <3>2, <3>3, <3>4, <3>5, <3>8, <3>9 DEF SortInv
    <2>2. ASSUME NEW k \in Item, Detect(k)  PROVE SortInv'
      BY <2>2, StartTrailSafe, ExtendTrailSafe, PassSafe, BreakLoopSafe DEF Detect
    <2>. QED BY <2>1, <2>2, ReadFirstSafe, RecordRelationSafe, OddNumberOfTokensSafe, CountItemsSafe,
                ScanSafe, EndScanSafe, OutputSafe, EraseRelationSafe, RemoveFromQueueSafe,
                EndOfProcessSafe, EndWalkSafe DEF Next
  <1>. QED BY <1>1, <1>2, PTL DEF Spec
------------------------------------------------------------------------------
(* The relations, now and after a step, in terms of the lists of successors. *)
Rel(x, e) == [before |-> x, after |-> input[e], id |-> e]

(* A relation is an element of the list of its first item.                  *)
LEMMA RelationFacts ==
  /\ \A r : r \in Relation <=> \E x \in Item : \E e \in Ids(top[x]) : r = Rel(x, e)
  /\ \A r : r \in Relation' <=> \E x \in Item : \E e \in Ids(top'[x]) : r = Rel(x, e)'
  <1>1. \A r : r \in Relation <=> \E x \in Item : \E e \in Ids(top[x]) : r = Rel(x, e)
    BY DEF Relation, Ids, Rel
  <1>2. \A r : r \in Relation' <=> \E x \in Item : \E e \in Ids(top'[x]) : r = Rel(x, e)'
    BY DEF Relation, Ids, Rel
  <1>. QED BY <1>1, <1>2

(* record_relation records.                                                 *)
LEMMA RecordImplements ==
  ASSUME SortInv, SortInv', RecordRelation
  PROVE  Order!Record \/ UNCHANGED <<Relation, written>>
  <1>. USE DEF SortInv
  <1>0. pc = "read" /\ UNCHANGED <<input, written>> /\ written = <<>>
    BY DEF RecordRelation, PhaseInv, result
  <1>1. CASE UNCHANGED <<count, top>>
    BY <1>0, <1>1 DEF Relation
  <1>2. CASE top' = [top EXCEPT ![j] = <<pos>> \o @]
    <2>3. \A x \in Item : Ids(top[x]) \subseteq Ids(top'[x])
      BY <1>2, RecordedRelation
    <2>4. Relation \subseteq Relation'
      <3>1. \A x, e : Rel(x, e)' = Rel(x, e)  BY <1>0 DEF Rel
      <3>. QED BY <2>3, <3>1, RelationFacts
    <2>5. Relation' \subseteq [before : Item, after : Item, id : Nat]
      <3>. SUFFICES ASSUME NEW x \in Item, NEW e \in Ids(top'[x])
                    PROVE  Rel(x, e)' \in [before : Item, after : Item, id : Nat]
        BY RelationFacts
      <3>1. e \in 2 .. Len(input)  BY <1>0 DEF TopInv
      <3>2. input[e] \in Item /\ e \in Nat  BY <3>1, TokenFacts
      <3>. QED BY <1>0, <3>2 DEF Rel
    <2>. QED BY <1>0, <2>4, <2>5 DEF Order!Record
  <1>. QED BY <1>1, <1>2 DEF RecordRelation

(* tsort writes what nothing precedes any more: the count of what is at the *)
(* head of the queue is zero, so no relation to it is open.                 *)
LEMMA OutputImplements ==
  ASSUME SortInv, Output
  PROVE  \E x \in Item : Order!Write(x)
  <1>. USE DEF SortInv
  <1>1. /\ head \in Item /\ head \notin Printed /\ count[head] = 0
        /\ written' = Append(written, head) /\ UNCHANGED <<input, top>> /\ p = <<>>
    BY ItemFacts DEF Output, fields, QueueInv, HeadInv, PhaseInv, TypeInv
  <1>2. Open(head) = {}
    BY <1>1, OpenFinite, FS_EmptySet DEF CountInv
  <1>3. Order!Done = Printed
    BY DEF Order!Done, Printed
  <1>4. ASSUME NEW r \in Relation, r.after = head
        PROVE  r.before \in Printed
    <2>1. PICK x \in Item : \E e \in Ids(top[x]) : r = Rel(x, e)  BY RelationFacts
    <2>2. PICK e \in Ids(top[x]) : r = Rel(x, e)  BY <2>1
    <2>3. e \in Listed /\ input[e - 1] = x /\ input[e] = head
      BY <1>4, <2>2, ListedFacts DEF Rel
    <2>. QED BY <1>2, <2>2, <2>3 DEF Open, Rel
  <1>5. UNCHANGED Relation
    BY <1>1 DEF Relation
  <1>. QED BY <1>1, <1>3, <1>4, <1>5 DEF Order!Write

(* detect_loop drops a relation from an item that the trail comes back to:  *)
(* the trail goes along relations.                                          *)
LEMMA BreakLoopImplements ==
  ASSUME SortInv, NEW k \in Item, Detect(k), BreakLoop(k)
  PROVE  (\E r \in Relation : Order!Drop(r)) \/ UNCHANGED <<Relation, written>>
  <1>. USE DEF SortInv
  <1>0. pc = "detect" /\ loop # Null /\ UNCHANGED <<input, written>>
    BY DEF Detect, BreakLoop, result
  <1>1. CASE UNCHANGED <<count, top>>
    BY <1>0, <1>1 DEF Relation
  <1>2. ASSUME NEW e \in Listed,
               input[e - 1] = k, input[e] = loop, e \in Ids(top[k]), k \in Trail,
               Ids(top'[k]) = Ids(top[k]) \ {e}, \A x \in Item \ {k} : top'[x] = top[x]
        PROVE  \E r \in Relation : Order!Drop(r)
    <2>1. Rel(k, e) \in Relation  BY <1>2, RelationFacts
    <2>2. Relation' = Relation \ {Rel(k, e)}
      <3>1. \A x \in Item : \A f : f \in Ids(top'[x]) <=> f \in Ids(top[x]) /\ ~(x = k /\ f = e)
        BY <1>2
      <3>2. \A x, f : Rel(x, f)' = Rel(x, f) /\ (Rel(x, f) = Rel(k, e) <=> x = k /\ f = e)
        <4>1. ASSUME NEW x, NEW f
              PROVE  Rel(x, f)' = Rel(x, f) /\ (Rel(x, f) = Rel(k, e) <=> x = k /\ f = e)
          <5>1. /\ Rel(x, f).before = x /\ Rel(x, f).id = f
                /\ Rel(k, e).before = k /\ Rel(k, e).id = e
            BY DEF Rel
          <5>2. Rel(x, f)' = Rel(x, f)  BY <1>0 DEF Rel
          <5>. QED BY <5>1, <5>2
        <4>. QED BY <4>1
      <3>3. \A r : r \in Relation' <=> r \in Relation /\ r # Rel(k, e)
        BY <3>1, <3>2, RelationFacts
      <3>. QED BY <3>3
    <2>3. ASSUME NEW S \in SUBSET Item, loop \in S, Order!Closed(S)
          PROVE  k \in S
      <3>. DEFINE T == S \cap Unprinted
      <3>1. T \in SUBSET known /\ loop \in T  BY <1>0, <2>3 DEF Unprinted, TrailInv
      <3>2. ASSUME NEW y \in T, qlink[y] # Null  PROVE qlink[y] \in T
        <4>1. /\ qlink[y] \in Unprinted
              /\ \E f \in Listed : input[f - 1] = y /\ input[f] = qlink[y]
          BY <1>0, <3>2 DEF TrailInv
        <4>2. PICK f \in Listed : input[f - 1] = y /\ input[f] = qlink[y]  BY <4>1
        <4>3. y \in Item /\ f \in Ids(top[y])  BY <4>2, ListedFacts
        <4>4. Rel(y, f) \in Relation /\ Rel(y, f).before = y /\ Rel(y, f).after = qlink[y]
          BY <4>2, <4>3, RelationFacts DEF Rel
        <4>5. qlink[y] \in S  BY <2>3, <4>4 DEF Order!Closed
        <4>. QED BY <4>1, <4>5
      <3>. HIDE DEF T
      <3>3. k \in T  BY <1>2, <3>1, <3>2 DEF Trail
      <3>. QED BY <3>3 DEF T
    <2>4. Order!OnCycle(Rel(k, e))
      <3>1. Rel(k, e).after = loop /\ Rel(k, e).before = k  BY <1>2 DEF Rel
      <3>. QED BY <2>3, <3>1 DEF Order!OnCycle, Order!LeadsTo
    <2>5. Order!Drop(Rel(k, e))  BY <1>0, <2>2, <2>4 DEF Order!Drop
    <2>. QED BY <2>1, <2>5
  <1>. QED BY <1>0, <1>1, <1>2, BrokenRelation

(* tsort implements TotalOrder: an item is written only after all that the  *)
(* relations put before it, and no relation is given up but one of a loop   *)
(* (record_relation, tsort, detect_loop).                                   *)
THEOREM AlwaysImplementsTotalOrder == Spec => ImplementsTotalOrder
  <1>1. Init => Order!Init
    <2>. SUFFICES ASSUME Init  PROVE Order!Init
      OBVIOUS
    <2>1. written = <<>> /\ \A x \in Item : top[x] = <<>>  BY DEF Init
    <2>2. \A x \in Item : Ids(top[x]) = {}  BY <2>1 DEF Ids
    <2>3. Relation = {}  BY <2>2, RelationFacts
    <2>. QED BY <2>1, <2>3 DEF Order!Init
  <1>2. SortInv /\ SortInv' /\ [Next]_vars => [Order!Next]_<<Relation, written>>
    <2>. SUFFICES ASSUME SortInv, SortInv', [Next]_vars
                  PROVE  Order!Next \/ UNCHANGED <<Relation, written>>
      OBVIOUS
    <2>1. CASE RecordRelation  BY <2>1, RecordImplements DEF Order!Next
    <2>2. CASE Output  BY <2>2, OutputImplements DEF Order!Next
    <2>3. ASSUME NEW k \in Item, Detect(k)
          PROVE  Order!Next \/ UNCHANGED <<Relation, written>>
      <3>1. CASE BreakLoop(k)  BY <2>3, <3>1, BreakLoopImplements DEF Order!Next
      <3>2. CASE StartTrail(k) \/ ExtendTrail(k) \/ Pass(k)
        <4>1. UNCHANGED <<input, top, written>>
          BY <2>3, <3>2 DEF Detect, StartTrail, ExtendTrail, Pass, fields, result
        <4>. QED BY <4>1 DEF Relation
      <3>. QED BY <2>3, <3>1, <3>2 DEF Detect
    <2>4. CASE UNCHANGED <<input, top, written>>
      BY <2>4 DEF Relation
    <2>5. CASE \/ ReadFirst \/ OddNumberOfTokens \/ CountItems \/ EndScan \/ EraseRelation
               \/ RemoveFromQueue \/ EndOfProcess \/ EndWalk \/ UNCHANGED vars
               \/ \E k \in Item : Scan(k)
      BY <2>4, <2>5 DEF ReadFirst, OddNumberOfTokens, CountItems, EndScan, EraseRelation, RemoveFromQueue,
                        EndOfProcess, EndWalk, Scan, vars, fields, result
    <2>. QED BY <2>1, <2>2, <2>3, <2>5 DEF Next
  <1>. QED BY <1>1, <1>2, AlwaysSorting, PTL DEF Spec, ImplementsTotalOrder, Order!Spec
------------------------------------------------------------------------------
(* The end: everything is out, and the status says whether there was a loop. *)
(* Of a set of numbers there is a least.                                     *)
LEMMA LeastNumber ==
  ASSUME NEW S \in SUBSET Nat, S # {}
  PROVE  \E x \in S : \A y \in S : x <= y
  <1>. DEFINE R == {ss \in Nat \X Nat : ss[1] < ss[2]}
  <1>0. IsWellFoundedOn(R, Nat)
    BY NatLessThanWellFounded DEF OpToRel
  <1>. HIDE DEF R
  <1>1. PICK x \in S : \A y \in S : ~(<<y, x>> \in R)
    BY <1>0, WFMin
  <1>2. \A y \in S : ~(y < x)
    BY <1>1 DEF R
  <1>. QED BY <1>2

(* Which steps change the lists of successors, and which the output.        *)
LEMMA StepFacts ==
  ASSUME SortInv, [Next]_vars
  PROVE  /\ UNCHANGED input
         /\ \/ RecordRelation
            \/ Output
            \/ pc = "detect" /\ UNCHANGED <<written, ok>> /\ Listed' \subseteq Listed
            \/ UNCHANGED <<top, written>>
  <1>1. ASSUME NEW k \in Item, Detect(k)
        PROVE  /\ pc = "detect" /\ UNCHANGED <<input, written, ok>>
               /\ Listed' \subseteq Listed \/ UNCHANGED top
    <2>0. pc = "detect" /\ UNCHANGED <<input, written, ok>>  BY <1>1 DEF Detect, result
    <2>1. CASE UNCHANGED top  BY <2>0, <2>1
    <2>2. CASE BreakLoop(k) /\ ~UNCHANGED top
      <3>1. PICK e \in Listed :
              /\ Ids(top'[k]) = Ids(top[k]) \ {e}
              /\ \A x \in Item \ {k} : top'[x] = top[x]
        BY <2>0, <2>2, BrokenRelation
      <3>2. \A x \in Item : Ids(top'[x]) \subseteq Ids(top[x])  BY <3>1
      <3>3. \A f \in 2 .. Len(input) : input[f - 1] \in Item  BY TokenFacts DEF SortInv
      <3>4. Listed' \subseteq Listed  BY <2>0, <3>2, <3>3 DEF Listed
      <3>. QED BY <2>0, <3>4
    <2>. QED BY <1>1, <2>1, <2>2 DEF Detect, StartTrail, ExtendTrail, Pass, fields
  <1>2. CASE \E k \in Item : Detect(k)  BY <1>1, <1>2
  <1>3. CASE RecordRelation  BY <1>3 DEF RecordRelation
  <1>4. CASE Output  BY <1>4 DEF Output
  <1>5. CASE \/ ReadFirst \/ OddNumberOfTokens \/ CountItems \/ EndScan \/ EraseRelation
             \/ RemoveFromQueue \/ EndOfProcess \/ EndWalk \/ UNCHANGED vars
             \/ \E k \in Item : Scan(k)
    BY <1>5 DEF ReadFirst, OddNumberOfTokens, CountItems, EndScan, EraseRelation, RemoveFromQueue,
                EndOfProcess, EndWalk, Scan, vars, fields, result
  <1>. QED BY <1>2, <1>3, <1>4, <1>5 DEF Next

(* All pairs of tokens that were read, and no others, are in the lists.     *)
LEMMA ReadingSafe ==
  ASSUME SortInv, ReadingInv, [Next]_vars
  PROVE  ReadingInv'
  <1>0. pos \in Nat /\ pos % 2 \in {0, 1} /\ (pos + 1) % 2 = 1 - (pos % 2) /\ Given \subseteq Nat
    <2>1. pos \in Nat  BY DEF SortInv, TypeInv
    <2>2. DOMAIN input \subseteq Nat  BY TokenFacts, LenProperties DEF SortInv, TypeInv
    <2>. QED BY <2>1, <2>2 DEF Given
  <1>1. UNCHANGED input /\ Given' = Given  BY StepFacts DEF Given
  <1>2. CASE ReadFirst
    <2>1. /\ pc = "read" /\ pc' = pc /\ j = Null /\ j' = input[pos] /\ pos' = pos + 1
          /\ UNCHANGED <<top, ok>> /\ j' # Null
      <3>1. pos \in 1 .. Len(input)  BY <1>2, TokenFacts DEF ReadFirst, SortInv, TypeInv
      <3>. QED BY <1>2, <3>1, TokenFacts, ItemFacts DEF ReadFirst, fields, result, SortInv
    <2>2. pos % 2 # 0  BY <2>1 DEF ReadingInv
    <2>3. pos \notin Given  BY <2>2 DEF Given
    <2>4. \A e \in Given : e < pos + 1 => e < pos  BY <1>0, <2>3
    <2>5. Listed' = Listed  BY <1>1, <2>1 DEF Listed
    <2>6. pos' % 2 = 0  BY <1>0, <2>1, <2>2
    <2>. QED BY <1>1, <2>1, <2>4, <2>5, <2>6 DEF ReadingInv
  <1>3. CASE RecordRelation
    <2>1. /\ pc = "read" /\ pc' = pc /\ j # Null /\ j' = Null /\ pos' = pos + 1 /\ UNCHANGED ok
          /\ input[pos - 1] = j /\ pos \in DOMAIN input /\ ok
      <3>1. pos \in 1 .. Len(input) /\ DOMAIN input = 1 .. Len(input)
        BY <1>3, TokenFacts, LenProperties DEF RecordRelation, SortInv, TypeInv
      <3>. QED BY <1>3, <3>1 DEF RecordRelation, result, SortInv, PhaseInv, ReadingInv
    <2>2. pos % 2 = 0  BY <2>1 DEF ReadingInv
    <2>3. pos \in Given <=> j # input[pos]  BY <2>1, <2>2 DEF Given
    <2>4. (pos \notin Given /\ Listed' = Listed)
          \/ (pos \in Given /\ \A e : e \in Listed' <=> e \in Listed \/ e = pos)
      <3>1. CASE ~IsRelation(input[pos])
        <4>1. UNCHANGED top  BY <1>3, <3>1 DEF RecordRelation
        <4>. QED BY <1>1, <2>3, <3>1, <4>1 DEF Listed, IsRelation
      <3>2. CASE IsRelation(input[pos])
        <4>1. top' = [top EXCEPT ![j] = <<pos>> \o @]  BY <1>3, <3>2 DEF RecordRelation
        <4>. QED BY <1>3, <2>3, <3>2, <4>1, RecordedRelation DEF IsRelation
      <3>. QED BY <3>1, <3>2
    <2>5. \A e \in Given : e < pos + 1 => e < pos \/ e = pos  BY <1>0
    <2>6. pos' % 2 # 0  BY <1>0, <2>1, <2>2
    <2>. QED BY <1>1, <2>1, <2>4, <2>5, <2>6 DEF ReadingInv
  <1>4. CASE ~ReadFirst /\ ~RecordRelation
    <2>1. UNCHANGED <<pos, j>>
      BY <1>4 DEF Next, OddNumberOfTokens, CountItems, EndScan, Output, EraseRelation, RemoveFromQueue,
                  EndOfProcess, EndWalk, Scan, Detect, vars
    <2>2. UNCHANGED top \/ (pc = "detect" /\ UNCHANGED ok /\ Listed' \subseteq Listed)
      BY <1>4, StepFacts DEF Output, fields
    <2>3. Listed' = Listed \/ (~ok' /\ Listed' \subseteq Listed)
      BY <1>1, <2>2 DEF Listed, ReadingInv
    <2>4. ok' => ok
      BY <1>4 DEF Next, OddNumberOfTokens, CountItems, EndScan, Output, EraseRelation, RemoveFromQueue,
                  EndOfProcess, EndWalk, Scan, Detect, vars, result
    <2>5. /\ pc' = "read" => pc = "read" /\ UNCHANGED ok
          /\ pc' \notin {"read", "failed"} => pos > Len(input)
          /\ pc' = "detect" => ~ok'
      <3>1. ASSUME NEW k \in Item, Detect(k)
            PROVE  /\ pc = "detect" /\ UNCHANGED ok /\ pc' # "read"
        BY <3>1 DEF Detect, StartTrail, ExtendTrail, Pass, BreakLoop, result
      <3>2. CASE \E k \in Item : Detect(k)  BY <3>1, <3>2 DEF ReadingInv
      <3>3. CASE \/ EndScan \/ EraseRelation \/ Output
                 \/ RemoveFromQueue \/ EndOfProcess \/ EndWalk \/ UNCHANGED vars
                 \/ \E k \in Item : Scan(k)
        BY <3>3 DEF EndScan, EraseRelation, Output, RemoveFromQueue,
                EndOfProcess, EndWalk, Scan, vars, result, ReadingInv
      <3>4. CASE OddNumberOfTokens \/ CountItems
        BY <3>4 DEF OddNumberOfTokens, CountItems
      <3>. QED BY <1>4, <3>2, <3>3, <3>4 DEF Next
    <2>. QED BY <1>1, <2>1, <2>3, <2>4, <2>5 DEF ReadingInv
  <1>. QED BY <1>2, <1>3, <1>4

(* Only Output appends: what has no relation to it left open.               *)
LEMMA OutputFacts ==
  ASSUME SortInv, Output
  PROVE  /\ head \in Unprinted /\ head # Null /\ head \in Item /\ Open(head) = {} /\ p = <<>>
         /\ Len(written) \in Nat /\ DOMAIN written = 1 .. Len(written)
         /\ Len(written') = Len(written) + 1 /\ DOMAIN written' = 1 .. Len(written) + 1
         /\ \A b \in DOMAIN written : b \in DOMAIN written' /\ written'[b] = written[b]
         /\ written'[Len(written) + 1] = head
         /\ Printed' = Printed \cup {head} /\ Unprinted' = Unprinted \ {head}
  <1>. USE DEF SortInv
  <1>1. /\ head \in known /\ head \in Item /\ head # Null /\ head \notin Printed /\ count[head] = 0
        /\ written' = Append(written, head) /\ UNCHANGED known /\ p = <<>> /\ pc' = "erase"
    BY ItemFacts DEF Output, fields, QueueInv, HeadInv, PhaseInv, TypeInv
  <1>2. Open(head) = {}
    BY <1>1, OpenFinite, FS_EmptySet DEF CountInv
  <1>3. /\ Len(written) \in Nat /\ DOMAIN written = 1 .. Len(written)
        /\ Len(written') = Len(written) + 1 /\ DOMAIN written' = 1 .. Len(written) + 1
        /\ \A i \in 1 .. Len(written) : written'[i] = written[i]
        /\ written'[Len(written) + 1] = head
    BY <1>1, AppendProperties, LenProperties DEF TypeInv
  <1>4. \A b \in DOMAIN written : b \in DOMAIN written' /\ written'[b] = written[b]
    BY <1>3
  <1>5. Printed' = Printed \cup {head}
    <2>1. Len(written) + 1 \in DOMAIN written'
      BY <1>3
    <2>2. \A b \in DOMAIN written' : b \in DOMAIN written \/ b = Len(written) + 1
      BY <1>3
    <2>. QED BY <1>3, <1>4, <2>1, <2>2, Zenon DEF Printed
  <1>6. Unprinted' = Unprinted \ {head}  BY <1>1, <1>5 DEF Unprinted
  <1>. QED BY <1>1, <1>2, <1>3, <1>4, <1>5, <1>6 DEF Unprinted

(* The order of what is written agrees with the relations.                  *)
LEMMA OrderSafe ==
  ASSUME SortInv, OrderInv, [Next]_vars
  PROVE  OrderInv'
  <1>0. UNCHANGED input  BY StepFacts
  <1>1. CASE RecordRelation
    <2>1. DOMAIN written' = {}
      BY <1>1 DEF RecordRelation, result, SortInv, PhaseInv
    <2>. QED BY <2>1 DEF OrderInv
  <1>2. CASE Output
    <2>1. Listed' = Listed  BY <1>0, <1>2 DEF Listed, Output, fields
    <2>. SUFFICES ASSUME NEW e \in Listed, NEW b \in DOMAIN written', written'[b] = input[e]
                  PROVE  \E a \in DOMAIN written' : a < b /\ written'[a] = input[e - 1]
      BY <1>0, <2>1 DEF OrderInv
    <2>2. CASE b \in DOMAIN written
      <3>1. written[b] = input[e]  BY <1>2, <2>2, OutputFacts
      <3>2. PICK a \in DOMAIN written : a < b /\ written[a] = input[e - 1]
        BY <2>2, <3>1 DEF OrderInv
      <3>. QED BY <1>2, <3>2, OutputFacts
    <2>3. CASE b \notin DOMAIN written
      <3>1. b = Len(written) + 1 /\ Len(written) \in Nat /\ input[e] = head
        BY <1>2, <2>3, OutputFacts
      <3>2. input[e - 1] \in Printed
        BY <1>2, <3>1, OutputFacts DEF Open
      <3>3. PICK a \in DOMAIN written : written[a] = input[e - 1]  BY <3>2 DEF Printed
      <3>4. a < b  BY <1>2, <3>1, <3>3, OutputFacts
      <3>. QED BY <1>2, <3>3, <3>4, OutputFacts
    <2>. QED BY <2>2, <2>3
  <1>3. CASE UNCHANGED written /\ Listed' \subseteq Listed
    BY <1>0, <1>3 DEF OrderInv
  <1>4. CASE UNCHANGED <<top, written>>
    <2>1. Listed' = Listed  BY <1>0, <1>4 DEF Listed
    <2>. QED BY <1>3, <1>4, <2>1
  <1>. QED BY <1>1, <1>2, <1>3, <1>4, StepFacts

(* The sets of items are finite.                                            *)
LEMMA ItemsFinite ==
  ASSUME TypeInv
  PROVE  IsFiniteSet(known) /\ IsFiniteSet(Printed) /\ IsFiniteSet(Unprinted)
  <1>1. /\ known \in SUBSET Item /\ Printed \in SUBSET Item /\ Unprinted \in SUBSET Item
        /\ IsFiniteSet(Item)
    BY ItemAssumption DEF TypeInv, Unprinted
  <1>. QED BY <1>1, FS_Subset

(* n_strings goes down with each item that is written.                      *)
LEMMA NumberSafe ==
  ASSUME SortInv, NumberInv, [Next]_vars
  PROVE  NumberInv'
  <1>1. CASE Output
    <2>1. Distinct(written')
      <3>. SUFFICES ASSUME NEW a \in DOMAIN written', NEW b \in DOMAIN written', written'[a] = written'[b]
                    PROVE  a = b
        BY DEF Distinct
      <3>1. \A c \in DOMAIN written' : c \in DOMAIN written \/ c = Len(written) + 1
        BY <1>1, OutputFacts
      <3>2. \A c \in DOMAIN written : written'[c] = written[c] /\ written[c] \in Printed
        BY <1>1, OutputFacts DEF Printed
      <3>3. \A c \in DOMAIN written : written'[c] # written'[Len(written) + 1]
        BY <1>1, <3>2, OutputFacts DEF Unprinted
      <3>4. CASE a \in DOMAIN written /\ b \in DOMAIN written
        BY <3>2, <3>4 DEF NumberInv, Distinct
      <3>. QED BY <3>1, <3>3, <3>4
    <2>2. Len(written') = Cardinality(Printed')
      <3>1. Cardinality(Printed \cup {head}) = Cardinality(Printed) + 1
        BY <1>1, OutputFacts, ItemsFinite, FS_AddElement DEF SortInv, Unprinted
      <3>. QED BY <1>1, <3>1, OutputFacts DEF NumberInv
    <2>3. n_strings' = Cardinality(Unprinted')
      <3>1. Cardinality(Unprinted \ {head}) = Cardinality(Unprinted) - 1
        BY <1>1, OutputFacts, ItemsFinite, FS_RemoveElement DEF SortInv
      <3>2. n_strings = Cardinality(Unprinted) /\ n_strings' = n_strings - 1
        BY <1>1 DEF NumberInv, Output
      <3>. QED BY <1>1, <3>1, <3>2, OutputFacts
    <2>4. pc' = "erase"  BY <1>1 DEF Output
    <2>. QED BY <2>1, <2>2, <2>3, <2>4 DEF NumberInv
  <1>2. CASE UNCHANGED written
    <2>1. UNCHANGED Printed  BY <1>2 DEF Printed
    <2>2. CASE ReadFirst \/ RecordRelation \/ OddNumberOfTokens
      <3>1. pc' \in {"read", "failed"}  BY <2>2 DEF ReadFirst, RecordRelation, OddNumberOfTokens
      <3>. QED BY <1>2, <2>1, <3>1 DEF NumberInv
    <2>3. CASE CountItems
      <3>1. Printed = {} /\ UNCHANGED known /\ n_strings' = Cardinality(known)
            /\ (pc' = "done" => known = {})
        BY <2>3 DEF CountItems, SortInv, PhaseInv, Printed
      <3>2. Unprinted' = known  BY <2>1, <3>1 DEF Unprinted
      <3>. QED BY <1>2, <2>1, <3>1, <3>2 DEF NumberInv
    <2>4. CASE EndOfProcess
      <3>1. UNCHANGED <<known, n_strings>> /\ pc = "queue" /\ (pc' = "done" => n_strings = 0)
        BY <2>4 DEF EndOfProcess
      <3>2. UNCHANGED Unprinted  BY <2>1, <3>1 DEF Unprinted
      <3>3. n_strings = Cardinality(Unprinted)  BY <3>1 DEF NumberInv
      <3>4. pc' = "done" => Unprinted = {}
        BY <3>1, <3>3, ItemsFinite, FS_EmptySet DEF SortInv
      <3>. QED BY <1>2, <2>1, <3>1, <3>2, <3>3, <3>4 DEF NumberInv
    <2>5. CASE \/ EndScan \/ EraseRelation \/ RemoveFromQueue \/ EndWalk \/ UNCHANGED vars
               \/ \E k \in Item : Scan(k) \/ Detect(k)
      <3>1. UNCHANGED <<known, n_strings>>
        BY <2>5 DEF EndScan, EraseRelation, RemoveFromQueue, EndWalk, Scan, Detect, vars, result
      <3>2. UNCHANGED pc \/ (/\ pc \in {"scan", "queue", "erase", "detect"}
                             /\ pc' \in {"scan", "queue", "erase", "detect"})
        <4>1. ASSUME NEW k \in Item, Detect(k)
              PROVE  pc = "detect" /\ pc' \in {"scan", "detect"}
          BY <4>1 DEF Detect, StartTrail, ExtendTrail, Pass, BreakLoop
        <4>. QED BY <2>5, <4>1 DEF EndScan, EraseRelation, RemoveFromQueue, EndWalk, Scan, vars
      <3>3. UNCHANGED Unprinted  BY <2>1, <3>1 DEF Unprinted
      <3>. QED BY <1>2, <2>1, <3>1, <3>2, <3>3 DEF NumberInv
    <2>6. ~Output
      <3>. SUFFICES ASSUME Output  PROVE FALSE
        OBVIOUS
      <3>. QED BY <1>2, OutputFacts
    <2>. QED BY <2>2, <2>3, <2>4, <2>5, <2>6 DEF Next
  <1>3. CASE ~Output
    BY <1>2, <1>3 DEF Next, ReadFirst, RecordRelation, OddNumberOfTokens, CountItems, EndScan, EraseRelation,
                RemoveFromQueue, EndOfProcess, EndWalk, Scan, Detect, vars, result
  <1>. QED BY <1>1, <1>3

(* What is put at the end of the queue stays in it, and so does the rest.   *)
LEMMA LinkedStays ==
  ASSUME Here \subseteq Here', zeros \in Here => qlink[zeros] = Null, zeros \in Here,
         qlink \in [Item -> Item \cup {Null}], Here \subseteq Item,
         NEW k, qlink' = [qlink EXCEPT ![zeros] = k], head' = head
  PROVE  Queued(k)' /\ \A x \in Item : Queued(x) => Queued(x)'
  <1>1. qlink'[zeros] = k /\ \A y \in Here : y # zeros => qlink'[y] = qlink[y]
    OBVIOUS
  <1>2. \A x \in Item : x # Null  BY ItemFacts
  <1>. QED BY <1>1, <1>2 DEF Queued

(* Whatever has lost its last predecessor is queued at once, or scanned.    *)
LEMMA QueuedSafe ==
  ASSUME SortInv, SortInv', QueuedInv, [Next]_vars
  PROVE  QueuedInv'
  <1>. USE DEF SortInv
  <1>0. /\ Unprinted \subseteq Item /\ Here \subseteq Item /\ known \subseteq Item
        /\ qlink \in [Item -> Item \cup {Null}] /\ count \in [Item -> Int]
    BY DEF TypeInv, Unprinted, Here
  <1>1. ASSUME NEW k \in Item, Scan(k)  PROVE QueuedInv'
    <2>0. /\ pc = "scan" /\ pc' = "scan" /\ walk' = walk \ {k} /\ UNCHANGED <<known, count, written>>
          /\ HeadInv /\ LinkInv
          /\ \A x \in Unprinted : count[x] = 0 => Queued(x) \/ x \in walk
      BY <1>1 DEF Scan, result, QueueInv, QueuedInv
    <2>1. Printed' = Printed /\ Unprinted' = Unprinted  BY <2>0 DEF Printed, Unprinted
    <2>2. (k \in Unprinted /\ count[k] = 0 => Queued(k)') /\ \A x \in Unprinted : Queued(x) => Queued(x)'
      <3>1. CASE ~IsZero(k)
        <4>1. UNCHANGED <<qlink, head>>  BY <1>1, <3>1 DEF Scan, queue
        <4>2. Here' = Here  BY <2>1, <4>1 DEF Here
        <4>. QED BY <3>1, <4>1, <4>2 DEF IsZero, Queued, Unprinted
      <3>2. CASE IsZero(k) /\ head = Null
        <4>1. head' = k /\ UNCHANGED qlink  BY <1>1, <3>2 DEF Scan
        <4>2. Here \subseteq Here'  BY <2>1, <3>2 DEF Here
        <4>3. \A x \in Unprinted : x # head  BY <1>0, <3>2, ItemFacts
        <4>. QED BY <4>1, <4>2, <4>3 DEF Queued
      <3>3. CASE IsZero(k) /\ head # Null
        <4>1. qlink' = [qlink EXCEPT ![zeros] = k] /\ head' = head  BY <1>1, <3>3 DEF Scan
        <4>2. Here' = Here /\ zeros \in Here /\ qlink[zeros] = Null
          BY <2>0, <2>1, <3>3, <4>1 DEF Here, HeadInv
        <4>. QED BY <1>0, <4>1, <4>2, LinkedStays
      <3>. QED BY <3>1, <3>2, <3>3
    <2>. QED BY <2>0, <2>1, <2>2 DEF QueuedInv
  <1>2. CASE EndScan
    <2>1. /\ pc = "scan" /\ pc' = "queue" /\ walk = {}
          /\ UNCHANGED <<known, written, head, qlink, count>>
      BY <1>2 DEF EndScan, fields, queue, result
    <2>2. Here' = Here /\ Unprinted' = Unprinted  BY <2>1 DEF Here, Unprinted, Printed
    <2>. QED BY <2>1, <2>2 DEF QueuedInv, Queued
  <1>3. CASE Output
    <2>1. pc = "queue" /\ pc' = "erase" /\ UNCHANGED <<head, qlink, count>>
      BY <1>3 DEF Output, fields, queue
    <2>2. Here' = Here /\ Unprinted' \subseteq Unprinted
      BY <1>3, <2>1, OutputFacts DEF Here
    <2>. QED BY <2>1, <2>2 DEF QueuedInv, Queued
  <1>4. CASE EraseRelation
    <2>a. PICK k : k = input[Head(p)]  OBVIOUS
    <2>0. /\ pc = "erase" /\ pc' = "erase" /\ UNCHANGED <<known, written, head>>
          /\ count' = [count EXCEPT ![k] = @ - 1]
          /\ \/ IsLast(k) /\ qlink' = [qlink EXCEPT ![zeros] = k]
             \/ ~IsLast(k) /\ UNCHANGED qlink
          /\ HeadInv
          /\ \A x \in Unprinted : count[x] = 0 => Queued(x)
      BY <1>4, <2>a DEF EraseRelation, result, QueueInv, QueuedInv
    <2>1. Here' = Here /\ Unprinted' = Unprinted  BY <2>0 DEF Here, Unprinted, Printed
    <2>2. \A x \in Item : x # k => count'[x] = count[x]  BY <1>0, <2>0
    <2>3. CASE IsLast(k)
      <3>1. head # Null  BY <2>0, ItemFacts DEF PhaseInv, TypeInv
      <3>2. zeros \in Here /\ qlink[zeros] = Null  BY <2>0, <3>1 DEF HeadInv
      <3>3. qlink' = [qlink EXCEPT ![zeros] = k]  BY <2>0, <2>3
      <3>4. Queued(k)' /\ \A x \in Item : Queued(x) => Queued(x)'
        <4>1. Here \subseteq Here' /\ head' = head  BY <2>0, <2>1
        <4>. QED BY <1>0, <3>2, <3>3, <4>1, LinkedStays
      <3>5. ASSUME NEW x \in Unprinted, count'[x] = 0  PROVE Queued(x)'
        <4>1. CASE x = k  BY <3>4, <4>1
        <4>2. CASE x # k
          <5>1. x \in Item /\ count[x] = 0  BY <1>0, <2>2, <3>5, <4>2
          <5>. QED BY <2>0, <3>4, <5>1
        <4>. QED BY <4>1, <4>2
      <3>. QED BY <2>0, <2>1, <3>5 DEF QueuedInv
    <2>4. CASE ~IsLast(k)
      <3>1. \A x \in Item : Queued(x)' = Queued(x)  BY <2>0, <2>1, <2>4 DEF Queued
      <3>2. k \in Item => count'[k] # 0
        <4>1. k \in Item => count[k] \in Int /\ count[k] # 1 /\ count'[k] = count[k] - 1
          BY <1>0, <2>0, <2>4 DEF IsLast
        <4>. QED BY <4>1
      <3>3. ASSUME NEW x \in Unprinted, count'[x] = 0  PROVE Queued(x)'
        BY <1>0, <2>0, <2>2, <3>1, <3>2, <3>3
      <3>. QED BY <2>0, <2>1, <3>3 DEF QueuedInv
    <2>. QED BY <2>3, <2>4
  <1>5. CASE RemoveFromQueue
    <2>1. /\ pc = "erase" /\ pc' = "queue" /\ head' = qlink[head] /\ head \in Printed
          /\ UNCHANGED <<known, written, qlink, count>>
      BY <1>5 DEF RemoveFromQueue, fields, result, PhaseInv
    <2>2. Unprinted' = Unprinted /\ head \notin Unprinted  BY <2>1 DEF Unprinted, Printed
    <2>3. ASSUME NEW x \in Unprinted, Queued(x)  PROVE Queued(x)'
      <3>1. PICK y \in Here : qlink[y] = x  BY <2>2, <2>3 DEF Queued
      <3>2. CASE y = head  BY <2>1, <3>1, <3>2 DEF Queued
      <3>3. CASE y \in Unprinted
        <4>1. y \in Here'  BY <2>2, <3>3 DEF Here
        <4>. QED BY <2>1, <3>1, <4>1 DEF Queued
      <3>. QED BY <3>1, <3>2, <3>3 DEF Here
    <2>. QED BY <2>1, <2>2, <2>3 DEF QueuedInv
  <1>6. CASE CountItems \/ EndWalk
    <2>1. pc' \in {"done", "scan", "detect"} /\ walk' = known'
      BY <1>6 DEF CountItems, EndWalk
    <2>. QED BY <2>1 DEF QueuedInv, Unprinted
  <1>7. ASSUME NEW k \in Item, Detect(k)  PROVE QueuedInv'
    <2>1. pc' = "detect" \/ (pc' = "scan" /\ walk' = known')
      BY <1>7 DEF Detect, StartTrail, ExtendTrail, Pass, BreakLoop
    <2>. QED BY <2>1 DEF QueuedInv, Unprinted
  <1>8. CASE ReadFirst \/ RecordRelation \/ OddNumberOfTokens \/ EndOfProcess
    <2>1. pc' \in {"read", "failed", "done", "detect"}
      BY <1>8 DEF ReadFirst, RecordRelation, OddNumberOfTokens, EndOfProcess
    <2>. QED BY <2>1 DEF QueuedInv
  <1>9. CASE UNCHANGED vars
    <2>1. UNCHANGED <<pc, known, written, head, qlink, count, walk>>
      BY <1>9 DEF vars, fields, queue, result
    <2>2. Here' = Here /\ Unprinted' = Unprinted  BY <2>1 DEF Here, Unprinted, Printed
    <2>. QED BY <2>1, <2>2 DEF QueuedInv, Queued
  <1>. QED BY <1>1, <1>2, <1>3, <1>4, <1>5, <1>6, <1>7, <1>8, <1>9 DEF Next

(* When the queue is empty and something is not out, each of it has a       *)
(* relation from another of it: with ranks, one of them would be lowest.    *)
LEMMA LoopSafe ==
  ASSUME SortInv, ReadingInv, NumberInv, QueuedInv, LoopInv, [Next]_vars
  PROVE  LoopInv'
  <1>. USE DEF SortInv
  <1>0. UNCHANGED input  BY StepFacts
  <1>1. CASE EndOfProcess /\ ~UNCHANGED ok
    <2>0. /\ pc = "queue" /\ head = Null /\ n_strings > 0 /\ UNCHANGED known /\ p = <<>>
      BY <1>1 DEF EndOfProcess, PhaseInv
    <2>1. Unprinted # {}
      <3>1. n_strings = Cardinality(Unprinted)  BY <2>0 DEF NumberInv
      <3>. QED BY <2>0, <3>1, FS_EmptySet
    <2>2. ASSUME NEW x \in Unprinted
          PROVE  \E e \in Given : input[e] = x /\ input[e - 1] \in Unprinted
      <3>1. x \in Item /\ x # Null  BY ItemFacts DEF TypeInv, Unprinted
      <3>2. \A y \in Unprinted : qlink[y] = Null  BY <2>0, NoLinks DEF QueueInv
      <3>3. ~Queued(x)  BY <2>0, <3>1, <3>2 DEF Queued, Here
      <3>4. count[x] # 0  BY <2>0, <3>3 DEF QueuedInv
      <3>5. Open(x) # {}  BY <3>1, <3>4, FS_EmptySet DEF CountInv
      <3>6. PICK e \in Listed : input[e] = x /\ input[e - 1] \notin Printed
        BY <2>0, <3>5 DEF Open, Ids
      <3>7. input[e - 1] \in known
        <4>1. e \in Ids(top[input[e - 1]]) /\ input[e - 1] \in Item  BY ListedFacts DEF Listed
        <4>. QED BY <4>1 DEF TopInv
      <3>. QED BY <3>6, <3>7 DEF Unprinted, ReadingInv
    <2>3. ASSUME NEW rank \in [known -> 1 .. Cardinality(known)],
                 \A i \in Given : rank[input[i - 1]] < rank[input[i]]
          PROVE  FALSE
      <3>. DEFINE S == { rank[x] : x \in Unprinted }
      <3>1. \A x \in Unprinted : rank[x] \in 1 .. Cardinality(known)  BY DEF Unprinted
      <3>2. S \in SUBSET Nat /\ S # {}  BY <2>1, <3>1
      <3>3. PICK m \in S : \A n \in S : m <= n
        <4>. HIDE DEF S
        <4>. QED BY <3>2, LeastNumber
      <3>4. PICK x \in Unprinted : rank[x] = m  BY <3>3
      <3>5. PICK e \in Given : input[e] = x /\ input[e - 1] \in Unprinted  BY <2>2
      <3>6. rank[input[e - 1]] < m /\ rank[input[e - 1]] \in S  BY <2>3, <3>4, <3>5
      <3>7. m \in Nat /\ rank[input[e - 1]] \in Nat  BY <3>2, <3>3, <3>6
      <3>8. m <= rank[input[e - 1]]  BY <3>3, <3>6
      <3>. QED BY <3>6, <3>7, <3>8
    <2>4. ~Acyclic  BY <2>3 DEF Acyclic
    <2>5. Acyclic' = Acyclic  BY <1>0, <2>0 DEF Acyclic, Given
    <2>. QED BY <2>4, <2>5 DEF LoopInv
  <1>2. CASE UNCHANGED ok /\ (~ok => UNCHANGED known)
    BY <1>0, <1>2 DEF LoopInv, Acyclic, Given
  <1>3. UNCHANGED ok \/ EndOfProcess
    BY DEF Next, ReadFirst, RecordRelation, OddNumberOfTokens, CountItems, EndScan, Output, EraseRelation,
           RemoveFromQueue, EndWalk, Scan, Detect, vars, result
  <1>4. UNCHANGED known \/ pc = "read"
    BY DEF Next, ReadFirst, RecordRelation, OddNumberOfTokens, CountItems, EndScan, Output, EraseRelation,
           RemoveFromQueue, EndOfProcess, EndWalk, Scan, Detect, vars, result
  <1>. QED BY <1>1, <1>2, <1>3, <1>4 DEF ReadingInv

(* EndInv holds of every execution.                                         *)
THEOREM AlwaysAccounting == Spec => []EndInv
  <1>1. Init => EndInv
    <2>. SUFFICES ASSUME Init  PROVE EndInv
      OBVIOUS
    <2>0. /\ pc = "read" /\ input \in Seq(Item) /\ pos = 1 /\ j = Null /\ ok = TRUE
          /\ top = [x \in Item |-> <<>>] /\ written = <<>>
      BY InputAssumption DEF Init
    <2>1. /\ Len(input) \in Nat /\ DOMAIN input = 1 .. Len(input)
          /\ \A i \in 1 .. Len(input) : input[i] \in Item
      BY <2>0, LenProperties, ElementOfSeq
    <2>2. \A e \in 2 .. Len(input) : e - 1 \in 1 .. Len(input)  BY <2>1
    <2>3. \A x \in Item : Ids(top[x]) = {}  BY <2>0 DEF Ids
    <2>4. Listed = {}  BY <2>1, <2>2, <2>3 DEF Listed
    <2>5. \A e \in Given : ~(e < pos)  BY <2>0, <2>1 DEF Given
    <2>6. ReadingInv  BY <2>0, <2>4, <2>5 DEF ReadingInv
    <2>7. Printed = {} /\ Distinct(written) /\ Len(written) = 0  BY <2>0 DEF Printed, Distinct
    <2>8. NumberInv  BY <2>0, <2>7, FS_EmptySet DEF NumberInv
    <2>. QED BY <2>0, <2>4, <2>6, <2>8 DEF EndInv, OrderInv, QueuedInv, LoopInv
  <1>2. SortInv /\ SortInv' /\ EndInv /\ [Next]_vars => EndInv'
    BY ReadingSafe, OrderSafe, NumberSafe, QueuedSafe, LoopSafe DEF EndInv
  <1>. QED BY <1>1, <1>2, AlwaysSorting, PTL DEF Spec

(* Without a loop broken there is a relation for each pair of the input.    *)
LEMMA AllRelationsKept ==
  ASSUME SortInv, Listed = Given
  PROVE  Cardinality(Relation) = Cardinality(Given)
  <1>. USE DEF SortInv
  <1>. DEFINE f == [e \in Listed |-> Rel(input[e - 1], e)]
  <1>1. f \in [Listed -> Relation]
    <2>. SUFFICES ASSUME NEW e \in Listed  PROVE Rel(input[e - 1], e) \in Relation
      OBVIOUS
    <2>1. e \in Ids(top[input[e - 1]]) /\ input[e - 1] \in Item  BY ListedFacts DEF Listed
    <2>. QED BY <2>1, RelationFacts
  <1>2. ASSUME NEW d \in Listed, NEW e \in Listed, f[d] = f[e]  PROVE d = e
    <2>1. f[d].id = d /\ f[e].id = e  BY DEF Rel
    <2>. QED BY <1>2, <2>1
  <1>3. ASSUME NEW r \in Relation  PROVE \E e \in Listed : f[e] = r
    <2>1. PICK x \in Item : \E e \in Ids(top[x]) : r = Rel(x, e)  BY RelationFacts
    <2>2. PICK e \in Ids(top[x]) : r = Rel(x, e)  BY <2>1
    <2>3. e \in Listed /\ input[e - 1] = x  BY ListedFacts
    <2>. QED BY <2>2, <2>3
  <1>. HIDE DEF f
  <1>4. f \in Bijection(Listed, Relation)
    BY <1>1, <1>2, <1>3 DEF Bijection, Injection, Surjection, IsInjective
  <1>5. ExistsBijection(Listed, Relation)  BY <1>4 DEF ExistsBijection
  <1>6. IsFiniteSet(Listed)
    <2>1. IsFiniteSet(2 .. Len(input)) /\ Listed \in SUBSET (2 .. Len(input))
      BY TokenFacts, FS_Interval DEF Listed
    <2>. QED BY <2>1, FS_Subset
  <1>. QED BY <1>5, <1>6, FS_Bijection

(* Without a loop broken, the places in the output are ranks.               *)
LEMMA OutputRanks ==
  ASSUME SortInv, OrderInv, NumberInv, Listed = Given, Printed = known
  PROVE  Acyclic
  <1>. USE DEF SortInv
  <1>. DEFINE rank == [x \in known |-> CHOOSE a \in DOMAIN written : written[a] = x]
  <1>1. /\ \A x \in known : rank[x] \in DOMAIN written /\ written[rank[x]] = x
        /\ DOMAIN written = 1 .. Cardinality(known)
        /\ rank \in [known -> DOMAIN written]
    <2>1. DOMAIN written = 1 .. Cardinality(known)
      BY LenProperties DEF NumberInv, TypeInv
    <2>2. ASSUME NEW x \in known
          PROVE  rank[x] \in DOMAIN written /\ written[rank[x]] = x
      <3>1. \E a \in DOMAIN written : written[a] = x  BY DEF Printed
      <3>. QED BY <3>1
    <2>. QED BY <2>1, <2>2
  <1>. HIDE DEF rank
  <1>2. ASSUME NEW i \in Given  PROVE rank[input[i - 1]] < rank[input[i]]
    <2>1. {input[i - 1], input[i]} \subseteq known
      <3>1. i \in Ids(top[input[i - 1]]) /\ input[i - 1] \in Item  BY ListedFacts DEF Listed
      <3>. QED BY <3>1 DEF TopInv
    <2>2. PICK a \in DOMAIN written : a < rank[input[i]] /\ written[a] = input[i - 1]
      BY <1>1, <2>1 DEF OrderInv
    <2>3. a = rank[input[i - 1]]  BY <1>1, <2>1, <2>2 DEF NumberInv, Distinct
    <2>. QED BY <2>2, <2>3
  <1>. QED BY <1>1, <1>2 DEF Acyclic

(* When tsort ends, every string is out once, and it reports success        *)
(* exactly for input without a loop, of which it has dropped nothing        *)
(* (scan_zeros, detect_loop, and the loop of tsort).                        *)
THEOREM AlwaysEndsWithAll == Spec => []EndsWithAll
  <1>1. SortInv /\ EndInv => EndsWithAll
    <2>. SUFFICES ASSUME SortInv, EndInv, pc = "done"  PROVE EndsWithAll
      BY Zenon DEF EndsWithAll
    <2>1. Printed = known
      BY DEF EndInv, NumberInv, Unprinted, SortInv, TypeInv
    <2>2. Len(written) = Cardinality(known)
      BY <2>1 DEF EndInv, NumberInv
    <2>3. ASSUME ok  PROVE Listed = Given
      <3>1. \A e \in Given : e < pos
        <4>1. Given \subseteq 1 .. Len(input) /\ pos > Len(input) /\ pos \in Nat /\ Len(input) \in Nat
          BY LenProperties DEF Given, EndInv, ReadingInv, SortInv, TypeInv
        <4>. QED BY <4>1
      <3>. QED BY <2>3, <3>1 DEF EndInv, ReadingInv
    <2>4. ok => Acyclic  BY <2>1, <2>3, OutputRanks DEF EndInv
    <2>5. ~ok => ~Acyclic  BY DEF EndInv, LoopInv
    <2>6. ok => Cardinality(Relation) = Cardinality(Given)  BY <2>3, AllRelationsKept
    <2>. QED BY <2>1, <2>2, <2>4, <2>5, <2>6, Zenon DEF EndsWithAll
  <1>. QED BY <1>1, AlwaysSorting, AlwaysAccounting, PTL
===============================================================================
