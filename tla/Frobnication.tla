---------------------------- MODULE Frobnication ----------------------------
(***************************************************************************)
(* What sfrob.c and sfrobu.c share: the words of a frobnicated text, and   *)
(* the comparison they are sorted by.  A character is its byte, 0..255; a  *)
(* word is the sequence of its characters with the space that ends it.     *)
(***************************************************************************)
EXTENDS Integers, Sequences, FiniteSets, FiniteSetsExt

Nul   == 0
Space == 32
Byte  == 0..255

LESS    == -1
SAME    == 0
GREATER == 1
Overrun == 2     (* reads behind the end of a word: undefined               *)

(* c ^ 42 flips the bits 2, 8 and 32; char is signed.                       *)
Flip(c, bit) == IF (c \div bit) % 2 = 0 THEN c + bit ELSE c - bit
Xor42(c)     == Flip(Flip(Flip(c, 2), 8), 32)
Signed(c)    == IF c > 127 THEN c - 256 ELSE c
toupper(c)   == IF c \in 97..122 THEN c - 32 ELSE c

UnsignedChar(c, ignore_case) == IF ignore_case THEN toupper(Xor42(c)) ELSE Xor42(c)
unfrobChar(c, ignore_case) ==
  IF ignore_case THEN toupper(Signed(Xor42(c))) ELSE Signed(Xor42(c))

(* The first position from i on that holds no NUL, or the one behind w.     *)
SkipNuls(w, i) ==
  LET rest == { k \in i..Len(w) : w[k] # Nul }
  IN  IF rest = {} THEN Len(w) + 1 ELSE Min(rest)

(***************************************************************************)
(* One iteration of the for loop, at the places p of both words: it goes   *)
(* on behind two equal characters, or returns.  Both words ending is       *)
(* noticed before NULs are skipped, and not after.                         *)
(***************************************************************************)
Places(a, b) == (1..(Len(a) + 1)) \X (1..(Len(b) + 1))
Skipped(a, b, p) == <<SkipNuls(a, p[1]), SkipNuls(b, p[2])>>

Within(a, b, p) == p[1] <= Len(a) /\ p[2] <= Len(b)
BothEnd(a, b, p) == Within(a, b, p) /\ a[p[1]] = Space /\ b[p[2]] = Space

GoesBehind(a, b, p, q) ==
  Within(a, b, p) /\ ~ BothEnd(a, b, p) /\ Within(a, b, q) /\ a[q[1]] = b[q[2]]

Returned(a, b, p, q, ignore_case) ==
  IF BothEnd(a, b, p) THEN SAME
  ELSE IF ~ Within(a, b, p) \/ ~ Within(a, b, q) THEN Overrun
  ELSE IF a[q[1]] = Space THEN LESS
  ELSE IF b[q[2]] = Space THEN GREATER
  ELSE IF unfrobChar(a[q[1]], ignore_case) > unfrobChar(b[q[2]], ignore_case) THEN GREATER
  ELSE LESS

frobcmp(a, b, ignore_case) ==
  LET cmp[p \in Places(a, b)] ==
        LET q == Skipped(a, b, p)
        IN  IF GoesBehind(a, b, p, q) THEN cmp[<<q[1] + 1, q[2] + 1>>]
            ELSE Returned(a, b, p, q, ignore_case)
  IN  cmp[<<1, 1>>]

(***************************************************************************)
(* The space that ends the last word is looked for where the word before   *)
(* it, of prev characters, ended.  With no word before, that is in the     *)
(* header malloc keeps and never a space; behind the end of the last word  *)
(* it is whatever the heap holds.                                          *)
(***************************************************************************)
LooksTerminated(word, prev, stale) ==
  \/ prev \in 1..Len(word) /\ word[prev] = Space
  \/ prev > Len(word) /\ stale

LastWordAsItIs(word, prev, stale) == word
LastWord(word, prev, stale) ==
  IF LooksTerminated(word, prev, stale) THEN word ELSE Append(word, Space)

EndsWord(c)  == c = Space

(* A word is printed up to its first space, and the next one follows.       *)
Contains(w, c) == \E i \in 1..Len(w) : w[i] = c
UpToSpace(w)   == SubSeq(w, 1, Min({ i \in 1..Len(w) : w[i] = Space }))

SameAgain(printed, w)   == printed
WithPrinted(printed, w) == Append(printed, UpToSpace(w))
------------------------------------------------------------------------------
(* What a word without NULs stands for: its characters, unfrobnicated, but  *)
(* for the space that ends it.                                              *)
Plain(w) == [i \in 1..(Len(w) - 1) |-> Signed(Xor42(w[i]))]

(* The order of a dictionary                                                *)
Before(s, t) ==
  \E k \in 1..(Len(s) + 1) :
    /\ k <= Len(t)
    /\ \A m \in 1..(k - 1) : s[m] = t[m]
    /\ k <= Len(s) => s[k] < t[k]

(***************************************************************************)
(* The words of a text: its maximal pieces without a space.  A text that   *)
(* starts with a space, or is empty, starts with an empty word.            *)
(***************************************************************************)
Pieces(text) ==
  { p \in (1..Len(text)) \X (1..Len(text)) :
      /\ p[1] <= p[2]
      /\ \A m \in p[1]..p[2] : text[m] # Space
      /\ p[1] > 1 => text[p[1] - 1] = Space
      /\ p[2] < Len(text) => text[p[2] + 1] = Space }

StartsEmpty(text) == text = <<>> \/ Head(text) = Space

Piece(text, p) == Append(SubSeq(text, p[1], p[2]), Space)

WordsOf(text) ==
  { Piece(text, p) : p \in Pieces(text) }
    \cup (IF StartsEmpty(text) THEN {<<Space>>} ELSE {})

TimesIn(text, w) ==
  Cardinality({ p \in Pieces(text) : Piece(text, p) = w })
    + (IF StartsEmpty(text) /\ w = <<Space>> THEN 1 ELSE 0)

TimesListed(list, w) == Cardinality({ i \in DOMAIN list : list[i] = w })

(* The last word of t has no space and is no longer than the one before.    *)
MayLackItsSpace(t) ==
  \E p, q \in Pieces(t) :
    /\ q[2] = Len(t)
    /\ p[2] < q[1]
    /\ \A r \in Pieces(t) : r[2] <= p[2] \/ q[1] <= r[1]
    /\ p[2] - p[1] >= q[2] - q[1]

(***************************************************************************)
(* qsort of the library: an arrangement in which no word is greater than   *)
(* the next; where comparing reads behind a word, any arrangement.         *)
(***************************************************************************)
Arrangements(list) ==
  { [i \in DOMAIN list |-> list[p[i]]] :
      p \in { q \in [DOMAIN list -> DOMAIN list] :
                \A i, j \in DOMAIN list : q[i] = q[j] => i = j } }

ComparesSafely(list, ignore_case) ==
  \A i, j \in DOMAIN list :
    i # j => frobcmp(list[i], list[j], ignore_case) # Overrun

Sorted(list, ignore_case) ==
  { s \in Arrangements(list) :
      ComparesSafely(list, ignore_case) =>
        \A i \in 1..(Len(s) - 1) :
          frobcmp(s[i], s[i + 1], ignore_case) # GREATER }
==============================================================================
