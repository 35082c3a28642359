---------------------------- MODULE FilterProofs ----------------------------
(***************************************************************************)
(* What the programs that filter their input write: tr2b and tr2u one      *)
(* character for each that they read; sfrob and sfrobu every word of the   *)
(* text they take for their input; and poornames.sh, a pipeline of filters *)
(* in any number of overlapping runs, only names that break a guideline.   *)
(***************************************************************************)
EXTENDS PoorNames, MCFilters, SequenceTheorems, FiniteSetTheorems, WellFoundedInduction, TLAPS

(* A part of a sequence                                                     *)
LEMMA PartFacts ==
  ASSUME NEW S, NEW s \in Seq(S), NEW m \in 1..(Len(s) + 1), NEW n \in (m - 1)..Len(s)
  PROVE  /\ SubSeq(s, m, n) \in Seq(S) /\ Len(SubSeq(s, m, n)) = n - m + 1
         /\ \A i \in 1..(n - m + 1) : SubSeq(s, m, n)[i] = s[m + i - 1]
  <1>. DEFINE t == SubSeq(s, m, n)
  <1>1. Len(s) \in Nat  BY LenProperties
  <1>2. \A i \in m..n : s[i] \in S
    <2>. SUFFICES ASSUME NEW i \in m..n  PROVE s[i] \in S
      OBVIOUS
    <2>1. i \in 1..Len(s)  BY <1>1
    <2>. QED BY <2>1, ElementOfSeq
  <1>3. m \in Int /\ n \in Int  BY <1>1
  <1>4. /\ t \in Seq(S) /\ Len(t) = IF m <= n THEN n - m + 1 ELSE 0
        /\ \A i \in 1..(n - m + 1) : t[i] = s[m + i - 1]
    BY <1>2, <1>3, SubSeqProperties
  <1>5. m <= n \/ n - m + 1 = 0  BY <1>1
  <1>. QED BY <1>4, <1>5

(* What is left of a sequence after its first k elements                    *)
After(s, k) == SubSeq(s, k + 1, Len(s))

(* It is a sequence of the same things, of which head and tail are known.   *)
LEMMA AfterFacts ==
  ASSUME NEW S, NEW s \in Seq(S), NEW k \in 0..Len(s)
  PROVE  /\ After(s, k) \in Seq(S) /\ Len(After(s, k)) = Len(s) - k
         /\ After(s, k) = <<>> <=> k = Len(s)
         /\ k < Len(s) => /\ Head(After(s, k)) = s[k + 1]
                          /\ Tail(After(s, k)) = After(s, k + 1)
                          /\ s[k + 1] \in S /\ k + 1 \in 0..Len(s)
         /\ After(s, 0) = s
  <1>1. PICK n \in Nat : n = Len(s) /\ DOMAIN s = 1..n
    BY LenProperties
  <1>2. k + 1 \in 1..(n + 1) /\ n \in (k + 1) - 1 .. n /\ n - (k + 1) + 1 = n - k
    BY <1>1
  <1>3. After(s, k) \in Seq(S) /\ Len(After(s, k)) = n - k
    BY <1>1, <1>2, PartFacts DEF After
  <1>4. After(s, k) = <<>> <=> k = n
    <2>1. After(s, k) = <<>> <=> Len(After(s, k)) = 0  BY <1>3, EmptySeq
    <2>. QED BY <1>1, <1>3, <2>1
  <1>5. ASSUME k < n
        PROVE  /\ Head(After(s, k)) = s[k + 1] /\ Tail(After(s, k)) = After(s, k + 1)
               /\ s[k + 1] \in S /\ k + 1 \in 0..n
    <2>1. k + 1 \in 1..n /\ n \in (k + 1)..n /\ k + 1 \in 0..n
      BY <1>1, <1>5
    <2>. QED BY <1>1, <2>1, HeadTailOfSubSeq, ElementOfSeq DEF After
  <1>6. After(s, 0) = s
    <2>1. 0 + 1 = 1  OBVIOUS
    <2>. QED BY <2>1, SubSeqFull DEF After
  <1>. QED BY <1>1, <1>3, <1>4, <1>5, <1>6
------------------------------------------------------------------------------
(* d is what is to be written for ch.                                       *)
IsFor(ch, d) ==
  /\ \A j \in DOMAIN from : ch = from[j] => d = to[j]
  /\ ch \notin Range(from) => d \in {ch} \cup (IF ch > 127 THEN {NUL} ELSE {})

(* The table has it, since no character of from comes twice.                *)
LEMMA TranslationIsFor ==
  ASSUME from \in Seq(1..127), Accepted(from, to), NEW ch \in Byte,
         NEW d \in Translations(from, to, ch)
  PROVE  IsFor(ch, d)
  <1>1. PICK n \in Nat : n = Len(from) /\ DOMAIN from = 1..n
    BY LenProperties
  <1>2. CASE ch \in Range(from)
    <2>1. PICK j \in 1..n : from[j] = ch
      BY <1>1, <1>2 DEF Range
    <2>2. ASSUME NEW k \in 1..n, from[k] = ch  PROVE k = j
      <3>1. ~ k < j
        <4>1. SUFFICES ASSUME k < j PROVE FALSE  OBVIOUS
        <4>2. k \in 1..(j - 1)  BY <4>1
        <4>. QED BY <1>1, <2>1, <2>2, <4>2 DEF Accepted
      <3>2. ~ j < k
        <4>1. SUFFICES ASSUME j < k PROVE FALSE  OBVIOUS
        <4>2. j \in 1..(k - 1)  BY <4>1
        <4>. QED BY <1>1, <2>1, <2>2, <4>2 DEF Accepted
      <3>. QED BY <3>1, <3>2
    <2>3. CharIndex(from, ch) = j
      <3>1. \E i \in 1..n : from[i] = ch /\ \A k \in 1..n : from[k] = ch => k <= i
        BY <2>1, <2>2
      <3>. QED BY <1>1, <2>2, <3>1 DEF CharIndex
    <2>4. d = to[j]
      BY <1>2, <2>3 DEF Translations
    <2>. QED BY <1>1, <1>2, <2>2, <2>4 DEF IsFor
  <1>3. CASE ch \notin Range(from)
    <2>1. \A j \in DOMAIN from : ch # from[j]
      BY <1>3 DEF Range
    <2>2. d \in IF ch < 128 THEN {ch} ELSE {ch, NUL}
      BY <1>3 DEF Translations
    <2>3. ch < 128 <=> ~ ch > 127
      BY DEF Byte
    <2>. QED BY <1>3, <2>1, <2>2, <2>3 DEF IsFor
  <1>. QED BY <1>2, <1>3

(* What is true of each character is true of the texts.                     *)
LEMMA TranslationOfAll ==
  ASSUME NEW in \in Seq(Byte), NEW out \in Seq(Byte), Len(out) = Len(in),
         \A i \in 1..Len(in) : IsFor(in[i], out[i])
  PROVE  IsTranslation(from, to, in, out)
  <1>1. DOMAIN in = 1..Len(in)  BY LenProperties
  <1>. QED BY <1>1 DEF IsTranslation, IsFor

(* What is written is a byte.                                               *)
LEMMA TranslationByte ==
  ASSUME from \in Seq(1..127), to \in Seq(1..255), Accepted(from, to), NEW ch \in Byte,
         NEW d \in Translations(from, to, ch)
  PROVE  d \in Byte
  <1>1. IsFor(ch, d)  BY TranslationIsFor
  <1>2. CASE ch \in Range(from)
    <2>1. PICK j \in DOMAIN from : ch = from[j]  BY <1>2 DEF Range
    <2>2. DOMAIN from = 1..Len(from) /\ DOMAIN to = 1..Len(to)  BY LenProperties
    <2>3. j \in 1..Len(to)  BY <2>2 DEF Accepted
    <2>4. to[j] \in 1..255  BY <2>3, ElementOfSeq
    <2>5. d = to[j]  BY <1>1, <2>1 DEF IsFor
    <2>. QED BY <2>4, <2>5 DEF Byte
  <1>3. CASE ch \notin Range(from)
    <2>1. d = ch \/ d = NUL  BY <1>1, <1>3 DEF IsFor
    <2>2. NUL \in Byte  BY DEF Byte, NUL
    <2>. QED BY <2>1, <2>2
  <1>. QED BY <1>2, <1>3

(* The programs use the table of Tr2.                                       *)
LEMMA SameTable ==
  /\ \A f, t : T!Accepted(f, t) <=> Accepted(f, t)
  /\ \A f, t : B!Accepted(f, t) <=> Accepted(f, t)
  /\ \A f, t, ch : T!Translations(f, t, ch) = Translations(f, t, ch)
  /\ \A f, t, ch : B!Translations(f, t, ch) = Translations(f, t, ch)
  /\ \A f, t, i, o : T!IsTranslation(f, t, i, o) <=> IsTranslation(f, t, i, o)
  /\ \A f, t, i, o : B!IsTranslation(f, t, i, o) <=> IsTranslation(f, t, i, o)
  BY DEF T!Accepted, B!Accepted, Accepted, T!Translations, B!Translations, Translations,
         T!IsTranslation, B!IsTranslation, IsTranslation, T!CharIndex, B!CharIndex, CharIndex,
         T!Range, B!Range, Range, T!NUL, B!NUL, NUL

Tr2Types ==
  /\ from \in Seq(1..127) /\ to \in Seq(1..255)
  /\ input \in Seq(Byte) /\ output \in Seq(Byte)

(* The first n characters of the output are for those of the input from     *)
(* number k + 1 on.                                                         *)
Written(k, n) == \A i \in 1..n : k + i \in 1..Len(input) /\ IsFor(input[k + i], output[i])

(* tr2b has written what it has read, none of it is 255, and the character  *)
(* for the end comes last.                                                  *)
Tr2bInv ==
  /\ Tr2Types
  /\ pc \in {"check", "exit 1", "never read", "read", "done"}
  /\ pc = "check" => output = <<>> /\ rest = input
  /\ pc \in {"read", "done"} => Accepted(from, to)
  /\ pc = "read" =>
       /\ Len(output) \in 0..Len(input) /\ rest = After(input, Len(output))
       /\ Written(0, Len(output)) /\ \A i \in 1..Len(output) : input[i] # B!EOF
  /\ pc = "done" =>
       \E n \in 0..Len(input) :
         /\ Len(output) = n + 1
         /\ Written(0, n) /\ \A i \in 1..n : input[i] # B!EOF
         /\ n = Len(input) \/ input[n + 1] = B!EOF
         /\ IsFor(B!EOF, output[n + 1])

(* Of the first k characters, tr2u has written all but the first; if a read *)
(* has failed, the last one once more.                                      *)
Number(k) == IF k = 0 THEN 0 ELSE k - 1
HasRead(k) ==
  /\ rest = After(input, k)
  /\ k > 0 => c = input[k]
  /\ k = 0 => Len(input) = 0
  /\ Written(1, Number(k))
  /\ Len(output) = IF failed THEN Number(k) + 1 ELSE Number(k)
  /\ failed => IsFor(c, output[Number(k) + 1])
  /\ pc = "read" => ~ failed
  /\ pc = "done" /\ ~ failed => k = Len(input)

(* So it is in its loop and after it.                                       *)
Tr2uInv ==
  /\ Tr2Types /\ c \in Byte
  /\ pc \in {"check", "exit 1", "first", "read", "done"}
  /\ pc \in {"check", "first"} => output = <<>> /\ rest = input /\ failed = FALSE
  /\ pc \in {"first", "read", "done"} => Accepted(from, to)
  /\ pc \in {"read", "done"} => \E k \in 0..Len(input) : HasRead(k)
------------------------------------------------------------------------------
(* One more character has been written.                                     *)
LEMMA WrittenOneMore ==
  ASSUME Tr2Types, NEW k \in Nat, NEW n \in Nat, Len(output) = n, Written(k, n),
         k + n + 1 \in 1..Len(input), NEW d \in Byte, output' = Append(output, d),
         IsFor(input[k + n + 1], d), UNCHANGED <<from, to, input>>
  PROVE  /\ output' \in Seq(Byte) /\ Len(output') = n + 1 /\ Written(k, n + 1)'
  <1>1. /\ output' \in Seq(Byte) /\ Len(output') = n + 1
        /\ \A i \in 1..n : output'[i] = output[i]
        /\ output'[n + 1] = d
    BY AppendProperties DEF Tr2Types
  <1>2. ASSUME NEW i \in 1..(n + 1)
        PROVE  k + i \in 1..Len(input) /\ IsFor(input[k + i], output'[i])
    <2>1. CASE i \in 1..n  BY <1>1, <2>1 DEF Written
    <2>2. CASE i = n + 1  BY <1>1, <2>2
    <2>. QED BY <2>1, <2>2
  <1>. QED BY <1>1, <1>2 DEF Written, IsFor

(* tr2b's steps                                                             *)
LEMMA Tr2bStep ==
  ASSUME Tr2bInv, B!Next
  PROVE  Tr2bInv'
  <1>1. CASE B!Reject
    BY <1>1 DEF Tr2bInv, B!Reject, Tr2Types
  <1>2. CASE B!Accept
    <2>1. /\ UNCHANGED <<from, to, input, rest, output>> /\ pc' \in {"read", "never read"}
          /\ output = <<>> /\ rest = input /\ Accepted(from, to)
      BY <1>2, SameTable DEF B!Accept, Tr2bInv
    <2>2. Tr2Types /\ Tr2Types'  BY <2>1 DEF Tr2Types, Tr2bInv
    <2>3. Len(output') = 0 /\ Len(input') \in Nat /\ rest' = After(input', Len(output'))
      <3>1. Len(input) \in Nat  BY <2>2, LenProperties DEF Tr2Types
      <3>2. 0 \in 0..Len(input)  BY <3>1
      <3>3. After(input, 0) = input  BY <2>2, <3>2, AfterFacts DEF Tr2Types
      <3>4. Len(<<>>) = 0  BY EmptySeq
      <3>. QED BY <2>1, <3>1, <3>3, <3>4
    <2>4. Len(output') \in 0..Len(input')  BY <2>3
    <2>5. 1..Len(output') = {}  BY <2>3
    <2>6. Written(0, Len(output))' /\ \A i \in 1..Len(output') : input'[i] # B!EOF
      BY <2>5 DEF Written
    <2>7. Accepted(from, to)'  BY <2>1 DEF Accepted
    <2>. QED BY <2>1, <2>2, <2>3, <2>4, <2>6, <2>7 DEF Tr2bInv
  <1>3. CASE B!Translate
    <2>1. /\ pc = "read" /\ UNCHANGED <<from, to, input>> /\ Accepted(from, to) /\ Tr2Types
          /\ rest' = (IF rest = <<>> THEN rest ELSE Tail(rest))
          /\ pc' = (IF B!Read = B!EOF THEN "done" ELSE "read")
      BY <1>3 DEF B!Translate, B!StopsAt, Tr2bInv
    <2>2. PICK n \in Nat, m \in Nat :
            /\ n = Len(output) /\ m = Len(input) /\ n \in 0..m /\ rest = After(input, n)
            /\ Written(0, n) /\ \A i \in 1..n : input[i] # B!EOF
      BY <2>1, LenProperties DEF Tr2Types, Tr2bInv
    <2>3. PICK d \in Translations(from, to, B!Read) : output' = Append(output, d)
      BY <1>3, SameTable DEF B!Translate
    <2>4. /\ rest = <<>> <=> n = m
          /\ n < m => /\ Head(rest) = input[n + 1] /\ Tail(rest) = After(input, n + 1)
                      /\ input[n + 1] \in Byte
      <3>1. input \in Seq(Byte) /\ n \in 0..Len(input)  BY <2>1, <2>2 DEF Tr2Types
      <3>2. /\ After(input, n) = <<>> <=> n = Len(input)
            /\ n < Len(input) => /\ Head(After(input, n)) = input[n + 1]
                                 /\ Tail(After(input, n)) = After(input, n + 1)
                                 /\ input[n + 1] \in Byte
        BY <3>1, AfterFacts
      <3>. QED BY <2>2, <3>2
    <2>5. PICK r \in Byte : /\ r = B!Read
                            /\ n = m => r = B!EOF
                            /\ n < m => r = input[n + 1]
      <3>1. B!EOF \in Byte  BY DEF B!EOF, Byte
      <3>. QED BY <2>2, <2>4, <3>1 DEF B!Read
    <2>7. d \in Byte /\ IsFor(r, d)
      BY <2>1, <2>3, <2>5, TranslationByte, TranslationIsFor DEF Tr2Types
    <2>8. /\ output' \in Seq(Byte) /\ Len(output') = n + 1
          /\ \A i \in 1..n : output'[i] = output[i]
          /\ output'[n + 1] = d
      BY <2>1, <2>2, <2>3, <2>7, AppendProperties DEF Tr2Types
    <2>9. Written(0, n)'
      BY <2>1, <2>2, <2>8 DEF Written, IsFor
    <2>10. Tr2Types' /\ Accepted(from, to)'
      BY <2>1, <2>8 DEF Tr2Types, Accepted
    <2>11. CASE r = B!EOF
      <3>1. pc' = "done"  BY <2>1, <2>5, <2>11
      <3>2. n = m \/ input[n + 1] = B!EOF  BY <2>2, <2>5, <2>11
      <3>3. IsFor(B!EOF, output[n + 1])'  BY <2>1, <2>7, <2>8, <2>11 DEF IsFor
      <3>. QED BY <2>1, <2>2, <2>8, <2>9, <2>10, <3>1, <3>2, <3>3 DEF Tr2bInv
    <2>12. CASE r # B!EOF
      <3>1. pc' = "read" /\ n < m /\ r = input[n + 1]  BY <2>1, <2>2, <2>5, <2>12
      <3>2. n + 1 \in 0..m /\ 0 + n + 1 = n + 1 /\ n + 1 \in 1..m  BY <2>2, <3>1
      <3>3. rest' = After(input', n + 1)
        <4>1. rest # <<>>  BY <2>2, <2>4, <3>1
        <4>. QED BY <2>1, <2>4, <3>1, <4>1
      <3>4. Written(0, n + 1)'
        <4>1. 0 + n + 1 \in 1..Len(input) /\ IsFor(input[0 + n + 1], d)
          BY <2>2, <2>7, <3>1, <3>2
        <4>. QED BY <2>1, <2>2, <2>3, <2>7, <4>1, WrittenOneMore
      <3>5. \A i \in 1..(n + 1) : input'[i] # B!EOF
        <4>. SUFFICES ASSUME NEW i \in 1..(n + 1)  PROVE input[i] # B!EOF
          BY <2>1
        <4>1. i \in 1..n \/ i = n + 1  OBVIOUS
        <4>. QED BY <2>2, <2>12, <3>1, <4>1
      <3>. QED BY <2>1, <2>2, <2>8, <2>10, <3>1, <3>2, <3>3, <3>4, <3>5 DEF Tr2bInv
    <2>. QED BY <2>11, <2>12
  <1>. QED BY <1>1, <1>2, <1>3 DEF B!Next

(* When it ends, what it takes for its input has been translated.           *)
LEMMA Tr2bEnds == Tr2bInv => B!TranslatesItsInput
  <1>. SUFFICES ASSUME Tr2bInv, pc = "done"
                PROVE  IsTranslation(from, to, Append(B!Taken, B!EOF), output)
    BY SameTable DEF B!TranslatesItsInput
  <1>1. PICK m \in Nat : m = Len(input) /\ DOMAIN input = 1..m
    BY LenProperties DEF Tr2bInv, Tr2Types
  <1>2. PICK n \in 0..m :
          /\ Len(output) = n + 1
          /\ Written(0, n) /\ \A i \in 1..n : input[i] # B!EOF
          /\ n = m \/ input[n + 1] = B!EOF
          /\ IsFor(B!EOF, output[n + 1])
    BY <1>1 DEF Tr2bInv
  <1>3. input \in Seq(Byte) /\ output \in Seq(Byte)  BY DEF Tr2bInv, Tr2Types
  <1>4. B!Taken = SubSeq(input, 1, n)
    <2>. DEFINE ends == { i \in DOMAIN input : input[i] = B!EOF }
    <2>1. CASE n = m
      <3>1. ends = {}  BY <1>1, <1>2, <2>1
      <3>2. B!Taken = input  BY <3>1 DEF B!Taken
      <3>. QED BY <1>1, <1>3, <2>1, <3>2, SubSeqFull
    <2>2. CASE n # m
      <3>1. n + 1 \in ends /\ \A j \in ends : n + 1 <= j
        <4>1. n + 1 \in 1..m  BY <1>1, <2>2
        <4>2. ASSUME NEW j \in 1..m, j < n + 1  PROVE j \in 1..n  BY <4>2
        <4>. QED BY <1>1, <1>2, <2>2, <4>1, <4>2
      <3>2. ends \subseteq Int  BY <1>1
      <3>3. (CHOOSE i \in ends : \A j \in ends : i <= j) = n + 1
        <4>. HIDE DEF ends
        <4>1. \A i \in ends : (\A j \in ends : i <= j) => i = n + 1
          BY <3>1, <3>2
        <4>. QED BY <3>1, <4>1
      <3>4. B!Taken = SubSeq(input, 1, (n + 1) - 1)
        BY <3>1, <3>3 DEF B!Taken
      <3>5. (n + 1) - 1 = n  OBVIOUS
      <3>. QED BY <3>4, <3>5
    <2>. QED BY <2>1, <2>2
  <1>5. /\ B!Taken \in Seq(Byte) /\ Len(B!Taken) = n
        /\ \A i \in 1..n : B!Taken[i] = input[i]
    <2>1. 1 \in 1..(m + 1) /\ n \in (1 - 1)..m /\ n - 1 + 1 = n /\ \A i \in 1..n : 1 + i - 1 = i
      BY <1>1
    <2>. QED BY <1>1, <1>3, <1>4, <2>1, PartFacts
  <1>6. PICK in \in Seq(Byte) :
          /\ in = Append(B!Taken, B!EOF) /\ Len(in) = n + 1
          /\ \A i \in 1..n : in[i] = input[i]
          /\ in[n + 1] = B!EOF
    <2>1. B!EOF \in Byte  BY DEF B!EOF, Byte
    <2>2. PICK u \in Seq(Byte), e \in Byte : u = B!Taken /\ e = B!EOF  BY <1>5, <2>1
    <2>3. /\ Append(u, e) \in Seq(Byte) /\ Len(Append(u, e)) = Len(u) + 1
          /\ \A i \in 1..Len(u) : Append(u, e)[i] = u[i]
          /\ Append(u, e)[Len(u) + 1] = e
      BY AppendProperties
    <2>. QED BY <1>5, <2>2, <2>3
  <1>7. ASSUME NEW i \in 1..(n + 1)  PROVE IsFor(in[i], output[i])
    <2>1. CASE i \in 1..n
      <3>1. 0 + i = i  BY <2>1
      <3>. QED BY <1>2, <1>6, <2>1, <3>1 DEF Written
    <2>2. CASE i = n + 1  BY <1>2, <1>6, <2>2
    <2>. QED BY <2>1, <2>2
  <1>. QED BY <1>2, <1>3, <1>6, <1>7, TranslationOfAll
------------------------------------------------------------------------------
(* tr2u's step before the loop, which forgets a character,                  *)
LEMMA ReadsFirst ==
  ASSUME Tr2uInv, T!ReadFirst
  PROVE  Tr2uInv'
  <1>1. /\ pc = "first" /\ pc' = "read" /\ UNCHANGED <<from, to, input, failed, output>>
        /\ rest = <<>> => UNCHANGED <<rest, c>>
        /\ rest # <<>> => rest' = Tail(rest) /\ c' = Head(rest)
    BY DEF T!ReadFirst
  <1>2. /\ Tr2Types /\ c \in Byte /\ output = <<>> /\ rest = input /\ failed = FALSE
        /\ Accepted(from, to)
    BY <1>1 DEF Tr2uInv
  <1>3. PICK m \in Nat : m = Len(input)
    BY <1>2, LenProperties DEF Tr2Types
  <1>4. /\ After(input, 0) = input
        /\ input = <<>> <=> m = 0
        /\ 0 < m => /\ Head(input) = input[1] /\ Tail(input) = After(input, 1)
                    /\ input[1] \in Byte
    <2>1. input \in Seq(Byte) /\ 0 \in 0..Len(input) /\ 0 + 1 = 1  BY <1>2, <1>3 DEF Tr2Types
    <2>2. /\ After(input, 0) = input
          /\ After(input, 0) = <<>> <=> 0 = Len(input)
          /\ 0 < Len(input) => /\ Head(After(input, 0)) = input[0 + 1]
                               /\ Tail(After(input, 0)) = After(input, 0 + 1)
                               /\ input[0 + 1] \in Byte
      BY <2>1, AfterFacts
    <2>. QED BY <1>3, <2>1, <2>2
  <1>5. Tr2Types' /\ Accepted(from, to)'
    BY <1>1, <1>2 DEF Tr2Types, Accepted
  <1>6. Len(output') = 0
    <2>1. Len(<<>>) = 0  BY EmptySeq
    <2>. QED BY <1>1, <1>2, <2>1
  <1>7. Written(1, 0)'  BY DEF Written
  <1>8. CASE m = 0
    <2>1. rest' = After(input', 0) /\ c' = c /\ Len(input') = 0
      BY <1>1, <1>2, <1>3, <1>4, <1>8
    <2>2. HasRead(0)'
      BY <1>1, <1>2, <1>6, <1>7, <2>1 DEF HasRead, Number
    <2>3. 0 \in 0..Len(input')  BY <2>1
    <2>. QED BY <1>1, <1>2, <1>5, <2>1, <2>2, <2>3 DEF Tr2uInv
  <1>9. CASE m > 0
    <2>1. /\ rest' = After(input', 1) /\ c' = input'[1] /\ c' \in Byte /\ Len(input') = m
      BY <1>1, <1>2, <1>3, <1>4, <1>9
    <2>2. HasRead(1)'
      BY <1>1, <1>2, <1>6, <1>7, <2>1 DEF HasRead, Number
    <2>3. 1 \in 0..Len(input')  BY <1>9, <2>1
    <2>. QED BY <1>1, <1>2, <1>5, <2>1, <2>2, <2>3 DEF Tr2uInv
  <1>. QED BY <1>8, <1>9

(* those of the loop,                                                       *)
LEMMA TranslatesOne ==
  ASSUME Tr2uInv, T!Translate
  PROVE  Tr2uInv'
  <1>1. /\ pc = "read" /\ rest # <<>> /\ c' = Head(rest) /\ rest' = Tail(rest)
        /\ UNCHANGED <<pc, from, to, input, failed>>
    BY DEF T!Translate
  <1>2. /\ Tr2Types /\ Accepted(from, to)
        /\ \E k \in 0..Len(input) : HasRead(k)
    BY <1>1 DEF Tr2uInv
  <1>3. PICK m \in Nat, k \in Nat : m = Len(input) /\ k \in 0..m /\ HasRead(k)
    <2>1. Len(input) \in Nat  BY <1>2, LenProperties DEF Tr2Types
    <2>. QED BY <1>2, <2>1
  <1>4. /\ k < m /\ k > 0 /\ ~ failed
        /\ c' = input[k + 1] /\ rest' = After(input, k + 1) /\ c' \in Byte
    <2>1. input \in Seq(Byte) /\ k \in 0..Len(input)  BY <1>2, <1>3 DEF Tr2Types
    <2>2. /\ After(input, k) = <<>> <=> k = Len(input)
          /\ k < Len(input) => /\ Head(After(input, k)) = input[k + 1]
                               /\ Tail(After(input, k)) = After(input, k + 1)
                               /\ input[k + 1] \in Byte
      BY <2>1, AfterFacts
    <2>3. rest = After(input, k) /\ ~ failed /\ (k = 0 => m = 0)  BY <1>1, <1>3 DEF HasRead
    <2>4. k # m  BY <1>1, <1>3, <2>2, <2>3
    <2>5. k < m /\ k > 0  BY <1>3, <2>3, <2>4
    <2>. QED BY <1>1, <1>3, <2>2, <2>3, <2>5
  <1>5. PICK n \in Nat : /\ n = k - 1 /\ n + 1 = k /\ Number(k) = n /\ Number(k + 1) = n + 1
                         /\ Len(output) = n /\ Written(1, n)
    <2>1. Number(k) = k - 1 /\ k - 1 \in Nat /\ Number(k + 1) = (k - 1) + 1 /\ (k - 1) + 1 = k
      BY <1>3, <1>4 DEF Number
    <2>2. Len(output) = Number(k) /\ Written(1, Number(k))  BY <1>3, <1>4 DEF HasRead
    <2>. QED BY <2>1, <2>2
  <1>6. PICK ch \in Byte : ch = c'  BY <1>4
  <1>7. PICK d \in Translations(from, to, ch) : output' = Append(output, d)
    BY <1>6, SameTable DEF T!Translate
  <1>8. d \in Byte /\ IsFor(ch, d)
    BY <1>2, <1>7, TranslationByte, TranslationIsFor DEF Tr2Types
  <1>9. output' \in Seq(Byte) /\ Len(output') = n + 1 /\ Written(1, n + 1)'
    <2>1. 1 + n + 1 = k + 1 /\ 1 + n + 1 \in 1..Len(input)  BY <1>3, <1>4, <1>5
    <2>2. IsFor(input[1 + n + 1], d)  BY <1>4, <1>6, <1>8, <2>1
    <2>. QED BY <1>1, <1>2, <1>5, <1>7, <1>8, <2>1, <2>2, WrittenOneMore
  <1>10. Tr2Types' /\ Accepted(from, to)'
    BY <1>1, <1>2, <1>9 DEF Tr2Types, Accepted
  <1>11. HasRead(k + 1)'
    <2>1. /\ rest' = After(input', k + 1) /\ c' = input'[k + 1] /\ k + 1 # 0
          /\ ~ failed' /\ pc' = "read" /\ Len(output') = Number(k + 1) /\ Written(1, Number(k + 1))'
      BY <1>1, <1>3, <1>4, <1>5, <1>9
    <2>. QED BY <2>1 DEF HasRead
  <1>12. k + 1 \in 0..Len(input')  BY <1>1, <1>3, <1>4
  <1>. QED BY <1>1, <1>4, <1>10, <1>11, <1>12 DEF Tr2uInv

(* and a failing read.                                                      *)
LEMMA WritesAgain ==
  ASSUME Tr2uInv, T!ReadFails
  PROVE  Tr2uInv'
  <1>1. /\ pc = "read" /\ pc' = "done" /\ failed' = TRUE
        /\ UNCHANGED <<from, to, input, rest, c>>
    BY DEF T!ReadFails
  <1>2. /\ Tr2Types /\ Accepted(from, to) /\ c \in Byte
    BY <1>1 DEF Tr2uInv
  <1>3. PICK k \in 0..Len(input) : HasRead(k)
    BY <1>1 DEF Tr2uInv
  <1>4. PICK ch \in Byte : ch = c  BY <1>2
  <1>5. PICK d \in Translations(from, to, ch) : output' = Append(output, d)
    BY <1>4, SameTable DEF T!ReadFails
  <1>6. d \in Byte /\ IsFor(ch, d)
    BY <1>2, <1>5, TranslationByte, TranslationIsFor DEF Tr2Types
  <1>7. PICK n \in Nat : n = Number(k) /\ Len(output) = n /\ Written(1, n)
    <2>1. Len(output) = Number(k)  BY <1>1, <1>3 DEF HasRead
    <2>2. Len(output) \in Nat  BY <1>2, LenProperties DEF Tr2Types
    <2>. QED BY <1>3, <2>1, <2>2 DEF HasRead
  <1>8. /\ output' \in Seq(Byte) /\ Len(output') = n + 1
        /\ \A i \in 1..n : output'[i] = output[i]
        /\ output'[n + 1] = d
    BY <1>2, <1>5, <1>6, <1>7, AppendProperties DEF Tr2Types
  <1>9. Written(1, n)' /\ IsFor(c, output[n + 1])'
    BY <1>1, <1>4, <1>6, <1>7, <1>8 DEF Written, IsFor
  <1>10. Tr2Types' /\ Accepted(from, to)'
    BY <1>1, <1>2, <1>8 DEF Tr2Types, Accepted
  <1>11. HasRead(k)'
    <2>1. Number(k)' = n  BY <1>7 DEF Number
    <2>. QED BY <1>1, <1>3, <1>7, <1>8, <1>9, <2>1 DEF HasRead
  <1>. QED BY <1>1, <1>2, <1>3, <1>10, <1>11 DEF Tr2uInv

(* tr2u's steps                                                             *)
LEMMA Tr2uStep ==
  ASSUME Tr2uInv, T!Next
  PROVE  Tr2uInv'
  <1>1. CASE T!Reject \/ T!ReadFirstFails
    <2>1. pc' = "exit 1" /\ UNCHANGED <<from, to, input, c, output>>
      BY <1>1 DEF T!Reject, T!ReadFirstFails
    <2>2. Tr2Types' /\ c' \in Byte  BY <2>1 DEF Tr2uInv, Tr2Types
    <2>. QED BY <2>1, <2>2 DEF Tr2uInv
  <1>2. CASE T!Accept
    BY <1>2, SameTable DEF T!Accept, Tr2uInv, Tr2Types, Accepted
  <1>3. CASE T!EndOfInput
    <2>1. /\ pc = "read" /\ pc' = "done" /\ rest = <<>>
          /\ UNCHANGED <<from, to, input, rest, c, failed, output>>
      BY <1>3 DEF T!EndOfInput
    <2>2. PICK k \in 0..Len(input) : HasRead(k)
      BY <2>1 DEF Tr2uInv
    <2>3. k = Len(input)
      <3>1. After(input, k) = <<>> <=> k = Len(input)
        <4>1. input \in Seq(Byte)  BY DEF Tr2uInv, Tr2Types
        <4>. QED BY <4>1, AfterFacts
      <3>. QED BY <2>1, <2>2, <3>1 DEF HasRead
    <2>4. HasRead(k)'
      BY <2>1, <2>2, <2>3 DEF HasRead, Written, IsFor
    <2>. QED BY <2>1, <2>4 DEF Tr2uInv, Tr2Types, Accepted
  <1>. QED BY <1>1, <1>2, <1>3, ReadsFirst, TranslatesOne, WritesAgain DEF T!Next

(* When it ends, all but the first character has been translated; if a read *)
(* has failed, what came before that, and its last character once more.     *)
LEMMA Tr2uEnds == Tr2uInv => T!TranslatesItsInput
  <1>. SUFFICES ASSUME Tr2uInv, pc = "done"  PROVE T!TranslatesItsInput
    BY DEF T!TranslatesItsInput
  <1>1. PICK m \in Nat : m = Len(input)
    BY LenProperties DEF Tr2uInv, Tr2Types
  <1>2. PICK k \in Nat : k \in 0..m /\ HasRead(k)
    <2>1. PICK k \in 0..Len(input) : HasRead(k)  BY DEF Tr2uInv
    <2>. QED BY <1>1, <2>1
  <1>3. /\ input \in Seq(Byte) /\ output \in Seq(Byte) /\ c \in Byte
    BY DEF Tr2uInv, Tr2Types
  <1>4. PICK n \in Nat : /\ n = Number(k) /\ (k > 0 => n = k - 1) /\ (k = 0 => n = 0)
                         /\ Written(1, n)
    BY <1>2 DEF Number, HasRead
  <1>5. CASE failed
    <2>1. Len(output) = n + 1 /\ IsFor(c, output[n + 1]) /\ rest = After(input, k)
          /\ (k > 0 => c = input[k]) /\ (k = 0 => m = 0)
      BY <1>1, <1>2, <1>4, <1>5 DEF HasRead
    <2>2. Len(input) - Len(rest) = k
      <3>1. Len(After(input, k)) = Len(input) - k
        <4>1. k \in 0..Len(input)  BY <1>1, <1>2
        <4>. QED BY <1>3, <4>1, AfterFacts
      <3>2. m - (m - k) = k  BY <1>1, <1>2
      <3>. QED BY <1>1, <2>1, <3>1, <3>2
    <2>3. PICK u \in Seq(Byte) :
            /\ u = SubSeq(input, 2, k) /\ Len(u) = n /\ \A i \in 1..n : u[i] = input[1 + i]
      <3>1. CASE k = 0
        <4>1. SubSeq(input, 2, k) = <<>>  BY <3>1, SubSeqEmpty
        <4>2. <<>> \in Seq(Byte) /\ Len(<<>>) = 0  BY EmptySeq
        <4>3. n = 0 /\ \A i \in 1..n : FALSE  BY <1>4, <3>1
        <4>. QED BY <4>1, <4>2, <4>3
      <3>2. CASE k > 0
        <4>1. 2 \in 1..(m + 1) /\ k \in (2 - 1)..m /\ k - 2 + 1 = n
          BY <1>1, <1>2, <1>4, <3>2
        <4>2. /\ SubSeq(input, 2, k) \in Seq(Byte) /\ Len(SubSeq(input, 2, k)) = k - 2 + 1
              /\ \A i \in 1..(k - 2 + 1) : SubSeq(input, 2, k)[i] = input[2 + i - 1]
          BY <1>1, <1>3, <4>1, PartFacts
        <4>3. \A i \in 1..n : 2 + i - 1 = 1 + i  OBVIOUS
        <4>. QED BY <4>1, <4>2, <4>3
      <3>. QED BY <1>2, <3>1, <3>2
    <2>4. /\ Append(u, c) \in Seq(Byte) /\ Len(Append(u, c)) = n + 1
          /\ \A i \in 1..n : Append(u, c)[i] = u[i]
          /\ Append(u, c)[n + 1] = c
      BY <1>3, <2>3, AppendProperties
    <2>5. ASSUME NEW i \in 1..(n + 1)  PROVE IsFor(Append(u, c)[i], output[i])
      <3>1. CASE i \in 1..n  BY <1>4, <2>3, <2>4, <3>1 DEF Written
      <3>2. CASE i = n + 1  BY <2>1, <2>4, <3>2
      <3>3. i \in 1..n \/ i = n + 1  OBVIOUS
      <3>. QED BY <3>1, <3>2, <3>3
    <2>6. IsTranslation(from, to, Append(u, c), output)
      BY <1>3, <2>1, <2>4, <2>5, TranslationOfAll
    <2>. QED BY <1>5, <2>1, <2>2, <2>3, <2>6, SameTable DEF T!TranslatesItsInput
  <1>6. CASE ~ failed
    <2>1. Len(output) = n /\ k = m /\ (k = 0 => m = 0)
      BY <1>1, <1>2, <1>4, <1>6 DEF HasRead
    <2>2. PICK u \in Seq(Byte) :
            /\ u = (IF input = <<>> THEN input ELSE Tail(input))
            /\ Len(u) = n /\ \A i \in 1..n : u[i] = input[1 + i]
      <3>1. input = <<>> <=> m = 0  BY <1>1, <1>3, EmptySeq
      <3>2. CASE m = 0
        BY <1>3, <1>1, <1>4, <2>1, <3>1, <3>2
      <3>3. CASE m > 0
        <4>1. /\ Tail(input) \in Seq(Byte) /\ Len(Tail(input)) = m - 1
              /\ \A i \in 1..(m - 1) : Tail(input)[i] = input[i + 1]
          BY <1>1, <1>3, <3>1, <3>3, HeadTailProperties
        <4>2. n = m - 1 /\ \A i \in 1..n : i + 1 = 1 + i  BY <1>4, <2>1, <3>3
        <4>3. Len(Tail(input)) = n /\ \A i \in 1..n : Tail(input)[i] = input[1 + i]
          BY <4>1, <4>2
        <4>4. input # <<>>  BY <3>1, <3>3
        <4>. QED BY <4>1, <4>3, <4>4
      <3>. QED BY <1>1, <3>2, <3>3
    <2>3. \A i \in 1..n : IsFor(u[i], output[i])
      BY <1>4, <2>2 DEF Written
    <2>4. IsTranslation(from, to, u, output)
      BY <1>3, <2>1, <2>2, <2>3, TranslationOfAll
    <2>. QED BY <1>6, <2>2, <2>4, SameTable DEF T!TranslatesItsInput
  <1>. QED BY <1>5, <1>6

(* Whichever runs                                                           *)
Tr2Inv ==
  /\ program \in {"tr2b", "tr2u", "sfrob", "sfrobu"}
  /\ program = "tr2b" => Tr2bInv
  /\ program = "tr2u" => Tr2uInv

(* It holds in every state of tr2b.c and tr2u.c.                            *)
THEOREM AlwaysTr2Inv == MCSpec => []Tr2Inv
  <1>1. MCInit => Tr2Inv
    <2>. SUFFICES ASSUME MCInit  PROVE Tr2Inv
      OBVIOUS
    <2>1. CASE program \in {"tr2b", "tr2u"} /\ T!Init
      <3>1. /\ pc = "check" /\ rest = input /\ failed = FALSE /\ output = <<>>
            /\ input \in Inputs /\ c \in Garbage
            /\ \E p \in Arguments : from = p[1] /\ to = p[2]
        BY <2>1 DEF T!Init
      <3>2. input \in Seq(Byte) /\ c \in Byte  BY <3>1, BytesAssumption
      <3>3. from \in Seq(1..127) /\ to \in Seq(1..255)  BY <3>1, ArgumentsAssumption
      <3>4. output \in Seq(Byte)  BY <3>1, EmptySeq
      <3>. QED BY <2>1, <3>1, <3>2, <3>3, <3>4 DEF Tr2Inv, Tr2bInv, Tr2uInv, Tr2Types
    <2>2. CASE program \in {"sfrob", "sfrobu"}
      BY <2>2 DEF Tr2Inv
    <2>. QED BY <2>1, <2>2 DEF MCInit
  <1>2. Tr2Inv /\ [MCNext]_MCVars => Tr2Inv'
    <2>. SUFFICES ASSUME Tr2Inv, [MCNext]_MCVars  PROVE Tr2Inv'
      OBVIOUS
    <2>1. program' = program
      BY DEF MCNext, MCVars, SfrobSteps, SfrobuSteps
    <2>2. CASE program = "tr2u" /\ T!Next
      BY <2>1, <2>2, Tr2uStep DEF Tr2Inv
    <2>3. CASE program = "tr2b" /\ B!Next
      BY <2>1, <2>3, Tr2bStep DEF Tr2Inv
    <2>4. CASE program \in {"sfrob", "sfrobu"}
      BY <2>1, <2>4 DEF Tr2Inv
    <2>5. CASE UNCHANGED MCVars
      <3>1. UNCHANGED <<program, pc, rest, from, to, input, c, failed, output>>
        BY <2>5 DEF MCVars, tr2vars
      <3>2. /\ \A ch, d : IsFor(ch, d)' <=> IsFor(ch, d)
            /\ \A k, n : Written(k, n)' <=> Written(k, n)
            /\ Tr2Types' <=> Tr2Types
        BY <3>1 DEF IsFor, Written, Tr2Types
      <3>3. Tr2bInv => Tr2bInv'
        BY <3>1, <3>2 DEF Tr2bInv
      <3>4. Tr2uInv => Tr2uInv'
        <4>1. \A k : HasRead(k)' <=> HasRead(k)  BY <3>1, <3>2 DEF HasRead, Number
        <4>. QED BY <3>1, <3>2, <4>1 DEF Tr2uInv
      <3>. QED BY <3>1, <3>3, <3>4 DEF Tr2Inv
    <2>. QED BY <2>2, <2>3, <2>4, <2>5 DEF MCNext, SfrobSteps, SfrobuSteps
  <1>. QED BY <1>1, <1>2, PTL DEF MCSpec

(***************************************************************************)
(* tr2u writes the translation of its input but the first character, and   *)
(* the last one read twice if a read fails; tr2b that of its input up to   *)
(* the first 255, and one character more; for all inputs and arguments.    *)
(***************************************************************************)
THEOREM AlwaysTranslates == MCSpec => []Translates
  <1>1. Tr2Inv => Translates
    BY Tr2bEnds, Tr2uEnds DEF Tr2Inv, Translates
  <1>. QED BY <1>1, AlwaysTr2Inv, PTL
------------------------------------------------------------------------------
(* Parts of two sequences that agree there                                  *)
LEMMA SamePart ==
  ASSUME NEW S, NEW s \in Seq(S), NEW t \in Seq(S), NEW m \in 1..Len(s), NEW n \in m..Len(s),
         n <= Len(t), \A i \in 1..n : s[i] = t[i]
  PROVE  SubSeq(t, m, n) = SubSeq(s, m, n)
  <1>1. /\ Len(s) \in Nat /\ Len(t) \in Nat
    BY LenProperties
  <1>2. m \in 1..(Len(s) + 1) /\ n \in (m - 1)..Len(s) /\ m \in 1..(Len(t) + 1) /\ n \in (m - 1)..Len(t)
    BY <1>1
  <1>3. /\ SubSeq(s, m, n) \in Seq(S) /\ Len(SubSeq(s, m, n)) = n - m + 1
        /\ \A i \in 1..(n - m + 1) : SubSeq(s, m, n)[i] = s[m + i - 1]
    BY <1>2, PartFacts
  <1>4. /\ SubSeq(t, m, n) \in Seq(S) /\ Len(SubSeq(t, m, n)) = n - m + 1
        /\ \A i \in 1..(n - m + 1) : SubSeq(t, m, n)[i] = t[m + i - 1]
    BY <1>2, PartFacts
  <1>5. \A i \in 1..(n - m + 1) : m + i - 1 \in 1..n
    BY <1>1
  <1>. QED BY <1>3, <1>4, <1>5, SeqEqual

(* Of a set of numbers there is a least.                                     *)
LEMMA LeastNumber ==
  ASSUME NEW S \in SUBSET Nat, S # {}
  PROVE  \E x \in S : \A y \in S : x <= y
  <1>. DEFINE R == {ss \in Nat \X Nat : ss[1] < ss[2]}
  <1>0. IsWellFoundedOn(R, Nat)
    BY NatLessThanWellFounded DEF OpToRel
  <1>. HIDE DEF R
  <1>1. PICK x \in S : \A y \in S : ~(<<y, x>> \in R)
    BY <1>0, WFMin
  <1>2. \A y \in S : ~(y < x)
    BY <1>1 DEF R
  <1>. QED BY <1>2

------------------------------------------------------------------------------
(* A word with its space, or without: what is printed of it in the end      *)
HasSpace(w) == Contains(w, Space)
Full(w) == IF HasSpace(w) THEN UpToSpace(w) ELSE Append(w, Space)

(* A space is a byte.                                                       *)
LEMMA SpaceByte == Space \in Byte
  BY DEF Space, Byte

(* A word that has a space has a first one, and what is printed ends there. *)
LEMMA UpToFirst ==
  ASSUME NEW w \in Seq(Byte), NEW j \in 1..Len(w), w[j] = Space,
         \A i \in 1..(j - 1) : w[i] # Space
  PROVE  HasSpace(w) /\ UpToSpace(w) = SubSeq(w, 1, j)
  <1>1. PICK n \in Nat : n = Len(w)
    BY LenProperties
  <1>2. \A i \in 1..n : w[i] = Space => j <= i
    <2>. SUFFICES ASSUME NEW i \in 1..n, w[i] = Space, ~ j <= i  PROVE FALSE
      OBVIOUS
    <2>1. i \in 1..(j - 1)  BY <1>1
    <2>. QED BY <2>1
  <1>. DEFINE I == { i \in 1..n : w[i] = Space }
  <1>3. j \in I /\ \A y \in I : j <= y
    BY <1>1, <1>2
  <1>4. Min(I) = j
    <2>1. \A x \in I : (\A y \in I : x =< y) => x = j
      BY <1>1, <1>3
    <2>. HIDE DEF I
    <2>. QED BY <1>3, <2>1 DEF Min
  <1>5. HasSpace(w)
    BY DEF HasSpace, Contains
  <1>. QED BY <1>1, <1>4, <1>5 DEF UpToSpace

(* The least of some places                                                 *)
LEMMA FirstSpace ==
  ASSUME NEW w \in Seq(Byte), HasSpace(w)
  PROVE  \E j \in 1..Len(w) : w[j] = Space /\ \A i \in 1..(j - 1) : w[i] # Space
  <1>1. PICK n \in Nat : n = Len(w)
    BY LenProperties
  <1>. DEFINE I == { i \in Nat : i \in 1..n /\ w[i] = Space }
  <1>2. I # {} /\ I \subseteq Nat
    BY <1>1 DEF HasSpace, Contains
  <1>3. PICK j \in I : \A i \in I : j <= i
    BY <1>2, LeastNumber
  <1>4. \A i \in 1..(j - 1) : w[i] # Space
    <2>. SUFFICES ASSUME NEW i \in 1..(j - 1), w[i] = Space  PROVE FALSE
      OBVIOUS
    <2>1. i \in I /\ i < j  BY <1>1, <1>3
    <2>. QED BY <1>3, <2>1
  <1>. QED BY <1>1, <1>3, <1>4

(* Once a word has its space, more characters change nothing.               *)
LEMMA MoreOfFull ==
  ASSUME NEW w \in Seq(Byte), HasSpace(w), NEW ch \in Byte
  PROVE  HasSpace(Append(w, ch)) /\ Full(Append(w, ch)) = Full(w)
  <1>1. PICK j \in 1..Len(w) : w[j] = Space /\ \A i \in 1..(j - 1) : w[i] # Space
    BY FirstSpace
  <1>2. PICK n \in Nat : n = Len(w)
    BY LenProperties
  <1>3. PICK v : v = Append(w, ch)
    OBVIOUS
  <1>4. v \in Seq(Byte) /\ Len(v) = n + 1 /\ \A i \in 1..n : v[i] = w[i]
    BY <1>2, <1>3, AppendProperties
  <1>5. UpToSpace(w) = SubSeq(w, 1, j)
    BY <1>1, UpToFirst
  <1>6. HasSpace(v) /\ UpToSpace(v) = SubSeq(v, 1, j)
    <2>1. j \in 1..Len(v) /\ v[j] = Space /\ \A i \in 1..(j - 1) : v[i] # Space
      BY <1>1, <1>2, <1>4
    <2>. QED BY <1>4, <2>1, UpToFirst
  <1>7. SubSeq(v, 1, j) = SubSeq(w, 1, j)
    BY <1>1, <1>2, <1>4, SamePart
  <1>. QED BY <1>3, <1>5, <1>6, <1>7 DEF Full

(* A word without a space gets one.                                         *)
LEMMA SpaceOfFull ==
  ASSUME NEW w \in Seq(Byte), ~ HasSpace(w)
  PROVE  /\ HasSpace(Append(w, Space))
         /\ Full(Append(w, Space)) = Append(w, Space)
         /\ Full(w) = Append(w, Space)
         /\ \A ch \in Byte \ {Space} : ~ HasSpace(Append(w, ch))
  <1>1. PICK n \in Nat : n = Len(w) /\ \A i \in 1..n : w[i] # Space
    BY LenProperties DEF HasSpace, Contains
  <1>2. PICK v : v = Append(w, Space)
    OBVIOUS
  <1>3. v \in Seq(Byte) /\ Len(v) = n + 1 /\ v[n + 1] = Space /\ \A i \in 1..n : v[i] = w[i]
    BY <1>1, <1>2, SpaceByte, AppendProperties
  <1>4. HasSpace(v) /\ UpToSpace(v) = SubSeq(v, 1, n + 1)
    <2>1. n + 1 \in 1..Len(v) /\ \A i \in 1..((n + 1) - 1) : v[i] # Space
      BY <1>1, <1>3
    <2>. QED BY <1>3, <2>1, UpToFirst
  <1>5. SubSeq(v, 1, n + 1) = v
    BY <1>3, SubSeqFull
  <1>6. ASSUME NEW ch \in Byte \ {Space}  PROVE ~ HasSpace(Append(w, ch))
    <2>1. PICK x : x = Append(w, ch)
      OBVIOUS
    <2>2. Len(x) = n + 1 /\ x[n + 1] = ch /\ \A i \in 1..n : x[i] = w[i]
      BY <1>1, <2>1, AppendProperties
    <2>3. \A i \in 1..(n + 1) : i \in 1..n \/ i = n + 1
      OBVIOUS
    <2>. QED BY <1>1, <2>1, <2>2, <2>3 DEF HasSpace, Contains
  <1>. QED BY <1>2, <1>4, <1>5, <1>6 DEF Full

------------------------------------------------------------------------------
(* A piece of u from a to b: a word that other words do not touch           *)
IsPiece(u, a, b) ==
  /\ a <= b
  /\ \A m \in a..b : u[m] # Space
  /\ a > 1 => u[a - 1] = Space
  /\ b < Len(u) => u[b + 1] = Space

(* Pieces(u) are the pairs of places between which there is a piece.        *)
LEMMA PiecesAre ==
  ASSUME NEW u
  PROVE  /\ \A p \in Pieces(u) : /\ p = <<p[1], p[2]>> /\ p[1] \in 1..Len(u) /\ p[2] \in 1..Len(u)
                                 /\ IsPiece(u, p[1], p[2])
         /\ \A a, b \in 1..Len(u) : IsPiece(u, a, b) => <<a, b>> \in Pieces(u)
  BY DEF Pieces, IsPiece

(* The pieces behind which there is more                                    *)
Closed(u, w) == { p \in Pieces(u) : p[2] < Len(u) /\ Piece(u, p) = w }

(* With one more character, the pieces that were closed are so still; and   *)
(* a space closes the last.                                                 *)
LEMMA PiecesGrow ==
  ASSUME NEW u \in Seq(Byte), NEW ch \in Byte, NEW a \in 1..(Len(u) + 1), NEW b \in 1..Len(u)
  PROVE  IsPiece(Append(u, ch), a, b) <=>
           IsPiece(u, a, b) /\ (b = Len(u) => ch = Space)
  <1>1. PICK n \in Nat : n = Len(u)
    BY LenProperties
  <1>2. PICK v : v = Append(u, ch)
    OBVIOUS
  <1>3. Len(v) = n + 1 /\ v[n + 1] = ch /\ \A i \in 1..n : v[i] = u[i]
    BY <1>1, <1>2, AppendProperties
  <1>4. a > 1 => a - 1 \in 1..n
    BY <1>1
  <1>5. \A m \in a..b : m \in 1..n
    BY <1>1
  <1>6. CASE b < n
    <2>1. b + 1 \in 1..n /\ b < n + 1 /\ b # n
      BY <1>1, <1>6
    <2>. QED BY <1>1, <1>2, <1>3, <1>4, <1>5, <1>6, <2>1 DEF IsPiece
  <1>7. CASE b = n
    <2>1. b < n + 1 /\ ~ b < n
      BY <1>1, <1>7
    <2>. QED BY <1>1, <1>2, <1>3, <1>4, <1>5, <1>7, <2>1 DEF IsPiece
  <1>8. b < n \/ b = n
    BY <1>1
  <1>. QED BY <1>6, <1>7, <1>8

(* and their words are the same.                                            *)
LEMMA SamePiece ==
  ASSUME NEW u \in Seq(Byte), NEW ch \in Byte, NEW a \in 1..Len(u), NEW b \in a..Len(u)
  PROVE  Piece(Append(u, ch), <<a, b>>) = Piece(u, <<a, b>>)
  <1>1. PICK n \in Nat : n = Len(u)
    BY LenProperties
  <1>2. PICK v : v = Append(u, ch)
    OBVIOUS
  <1>3. v \in Seq(Byte) /\ Len(v) = n + 1 /\ \A i \in 1..n : v[i] = u[i]
    BY <1>1, <1>2, AppendProperties
  <1>4. SubSeq(v, a, b) = SubSeq(u, a, b)
    <2>1. b <= Len(v) /\ \A i \in 1..b : u[i] = v[i]
      BY <1>1, <1>3
    <2>. QED BY <1>3, <2>1, SamePart
  <1>. QED BY <1>2, <1>4 DEF Piece

(* x is what u has behind its last space, and not nothing unless u is.      *)
IsOpen(u, x) ==
  \E k \in 0..Len(u) :
    /\ x = After(u, k)
    /\ k > 0 => u[k] = Space
    /\ \A i \in (k + 1)..Len(u) : u[i] # Space
    /\ k = Len(u) => k = 0

(* The pieces that are closed, with one more character                      *)
LEMMA ClosedGrows ==
  ASSUME NEW u \in Seq(Byte), NEW ch \in Byte, NEW w
  PROVE  Closed(Append(u, ch), w) =
           Closed(u, w) \cup { p \in Pieces(u) : p[2] = Len(u) /\ ch = Space /\ Piece(u, p) = w }
  <1>1. PICK n \in Nat : n = Len(u)
    BY LenProperties
  <1>2. PICK v : v = Append(u, ch)
    OBVIOUS
  <1>3. Len(v) = n + 1
    BY <1>1, <1>2, AppendProperties
  <1>. DEFINE L == { p \in Pieces(u) : p[2] = Len(u) /\ ch = Space /\ Piece(u, p) = w }
  <1>4. ASSUME NEW p \in Closed(v, w)  PROVE p \in Closed(u, w) \cup L
    <2>1. /\ p \in Pieces(v) /\ p[2] < n + 1 /\ Piece(v, p) = w
          /\ p = <<p[1], p[2]>> /\ p[1] \in 1..(n + 1) /\ p[2] \in 1..(n + 1)
          /\ IsPiece(v, p[1], p[2])
      BY <1>3, <1>4, PiecesAre DEF Closed
    <2>2. PICK a \in 1..(n + 1), b \in 1..n : p = <<a, b>> /\ p[1] = a /\ p[2] = b
      <3>1. p[2] \in 1..n  BY <1>1, <2>1
      <3>. QED BY <2>1, <3>1
    <2>3. IsPiece(u, a, b) /\ (b = n => ch = Space)
      BY <1>1, <1>2, <2>1, <2>2, PiecesGrow
    <2>4. a \in 1..n /\ b \in a..n
      BY <1>1, <2>2, <2>3 DEF IsPiece
    <2>5. p \in Pieces(u)
      BY <1>1, <2>2, <2>3, <2>4, PiecesAre
    <2>6. Piece(u, p) = w
      BY <1>1, <1>2, <2>1, <2>2, <2>4, SamePiece
    <2>7. b < n \/ b = n
      BY <1>1, <2>2
    <2>. QED BY <1>1, <2>2, <2>3, <2>5, <2>6, <2>7 DEF Closed
  <1>5. ASSUME NEW p \in Closed(u, w) \cup L  PROVE p \in Closed(v, w)
    <2>1. /\ p \in Pieces(u) /\ Piece(u, p) = w /\ (p[2] = n => ch = Space)
          /\ p = <<p[1], p[2]>> /\ p[1] \in 1..n /\ p[2] \in 1..n
          /\ IsPiece(u, p[1], p[2])
      <3>1. p \in Pieces(u) /\ Piece(u, p) = w /\ (p[2] < n \/ ch = Space)
        BY <1>1, <1>5 DEF Closed
      <3>2. p = <<p[1], p[2]>> /\ p[1] \in 1..n /\ p[2] \in 1..n /\ IsPiece(u, p[1], p[2])
        BY <1>1, <3>1, PiecesAre
      <3>. QED BY <1>1, <3>1, <3>2
    <2>2. PICK a \in 1..n, b \in 1..n : p = <<a, b>> /\ p[1] = a /\ p[2] = b
      BY <2>1
    <2>3. IsPiece(v, a, b)
      <3>1. a \in 1..(n + 1)  BY <1>1
      <3>. QED BY <1>1, <1>2, <2>1, <2>2, <3>1, PiecesGrow
    <2>4. a \in 1..(n + 1) /\ b \in 1..(n + 1) /\ b < n + 1 /\ b \in a..n
      BY <1>1, <2>1, <2>2 DEF IsPiece
    <2>5. p \in Pieces(v)
      BY <1>3, <2>2, <2>3, <2>4, PiecesAre
    <2>6. Piece(v, p) = w
      BY <1>1, <1>2, <2>1, <2>2, <2>4, SamePiece
    <2>. QED BY <1>3, <2>2, <2>4, <2>5, <2>6 DEF Closed
  <1>. QED BY <1>2, <1>4, <1>5

------------------------------------------------------------------------------
(* How often a word is in a list, once it is printed; and how often it has  *)
(* been read                                                                *)
Times(list, w) == Cardinality({ i \in DOMAIN list : Full(list[i]) = w })
StartsSo(u, w) == IF u # <<>> /\ u[1] = Space /\ w = <<Space>> THEN 1 ELSE 0
TimesRead(u, w) == Cardinality(Closed(u, w)) + StartsSo(u, w)

(* One word more in the list                                                *)
LEMMA TimesAppend ==
  ASSUME NEW list \in Seq(Seq(Byte)), NEW x \in Seq(Byte), NEW w
  PROVE  /\ Times(list, w) \in Nat
         /\ Times(Append(list, x), w) = Times(list, w) + (IF Full(x) = w THEN 1 ELSE 0)
  <1>1. PICK n \in Nat : n = Len(list) /\ DOMAIN list = 1..n
    BY LenProperties
  <1>2. PICK more : more = Append(list, x)
    OBVIOUS
  <1>3. more \in Seq(Seq(Byte)) /\ Len(more) = n + 1 /\ more[n + 1] = x
        /\ \A i \in 1..n : more[i] = list[i]
    BY <1>1, <1>2, AppendProperties
  <1>4. DOMAIN more = 1..(n + 1)
    BY <1>3, LenProperties
  <1>. DEFINE I == { i \in 1..n : Full(list[i]) = w }
              J == { i \in 1..(n + 1) : Full(more[i]) = w }
  <1>5. IsFiniteSet(I) /\ Cardinality(I) \in Nat /\ n + 1 \notin I
    <2>1. IsFiniteSet(1..n)  BY <1>1, FS_Interval
    <2>2. I \in SUBSET (1..n)  OBVIOUS
    <2>3. IsFiniteSet(I)
      <3>. HIDE DEF I
      <3>. QED BY <2>1, <2>2, FS_Subset
    <2>4. Cardinality(I) \in Nat
      <3>. HIDE DEF I
      <3>. QED BY <2>3, FS_CardinalityType
    <2>. QED BY <1>1, <2>3, <2>4
  <1>6. J = IF Full(x) = w THEN I \cup {n + 1} ELSE I
    <2>1. \A i \in 1..(n + 1) : i \in 1..n \/ i = n + 1
      BY <1>1
    <2>2. \A i \in 1..n : i \in 1..(n + 1)
      BY <1>1
    <2>3. n + 1 \in 1..(n + 1)
      BY <1>1
    <2>. QED BY <1>3, <2>1, <2>2, <2>3
  <1>7. Cardinality(J) = Cardinality(I) + (IF Full(x) = w THEN 1 ELSE 0)
    <2>. HIDE DEF I, J
    <2>1. Cardinality(I \cup {n + 1}) = Cardinality(I) + 1
      BY <1>5, FS_AddElement
    <2>. QED BY <1>5, <1>6, <2>1
  <1>. QED BY <1>1, <1>2, <1>4, <1>5, <1>7 DEF Times

(* A text has finitely many pieces.                                         *)
LEMMA FinitelyMany ==
  ASSUME NEW u \in Seq(Byte), NEW P \in SUBSET Pieces(u)
  PROVE  IsFiniteSet(P) /\ Cardinality(P) \in Nat
  <1>1. PICK n \in Nat : n = Len(u)
    BY LenProperties
  <1>2. IsFiniteSet(1..n)
    BY <1>1, FS_Interval
  <1>3. IsFiniteSet((1..n) \X (1..n))
    BY <1>2, FS_Product
  <1>4. P \in SUBSET ((1..n) \X (1..n))
    BY <1>1 DEF Pieces
  <1>5. IsFiniteSet(P)
    BY <1>3, <1>4, FS_Subset
  <1>. QED BY <1>5, FS_CardinalityType

(* What is open is the one piece at the end.                                *)
LEMMA OpenPiece ==
  ASSUME NEW u \in Seq(Byte), u # <<>>, NEW x, IsOpen(u, x)
  PROVE  \E q \in Pieces(u) : /\ q[2] = Len(u) /\ Piece(u, q) = Append(x, Space)
                              /\ q[2] - q[1] + 1 = Len(x)
                              /\ \A p \in Pieces(u) : p[2] = Len(u) => p = q
  <1>1. PICK n \in Nat : n = Len(u) /\ n > 0
    BY EmptySeq, LenProperties
  <1>2. PICK k \in 0..n : /\ x = After(u, k)
                          /\ k > 0 => u[k] = Space
                          /\ \A i \in (k + 1)..n : u[i] # Space
                          /\ k = n => k = 0
    BY <1>1 DEF IsOpen
  <1>3. k + 1 \in 1..n /\ n \in 1..n /\ (k + 1 > 1 => (k + 1) - 1 = k /\ k > 0) /\ ~ n < n /\ k + 1 <= n
    BY <1>1, <1>2
  <1>4. PICK a \in 1..n : a = k + 1
    BY <1>3
  <1>5. IsPiece(u, a, n)
    BY <1>1, <1>2, <1>3, <1>4 DEF IsPiece
  <1>6. <<a, n>> \in Pieces(u)
    BY <1>1, <1>3, <1>5, PiecesAre
  <1>7. Piece(u, <<a, n>>) = Append(x, Space)
    BY <1>1, <1>2, <1>4 DEF Piece, After
  <1>8. ASSUME NEW p \in Pieces(u), p[2] = n  PROVE p = <<a, n>>
    <2>1. p = <<p[1], p[2]>> /\ p[1] \in 1..n /\ IsPiece(u, p[1], p[2])
      BY <1>1, PiecesAre
    <2>2. PICK b \in 1..n : b = p[1] /\ IsPiece(u, b, n)
      BY <1>8, <2>1
    <2>3. ~ b > a
      <3>1. b > a => b > 1 /\ b - 1 \in (k + 1)..n  BY <1>2, <1>4
      <3>. QED BY <1>2, <2>2, <3>1 DEF IsPiece
    <2>4. ~ b < a
      <3>1. b < a => k > 0 /\ k \in b..n  BY <1>2, <1>4
      <3>. QED BY <1>2, <2>2, <3>1 DEF IsPiece
    <2>5. b = a
      BY <2>3, <2>4
    <2>. QED BY <1>8, <2>1, <2>2, <2>5
  <1>9. n - a + 1 = Len(x)
    <2>1. Len(After(u, k)) = Len(u) - k  BY <1>1, <1>2, AfterFacts
    <2>. QED BY <1>1, <1>2, <1>4, <2>1
  <1>. QED BY <1>1, <1>6, <1>7, <1>8, <1>9

(* A space after a word closes it; nothing else does.                       *)
LEMMA TimesReadGrows ==
  ASSUME NEW u \in Seq(Byte), NEW ch \in Byte, NEW w
  PROVE  /\ TimesRead(u, w) \in Nat
         /\ ch # Space \/ (u # <<>> /\ u[Len(u)] = Space)
              => TimesRead(Append(u, ch), w) = TimesRead(u, w)
         /\ \A x : IsOpen(u, x) =>
              TimesRead(Append(u, Space), w) =
                TimesRead(u, w) + (IF w = Append(x, Space) THEN 1 ELSE 0)
  <1>1. PICK n \in Nat : n = Len(u) /\ (u = <<>> <=> n = 0)
    BY EmptySeq, LenProperties
  <1>2. Cardinality(Closed(u, w)) \in Nat /\ IsFiniteSet(Closed(u, w))
    <2>1. Closed(u, w) \in SUBSET Pieces(u)  BY DEF Closed
    <2>. QED BY <2>1, FinitelyMany
  <1>3. TimesRead(u, w) \in Nat
    BY <1>2 DEF TimesRead, StartsSo
  <1>4. ASSUME ch # Space \/ (u # <<>> /\ u[n] = Space)
        PROVE  TimesRead(Append(u, ch), w) = TimesRead(u, w)
    <2>1. \A p \in Pieces(u) : ~ (p[2] = n /\ ch = Space)
      <3>. SUFFICES ASSUME NEW p \in Pieces(u), p[2] = n, ch = Space  PROVE FALSE
        OBVIOUS
      <3>1. p[1] \in 1..n /\ IsPiece(u, p[1], p[2])  BY <1>1, PiecesAre
      <3>2. n \in p[1]..p[2]  BY <3>1
      <3>. QED BY <1>4, <3>1, <3>2 DEF IsPiece
    <2>2. Closed(Append(u, ch), w) = Closed(u, w)
      <3>1. Closed(Append(u, ch), w) =
              Closed(u, w) \cup { p \in Pieces(u) : p[2] = Len(u) /\ ch = Space /\ Piece(u, p) = w }
        BY ClosedGrows
      <3>. QED BY <1>1, <2>1, <3>1
    <2>3. PICK v : v = Append(u, ch)
      OBVIOUS
    <2>4. v # <<>> /\ v[n + 1] = ch /\ \A i \in 1..n : v[i] = u[i]
      BY <1>1, <2>3, AppendProperties
    <2>5. v[1] = Space <=> n > 0 /\ u[1] = Space
      <3>1. CASE n = 0
        <4>1. v[1] = ch  BY <2>4, <3>1
        <4>. QED BY <1>1, <1>4, <3>1, <4>1
      <3>2. CASE n > 0
        <4>1. 1 \in 1..n  BY <1>1, <3>2
        <4>. QED BY <2>4, <3>2, <4>1
      <3>. QED BY <1>1, <3>1, <3>2
    <2>6. StartsSo(v, w) = StartsSo(u, w)
      <3>1. n > 0 <=> u # <<>>  BY <1>1
      <3>. QED BY <2>4, <2>5, <3>1 DEF StartsSo
    <2>. QED BY <2>2, <2>3, <2>6 DEF TimesRead
  <1>5. ASSUME NEW x, IsOpen(u, x)
        PROVE  TimesRead(Append(u, Space), w) =
                 TimesRead(u, w) + (IF w = Append(x, Space) THEN 1 ELSE 0)
    <2>1. PICK v : v = Append(u, Space)
      OBVIOUS
    <2>2. v # <<>> /\ v[n + 1] = Space /\ \A i \in 1..n : v[i] = u[i]
      BY <1>1, <2>1, SpaceByte, AppendProperties
    <2>3. CASE n = 0
      <3>1. x = <<>>
        <4>1. PICK k \in 0..0 : x = After(u, k)  BY <1>1, <2>3, <1>5 DEF IsOpen
        <4>2. k = 0  BY <4>1
        <4>. QED BY <1>1, <2>3, <4>1, <4>2, AfterFacts
      <3>2. Pieces(u) = {}
        <4>1. \A p \in Pieces(u) : p[1] \in 1..0  BY <1>1, <2>3, PiecesAre
        <4>. QED BY <4>1
      <3>3. Closed(v, w) = Closed(u, w)
        <4>1. Closed(v, w) =
                Closed(u, w) \cup { p \in Pieces(u) : p[2] = Len(u) /\ Space = Space /\ Piece(u, p) = w }
          BY <2>1, SpaceByte, ClosedGrows
        <4>. QED BY <3>2, <4>1
      <3>4. v[1] = Space
        <4>1. n + 1 = 1  BY <2>3
        <4>. QED BY <2>2, <4>1
      <3>5. StartsSo(v, w) = (IF w = <<Space>> THEN 1 ELSE 0) /\ StartsSo(u, w) = 0
        BY <1>1, <2>2, <2>3, <3>4 DEF StartsSo
      <3>6. Append(<<>>, Space) = <<Space>>
        OBVIOUS
      <3>. QED BY <1>2, <2>1, <3>1, <3>3, <3>5, <3>6 DEF TimesRead
    <2>4. CASE n > 0
      <3>1. StartsSo(v, w) = StartsSo(u, w)
        <4>1. 1 \in 1..n  BY <1>1, <2>4
        <4>. QED BY <1>1, <2>2, <2>4, <4>1 DEF StartsSo
      <3>2. PICK q \in Pieces(u) : /\ q[2] = n /\ Piece(u, q) = Append(x, Space)
                                   /\ \A p \in Pieces(u) : p[2] = n => p = q
        <4>1. u # <<>>  BY <1>1, <2>4
        <4>. QED BY <1>1, <1>5, <4>1, OpenPiece
      <3>3. Closed(v, w) = Closed(u, w) \cup { p \in Pieces(u) : p[2] = n /\ Piece(u, p) = w }
        BY <1>1, <2>1, SpaceByte, ClosedGrows
      <3>4. Closed(v, w) = IF w = Append(x, Space) THEN Closed(u, w) \cup {q} ELSE Closed(u, w)
        BY <3>2, <3>3
      <3>5. q \notin Closed(u, w)
        BY <1>1, <3>2 DEF Closed
      <3>6. Cardinality(Closed(u, w) \cup {q}) = Cardinality(Closed(u, w)) + 1
        BY <1>2, <3>5, FS_AddElement
      <3>7. StartsSo(u, w) \in Nat
        BY DEF StartsSo
      <3>8. Cardinality(Closed(v, w)) = Cardinality(Closed(u, w)) + (IF w = Append(x, Space) THEN 1 ELSE 0)
        BY <1>2, <3>4, <3>6
      <3>. QED BY <1>2, <2>1, <3>1, <3>7, <3>8 DEF TimesRead
    <2>. QED BY <1>1, <2>3, <2>4
  <1>. QED BY <1>1, <1>3, <1>4, <1>5

------------------------------------------------------------------------------
(* What comes after k characters gets longer at its end.                    *)
LEMMA AfterAppend ==
  ASSUME NEW u \in Seq(Byte), NEW ch \in Byte, NEW k \in 0..Len(u)
  PROVE  After(Append(u, ch), k) = Append(After(u, k), ch)
  <1>1. PICK n \in Nat : n = Len(u)
    BY LenProperties
  <1>2. PICK v : v = Append(u, ch)
    OBVIOUS
  <1>3. v \in Seq(Byte) /\ Len(v) = n + 1 /\ v[n + 1] = ch /\ \A i \in 1..n : v[i] = u[i]
    BY <1>1, <1>2, AppendProperties
  <1>4. k + 1 \in 1..(n + 1) /\ n \in ((k + 1) - 1)..n /\ n - (k + 1) + 1 = n - k
        /\ k + 1 \in 1..((n + 1) + 1) /\ n + 1 \in ((k + 1) - 1)..(n + 1)
        /\ (n + 1) - (k + 1) + 1 = n - k + 1
    BY <1>1
  <1>5. PICK x : x = After(u, k)
    OBVIOUS
  <1>6. x \in Seq(Byte) /\ Len(x) = n - k /\ \A i \in 1..(n - k) : x[i] = u[(k + 1) + i - 1]
    BY <1>1, <1>4, <1>5, PartFacts DEF After
  <1>7. PICK y : y = After(v, k)
    OBVIOUS
  <1>8. y \in Seq(Byte) /\ Len(y) = n - k + 1 /\ \A i \in 1..(n - k + 1) : y[i] = v[(k + 1) + i - 1]
    BY <1>3, <1>4, <1>7, PartFacts DEF After
  <1>9. PICK z : z = Append(x, ch)
    OBVIOUS
  <1>10. z \in Seq(Byte) /\ Len(z) = n - k + 1 /\ z[n - k + 1] = ch /\ \A i \in 1..(n - k) : z[i] = x[i]
    BY <1>6, <1>9, AppendProperties
  <1>11. ASSUME NEW i \in 1..(n - k + 1)  PROVE y[i] = z[i]
    <2>1. CASE i = n - k + 1
      <3>1. (k + 1) + i - 1 = n + 1  BY <1>1, <2>1
      <3>. QED BY <1>3, <1>8, <1>10, <2>1, <3>1
    <2>2. CASE i # n - k + 1
      <3>1. i \in 1..(n - k) /\ (k + 1) + i - 1 \in 1..n  BY <1>1, <2>2
      <3>. QED BY <1>3, <1>6, <1>8, <1>10, <3>1
    <2>. QED BY <2>1, <2>2
  <1>12. y = z
    BY <1>8, <1>10, <1>11, SeqEqual
  <1>. QED BY <1>2, <1>5, <1>7, <1>9, <1>12

(* A word goes on, or a new one begins.                                     *)
LEMMA OpenGrows ==
  ASSUME NEW u \in Seq(Byte), NEW ch \in Byte \ {Space}
  PROVE  /\ \A x : IsOpen(u, x) => IsOpen(Append(u, ch), Append(x, ch))
         /\ u = <<>> \/ u[Len(u)] = Space => IsOpen(Append(u, ch), <<ch>>)
  <1>1. PICK n \in Nat : n = Len(u) /\ (u = <<>> <=> n = 0)
    BY EmptySeq, LenProperties
  <1>2. PICK v : v = Append(u, ch)
    OBVIOUS
  <1>3. v \in Seq(Byte) /\ Len(v) = n + 1 /\ v[n + 1] = ch /\ \A i \in 1..n : v[i] = u[i]
    BY <1>1, <1>2, AppendProperties
  <1>4. ASSUME NEW k \in 0..n, k > 0 => u[k] = Space, \A i \in (k + 1)..n : u[i] # Space
        PROVE  IsOpen(v, Append(After(u, k), ch))
    <2>1. After(v, k) = Append(After(u, k), ch)
      BY <1>1, <1>2, AfterAppend
    <2>2. k \in 0..(n + 1) /\ k # n + 1
      BY <1>1
    <2>3. k > 0 => v[k] = Space
      <3>1. k > 0 => k \in 1..n  OBVIOUS
      <3>. QED BY <1>3, <1>4, <3>1
    <2>4. \A i \in (k + 1)..(n + 1) : v[i] # Space
      <3>1. \A i \in (k + 1)..(n + 1) : i = n + 1 \/ (i \in (k + 1)..n /\ i \in 1..n)
        BY <1>1
      <3>. QED BY <1>3, <1>4, <3>1
    <2>. QED BY <1>3, <2>1, <2>2, <2>3, <2>4 DEF IsOpen
  <1>5. ASSUME NEW x, IsOpen(u, x)  PROVE IsOpen(v, Append(x, ch))
    <2>1. PICK k \in 0..n : x = After(u, k) /\ (k > 0 => u[k] = Space)
                            /\ \A i \in (k + 1)..n : u[i] # Space
      BY <1>1, <1>5 DEF IsOpen
    <2>. QED BY <1>4, <2>1
  <1>6. ASSUME u = <<>> \/ u[n] = Space  PROVE IsOpen(v, <<ch>>)
    <2>1. n \in 0..n /\ \A i \in (n + 1)..n : FALSE
      BY <1>1
    <2>2. After(u, n) = <<>>
      <3>1. n \in 0..Len(u)  BY <1>1
      <3>. QED BY <1>1, <3>1, AfterFacts
    <2>3. n > 0 => u[n] = Space
      BY <1>1, <1>6
    <2>4. Append(<<>>, ch) = <<ch>>
      OBVIOUS
    <2>5. IsOpen(v, Append(After(u, n), ch))
      BY <1>4, <2>1, <2>3
    <2>. QED BY <2>2, <2>4, <2>5
  <1>. QED BY <1>1, <1>2, <1>5, <1>6
------------------------------------------------------------------------------
(***************************************************************************)
(* When u has been read, the words of u that are closed are in the list,   *)
(* each as often as it is in u, the last of them still on its own, or else *)
(* with what is open of the next.                                          *)
(***************************************************************************)
Counted(list, u) == \A w : Times(list, w) = TimesRead(u, w)

ReadSo(u, list, word) ==
  /\ u \in Seq(Byte) /\ word \in Seq(Byte) /\ list \in Seq(Seq(Byte))
  /\ \A i \in 1..Len(list) : HasSpace(list[i])
  /\ HasSpace(word) => u # <<>> /\ u[Len(u)] = Space /\ Counted(Append(list, word), u)
  /\ ~ HasSpace(word) => IsOpen(u, word) /\ Counted(list, u)

(* So it begins.                                                            *)
LEMMA ReadsNothing == ReadSo(<<>>, <<>>, <<>>)
  <1>1. /\ <<>> \in Seq(Byte) /\ <<>> \in Seq(Seq(Byte)) /\ Len(<<>>) = 0
    BY EmptySeq
  <1>2. ~ HasSpace(<<>>)
    BY <1>1 DEF HasSpace, Contains
  <1>3. IsOpen(<<>>, <<>>)
    <2>1. After(<<>>, 0) = <<>>
      <3>1. 0 \in 0..Len(<<>>)  BY <1>1
      <3>. QED BY <1>1, <3>1, AfterFacts
    <2>2. 0 \in 0..0 /\ ~ 0 > 0 /\ \A i \in (0 + 1)..0 : FALSE
      OBVIOUS
    <2>. QED BY <1>1, <2>1, <2>2 DEF IsOpen
  <1>4. Counted(<<>>, <<>>)
    <2>. SUFFICES ASSUME NEW w  PROVE Times(<<>>, w) = TimesRead(<<>>, w)
      BY DEF Counted
    <2>1. { i \in DOMAIN <<>> : Full(<<>>[i]) = w } = {}
      OBVIOUS
    <2>2. Pieces(<<>>) = {}
      <3>1. \A p \in Pieces(<<>>) : p[1] \in 1..0  BY <1>1, PiecesAre
      <3>. QED BY <3>1
    <2>3. Closed(<<>>, w) = {}
      BY <2>2 DEF Closed
    <2>. QED BY <2>1, <2>3, FS_EmptySet DEF Times, TimesRead, StartsSo
  <1>. QED BY <1>1, <1>2, <1>3, <1>4 DEF ReadSo

(* A character of a word                                                    *)
LEMMA ReadsChar ==
  ASSUME NEW u, NEW list, NEW word, ReadSo(u, list, word), ~ HasSpace(word), NEW ch \in Byte
  PROVE  ReadSo(Append(u, ch), list, Append(word, ch))
  <1>1. /\ u \in Seq(Byte) /\ word \in Seq(Byte) /\ list \in Seq(Seq(Byte))
        /\ \A i \in 1..Len(list) : HasSpace(list[i])
        /\ IsOpen(u, word) /\ Counted(list, u)
    BY DEF ReadSo
  <1>2. PICK n \in Nat : n = Len(u)
    BY <1>1, LenProperties
  <1>3. PICK v : v = Append(u, ch)
    OBVIOUS
  <1>4. PICK x : x = Append(word, ch)
    OBVIOUS
  <1>5. v \in Seq(Byte) /\ v # <<>> /\ Len(v) = n + 1 /\ v[n + 1] = ch /\ x \in Seq(Byte)
    BY <1>1, <1>2, <1>3, <1>4, AppendProperties
  <1>6. CASE ch = Space
    <2>1. HasSpace(x) /\ Full(x) = x
      BY <1>1, <1>4, <1>6, SpaceOfFull
    <2>2. ASSUME NEW w  PROVE Times(Append(list, x), w) = TimesRead(v, w)
      <3>1. Times(Append(list, x), w) = Times(list, w) + (IF Full(x) = w THEN 1 ELSE 0)
        BY <1>1, <1>5, TimesAppend
      <3>2. TimesRead(v, w) = TimesRead(u, w) + (IF w = x THEN 1 ELSE 0)
        BY <1>1, <1>3, <1>4, <1>6, SpaceByte, TimesReadGrows
      <3>. QED BY <1>1, <2>1, <3>1, <3>2 DEF Counted
    <2>. QED BY <1>1, <1>3, <1>4, <1>5, <1>6, <2>1, <2>2 DEF ReadSo, Counted
  <1>7. CASE ch # Space
    <2>1. ~ HasSpace(x)
      BY <1>1, <1>4, <1>7, SpaceOfFull
    <2>2. IsOpen(v, x)
      BY <1>1, <1>3, <1>4, <1>7, OpenGrows
    <2>3. ASSUME NEW w  PROVE Times(list, w) = TimesRead(v, w)
      <3>1. TimesRead(v, w) = TimesRead(u, w)
        BY <1>1, <1>3, <1>7, TimesReadGrows
      <3>. QED BY <1>1, <3>1 DEF Counted
    <2>. QED BY <1>1, <1>3, <1>4, <1>5, <2>1, <2>2, <2>3 DEF ReadSo, Counted
  <1>. QED BY <1>6, <1>7

(* A space too many                                                         *)
LEMMA ReadsSpace ==
  ASSUME NEW u, NEW list, NEW word, ReadSo(u, list, word), HasSpace(word)
  PROVE  ReadSo(Append(u, Space), list, word)
  <1>1. /\ u \in Seq(Byte) /\ word \in Seq(Byte) /\ list \in Seq(Seq(Byte))
        /\ \A i \in 1..Len(list) : HasSpace(list[i])
        /\ u # <<>> /\ u[Len(u)] = Space /\ Counted(Append(list, word), u)
    BY DEF ReadSo
  <1>2. PICK v : v = Append(u, Space)
    OBVIOUS
  <1>3. v \in Seq(Byte) /\ v # <<>> /\ v[Len(v)] = Space
    BY <1>1, <1>2, SpaceByte, AppendProperties
  <1>4. \A w : TimesRead(v, w) = TimesRead(u, w)
    BY <1>1, <1>2, SpaceByte, TimesReadGrows
  <1>. QED BY <1>1, <1>2, <1>3, <1>4 DEF ReadSo, Counted

(* The first character of the next word                                     *)
LEMMA ReadsWord ==
  ASSUME NEW u, NEW list, NEW word, ReadSo(u, list, word), HasSpace(word),
         NEW ch \in Byte \ {Space}
  PROVE  ReadSo(Append(u, ch), Append(list, word), <<ch>>)
  <1>1. /\ u \in Seq(Byte) /\ word \in Seq(Byte) /\ list \in Seq(Seq(Byte))
        /\ \A i \in 1..Len(list) : HasSpace(list[i])
        /\ u # <<>> /\ u[Len(u)] = Space /\ Counted(Append(list, word), u)
    BY DEF ReadSo
  <1>2. PICK v : v = Append(u, ch)
    OBVIOUS
  <1>3. v \in Seq(Byte) /\ <<ch>> \in Seq(Byte)
    <2>1. Append(<<>>, ch) = <<ch>> /\ <<>> \in Seq(Byte)  BY EmptySeq
    <2>. QED BY <1>1, <1>2, <2>1, AppendProperties
  <1>4. PICK more : more = Append(list, word)
    OBVIOUS
  <1>5. more \in Seq(Seq(Byte)) /\ \A i \in 1..Len(more) : HasSpace(more[i])
    <2>1. PICK n \in Nat : n = Len(list)  BY <1>1, LenProperties
    <2>2. more \in Seq(Seq(Byte)) /\ Len(more) = n + 1 /\ more[n + 1] = word
          /\ \A i \in 1..n : more[i] = list[i]
      BY <1>1, <1>4, <2>1, AppendProperties
    <2>3. \A i \in 1..(n + 1) : i \in 1..n \/ i = n + 1  BY <2>1
    <2>. QED BY <1>1, <2>1, <2>2, <2>3
  <1>6. ~ HasSpace(<<ch>>)
    BY DEF HasSpace, Contains
  <1>7. IsOpen(v, <<ch>>)
    BY <1>1, <1>2, OpenGrows
  <1>8. \A w : TimesRead(v, w) = TimesRead(u, w)
    BY <1>1, <1>2, TimesReadGrows
  <1>. QED BY <1>1, <1>2, <1>3, <1>4, <1>5, <1>6, <1>7, <1>8 DEF ReadSo, Counted

------------------------------------------------------------------------------
(* All words of u are in the list, each as often as it is in u, though the  *)
(* last may lack its space, or have it twice.                               *)
AllListed(u, list) ==
  /\ list \in Seq(Seq(Byte))
  /\ \A w : Times(list, w) = TimesIn(u, w)

(* At the end of u, whether the last word gets a space or not               *)
LEMMA ReadsAll ==
  ASSUME NEW u, NEW list, NEW word, ReadSo(u, list, word), NEW e \in {word, Append(word, Space)}
  PROVE  AllListed(u, Append(list, e))
  <1>1. u \in Seq(Byte) /\ word \in Seq(Byte) /\ list \in Seq(Seq(Byte))
    BY DEF ReadSo
  <1>2. PICK n \in Nat : n = Len(u) /\ (u = <<>> <=> n = 0)
    BY <1>1, EmptySeq, LenProperties
  <1>3. e \in Seq(Byte) /\ Full(e) = Full(word)
    <2>1. Append(word, Space) \in Seq(Byte)  BY <1>1, SpaceByte, AppendProperties
    <2>2. Full(Append(word, Space)) = Full(word)  BY <1>1, SpaceByte, MoreOfFull, SpaceOfFull
    <2>. QED BY <1>1, <2>1, <2>2
  <1>4. Append(list, e) \in Seq(Seq(Byte))
    BY <1>1, <1>3, AppendProperties
  <1>5. ASSUME NEW w
        PROVE  /\ Times(list, w) \in Nat
               /\ Times(Append(list, e), w) = Times(list, w) + (IF Full(word) = w THEN 1 ELSE 0)
               /\ Times(Append(list, e), w) = Times(Append(list, word), w)
    BY <1>1, <1>3, TimesAppend
  <1>. DEFINE Of(w) == { p \in Pieces(u) : Piece(u, p) = w }
  <1>6. StartsEmpty(u) <=> u = <<>> \/ u[1] = Space
    BY <1>1 DEF StartsEmpty
  <1>7. CASE HasSpace(word)
    <2>1. u # <<>> /\ u[n] = Space /\ Counted(Append(list, word), u)
      BY <1>2, <1>7 DEF ReadSo
    <2>2. \A p \in Pieces(u) : p[2] < n
      <3>. SUFFICES ASSUME NEW p \in Pieces(u), ~ p[2] < n  PROVE FALSE
        OBVIOUS
      <3>1. p[1] \in 1..n /\ p[2] \in 1..n /\ IsPiece(u, p[1], p[2])  BY <1>2, PiecesAre
      <3>2. n \in p[1]..p[2]
        <4>1. p[2] = n  BY <3>1
        <4>. QED BY <3>1, <4>1
      <3>. QED BY <2>1, <3>1, <3>2 DEF IsPiece
    <2>3. ASSUME NEW w  PROVE TimesRead(u, w) = TimesIn(u, w)
      <3>1. Closed(u, w) = Of(w)  BY <1>2, <2>2 DEF Closed
      <3>. QED BY <1>6, <2>1, <3>1 DEF TimesRead, TimesIn, StartsSo
    <2>. QED BY <1>4, <1>5, <2>1, <2>3 DEF Counted, AllListed
  <1>8. CASE ~ HasSpace(word)
    <2>1. IsOpen(u, word) /\ Counted(list, u) /\ Full(word) = Append(word, Space)
      BY <1>1, <1>8, SpaceOfFull DEF ReadSo
    <2>2. CASE u = <<>>
      <3>1. word = <<>>
        <4>1. PICK k \in 0..0 : word = After(u, k)  BY <1>2, <2>1, <2>2 DEF IsOpen
        <4>2. k = 0  BY <4>1
        <4>. QED BY <1>1, <1>2, <2>2, <4>1, <4>2, AfterFacts
      <3>2. Full(word) = <<Space>>
        BY <2>1, <3>1
      <3>3. Pieces(u) = {}
        <4>1. \A p \in Pieces(u) : p[1] \in 1..0  BY <1>2, <2>2, PiecesAre
        <4>. QED BY <4>1
      <3>4. ASSUME NEW w  PROVE TimesRead(u, w) = 0 /\ TimesIn(u, w) = (IF w = <<Space>> THEN 1 ELSE 0)
        <4>1. Closed(u, w) = {} /\ Of(w) = {}  BY <3>3 DEF Closed
        <4>2. Cardinality(Closed(u, w)) = 0 /\ Cardinality(Of(w)) = 0  BY <4>1, FS_EmptySet
        <4>3. StartsSo(u, w) = 0  BY <2>2 DEF StartsSo
        <4>4. TimesRead(u, w) = 0  BY <4>2, <4>3 DEF TimesRead
        <4>5. TimesIn(u, w) = (IF w = <<Space>> THEN 1 ELSE 0)  BY <1>6, <2>2, <4>2 DEF TimesIn
        <4>. QED BY <4>4, <4>5
      <3>. QED BY <1>4, <1>5, <2>1, <3>2, <3>4 DEF Counted, AllListed
    <2>3. CASE u # <<>>
      <3>1. PICK q \in Pieces(u) : /\ q[2] = n /\ Piece(u, q) = Append(word, Space)
                                   /\ \A p \in Pieces(u) : p[2] = n => p = q
        BY <1>1, <1>2, <2>1, <2>3, OpenPiece
      <3>2. ASSUME NEW w
            PROVE  TimesIn(u, w) = TimesRead(u, w) + (IF Full(word) = w THEN 1 ELSE 0)
        <4>1. IsFiniteSet(Closed(u, w)) /\ Cardinality(Closed(u, w)) \in Nat
          <5>1. Closed(u, w) \in SUBSET Pieces(u)  BY DEF Closed
          <5>. QED BY <1>1, <5>1, FinitelyMany
        <4>2. q \notin Closed(u, w)
          BY <1>2, <3>1 DEF Closed
        <4>3. Of(w) = IF Full(word) = w THEN Closed(u, w) \cup {q} ELSE Closed(u, w)
          <5>1. \A p \in Pieces(u) : p[2] < n \/ p[2] = n
            <6>1. \A p \in Pieces(u) : p[2] \in 1..n  BY <1>2, PiecesAre
            <6>. QED BY <1>2, <6>1
          <5>. QED BY <1>2, <2>1, <3>1, <5>1 DEF Closed
        <4>4. Cardinality(Closed(u, w) \cup {q}) = Cardinality(Closed(u, w)) + 1
          BY <4>1, <4>2, FS_AddElement
        <4>5. Cardinality(Of(w)) = Cardinality(Closed(u, w)) + (IF Full(word) = w THEN 1 ELSE 0)
          <5>. HIDE DEF Of
          <5>. QED BY <4>1, <4>3, <4>4
        <4>6. StartsSo(u, w) \in Nat /\ TimesIn(u, w) = Cardinality(Of(w)) + StartsSo(u, w)
          BY <1>6, <2>3 DEF StartsSo, TimesIn
        <4>. QED BY <4>1, <4>5, <4>6 DEF TimesRead
      <3>. QED BY <1>4, <1>5, <2>1, <3>2 DEF Counted, AllListed
    <2>. QED BY <2>2, <2>3
  <1>. QED BY <1>7, <1>8

(* Sorting moves words, and that is all.                                    *)
LEMMA ArrangesAll ==
  ASSUME NEW list \in Seq(Seq(Byte)), NEW sorted \in Arrangements(list)
  PROVE  /\ sorted \in Seq(Seq(Byte)) /\ Len(sorted) = Len(list)
         /\ \A i \in 1..Len(list) : \E j \in 1..Len(list) : sorted[i] = list[j]
         /\ \A w : Times(sorted, w) = Times(list, w)
  <1>1. PICK n \in Nat : n = Len(list) /\ DOMAIN list = 1..n
    BY LenProperties
  <1>. DEFINE D == 1..n
  <1>2. PICK p \in [D -> D] :
          /\ \A i, j \in D : p[i] = p[j] => i = j
          /\ sorted = [i \in D |-> list[p[i]]]
    <2>1. \E p \in [DOMAIN list -> DOMAIN list] :
            /\ \A i, j \in DOMAIN list : p[i] = p[j] => i = j
            /\ sorted = [i \in DOMAIN list |-> list[p[i]]]
      BY DEF Arrangements
    <2>2. DOMAIN list = D  BY <1>1
    <2>. QED BY <2>1, <2>2, Zenon
  <1>3. \A i \in D : p[i] \in D /\ sorted[i] = list[p[i]] /\ list[p[i]] \in Seq(Byte)
    <2>1. \A i \in D : p[i] \in D  BY <1>2
    <2>2. \A i \in D : list[i] \in Seq(Byte)  BY <1>1, ElementOfSeq
    <2>. QED BY <1>2, <2>1, <2>2
  <1>4. sorted \in Seq(Seq(Byte)) /\ Len(sorted) = n /\ DOMAIN sorted = D
    BY <1>2, <1>3
  <1>5. p \in Surjection(D, D)
    <2>1. IsFiniteSet(D)  BY FS_Interval
    <2>2. p \in Injection(D, D)  BY <1>2 DEF Injection, IsInjective
    <2>. HIDE DEF D
    <2>. QED BY <2>1, <2>2, FS_Injection
  <1>6. ASSUME NEW w  PROVE Times(sorted, w) = Times(list, w)
    <2>. DEFINE I == { i \in D : Full(list[i]) = w }
                J == { i \in D : Full(sorted[i]) = w }
                g == [i \in J |-> p[i]]
    <2>1. IsFiniteSet(J)
      <3>1. IsFiniteSet(D)  BY FS_Interval
      <3>2. J \in SUBSET D  OBVIOUS
      <3>. HIDE DEF J, D
      <3>. QED BY <3>1, <3>2, FS_Subset
    <2>2. g \in Bijection(J, I)
      <3>1. g \in [J -> I]  BY <1>3
      <3>2. \A i, j \in J : g[i] = g[j] => i = j  BY <1>2
      <3>3. \A j \in I : \E i \in J : g[i] = j
        <4>. SUFFICES ASSUME NEW j \in I  PROVE \E i \in J : g[i] = j
          OBVIOUS
        <4>1. PICK i \in D : p[i] = j  BY <1>5 DEF Surjection
        <4>2. i \in J  BY <1>3, <4>1
        <4>. QED BY <4>1, <4>2
      <3>. HIDE DEF g, I, J
      <3>. QED BY <3>1, <3>2, <3>3 DEF Bijection, Injection, Surjection, IsInjective
    <2>3. Cardinality(I) = Cardinality(J)
      <3>. HIDE DEF g, I, J
      <3>. QED BY <2>1, <2>2, FS_Bijection DEF ExistsBijection
    <2>. QED BY <1>1, <1>4, <2>3 DEF Times
  <1>. QED BY <1>1, <1>3, <1>4, <1>6

(* The words that have been printed are the first of the list.              *)
PrintedSo(list, done) ==
  /\ done \in Seq(Seq(Byte)) /\ Len(done) <= Len(list)
  /\ \A i \in 1..Len(done) : HasSpace(list[i]) /\ done[i] = Full(list[i])

(* One more                                                                 *)
LEMMA PrintsNext ==
  ASSUME NEW list \in Seq(Seq(Byte)), NEW done, PrintedSo(list, done), Len(done) < Len(list),
         HasSpace(list[Len(done) + 1])
  PROVE  PrintedSo(list, Append(done, UpToSpace(list[Len(done) + 1])))
  <1>1. PICK n \in Nat : n = Len(done) /\ done \in Seq(Seq(Byte))
    BY LenProperties DEF PrintedSo
  <1>2. PICK m \in Nat : m = Len(list) /\ n < m
    BY <1>1, LenProperties
  <1>3. PICK w \in Seq(Byte) : w = list[n + 1]
    BY <1>1, <1>2, ElementOfSeq
  <1>4. UpToSpace(w) = Full(w)
    BY <1>1, <1>3 DEF Full
  <1>5. UpToSpace(w) \in Seq(Byte)
    <2>1. PICK j \in 1..Len(w) : w[j] = Space /\ \A i \in 1..(j - 1) : w[i] # Space
      BY <1>1, <1>3, FirstSpace
    <2>2. UpToSpace(w) = SubSeq(w, 1, j)
      BY <1>3, <2>1, UpToFirst
    <2>3. Len(w) \in Nat
      BY LenProperties
    <2>4. 1 \in 1..(Len(w) + 1) /\ j \in (1 - 1)..Len(w)
      BY <2>3
    <2>. QED BY <2>2, <2>4, PartFacts
  <1>6. PICK more : more = Append(done, UpToSpace(w))
    OBVIOUS
  <1>7. more \in Seq(Seq(Byte)) /\ Len(more) = n + 1 /\ more[n + 1] = Full(w)
        /\ \A i \in 1..n : more[i] = done[i]
    BY <1>1, <1>4, <1>5, <1>6, AppendProperties
  <1>8. \A i \in 1..(n + 1) : i \in 1..n \/ i = n + 1
    BY <1>1
  <1>9. \A i \in 1..(n + 1) : HasSpace(list[i]) /\ more[i] = Full(list[i])
    BY <1>1, <1>3, <1>7, <1>8 DEF PrintedSo
  <1>. QED BY <1>1, <1>2, <1>3, <1>6, <1>7, <1>9 DEF PrintedSo

(* Once all are, every word has been printed as often as it is in the text. *)
LEMMA PrintsAll ==
  ASSUME NEW u, NEW list, NEW done, AllListed(u, list), PrintedSo(list, done), Len(done) = Len(list)
  PROVE  \A w : TimesListed(done, w) = TimesIn(u, w)
  <1>. SUFFICES ASSUME NEW w  PROVE TimesListed(done, w) = TimesIn(u, w)
    OBVIOUS
  <1>1. DOMAIN done = 1..Len(list) /\ DOMAIN list = 1..Len(list)
    BY LenProperties DEF PrintedSo, AllListed
  <1>2. { i \in DOMAIN done : done[i] = w } = { i \in DOMAIN list : Full(list[i]) = w }
    BY <1>1 DEF PrintedSo
  <1>. QED BY <1>2 DEF TimesListed, Times, AllListed

------------------------------------------------------------------------------
(* Where NULs end                                                           *)
LEMMA SkipsTo ==
  ASSUME NEW w \in Seq(Byte), NEW i \in 1..(Len(w) + 1)
  PROVE  /\ SkipNuls(w, i) \in i..(Len(w) + 1)
         /\ i <= Len(w) /\ w[i] # Nul => SkipNuls(w, i) = i
  <1>1. PICK n \in Nat : n = Len(w)
    BY LenProperties
  <1>. DEFINE I == { k \in i..n : w[k] # Nul }
  <1>2. CASE I = {}
    <2>1. SkipNuls(w, i) = n + 1  BY <1>1, <1>2 DEF SkipNuls
    <2>2. ~ (i <= n /\ w[i] # Nul)  BY <1>1, <1>2
    <2>. QED BY <1>1, <2>1, <2>2
  <1>3. CASE I # {}
    <2>1. SkipNuls(w, i) = Min(I)  BY <1>1, <1>3 DEF SkipNuls
    <2>2. \E x \in I : \A y \in I : x <= y
      <3>1. I \in SUBSET Nat  BY <1>1
      <3>. HIDE DEF I
      <3>. QED BY <1>3, <3>1, LeastNumber
    <2>3. Min(I) \in I /\ \A y \in I : Min(I) <= y
      <3>. HIDE DEF I
      <3>. QED BY <2>2 DEF Min
    <2>4. i <= n /\ w[i] # Nul => Min(I) = i
      <3>. SUFFICES ASSUME i <= n, w[i] # Nul  PROVE Min(I) = i
        OBVIOUS
      <3>1. i \in I  BY <1>1
      <3>2. Min(I) <= i /\ Min(I) \in i..n  BY <2>3, <3>1
      <3>. QED BY <3>2
    <2>5. Min(I) \in i..(n + 1)
      <3>1. Min(I) \in i..n  BY <2>3
      <3>. QED BY <1>1, <3>1
    <2>. QED BY <1>1, <2>1, <2>4, <2>5
  <1>. QED BY <1>2, <1>3

(* What frobcmp looks at from p on                                          *)
Goes(a, b, p) == GoesBehind(a, b, p, Skipped(a, b, p))
NextPlace(a, b, p) == <<Skipped(a, b, p)[1] + 1, Skipped(a, b, p)[2] + 1>>
Verdict(a, b, ic, p) == Returned(a, b, p, Skipped(a, b, p), ic)

Compares(e, a, b, ic) ==
  e = [p \in Places(a, b) |-> IF Goes(a, b, p) THEN e[NextPlace(a, b, p)] ELSE Verdict(a, b, ic, p)]

(* The loop goes forward.                                                   *)
LEMMA GoesForward ==
  ASSUME NEW a \in Seq(Byte), NEW b \in Seq(Byte), NEW p \in Places(a, b), Goes(a, b, p)
  PROVE  /\ NextPlace(a, b, p) \in Places(a, b)
         /\ NextPlace(a, b, p)[1] > p[1]
  <1>1. PICK m \in Nat, n \in Nat : m = Len(a) /\ n = Len(b)
    BY LenProperties
  <1>2. p[1] \in 1..(m + 1) /\ p[2] \in 1..(n + 1)
    BY <1>1 DEF Places
  <1>3. PICK k, l : k = SkipNuls(a, p[1]) /\ l = SkipNuls(b, p[2])
    OBVIOUS
  <1>4. k \in p[1]..(m + 1) /\ l \in p[2]..(n + 1)
    BY <1>1, <1>2, <1>3, SkipsTo
  <1>5. k <= m /\ l <= n
    BY <1>1, <1>3 DEF Goes, GoesBehind, Within, Skipped
  <1>6. k + 1 \in 1..(m + 1) /\ l + 1 \in 1..(n + 1) /\ k + 1 > p[1]
    BY <1>2, <1>4, <1>5
  <1>. QED BY <1>1, <1>3, <1>6 DEF NextPlace, Skipped, Places

(* So there is a comparison of any two words.                               *)
LEMMA ComparisonExists ==
  ASSUME NEW a \in Seq(Byte), NEW b \in Seq(Byte), NEW ic
  PROVE  \E e : Compares(e, a, b, ic)
  <1>1. PICK m \in Nat : m = Len(a) /\ \A p \in Places(a, b) : p[1] \in 1..(m + 1)
    BY LenProperties DEF Places
  <1>. DEFINE D == Places(a, b)
              Body(e, p) == IF Goes(a, b, p) THEN e[NextPlace(a, b, p)] ELSE Verdict(a, b, ic, p)
              Good(k) == \E e : e = [p \in D |-> e[p]] /\ \A p \in D : p[1] > m + 1 - k => e[p] = Body(e, p)
  <1>2. Good(0)
    <2>. DEFINE e == [p \in D |-> 0]
    <2>1. e = [p \in D |-> e[p]]  OBVIOUS
    <2>2. \A p \in D : ~ p[1] > m + 1 - 0  BY <1>1
    <2>. HIDE DEF e
    <2>. QED BY <2>1, <2>2
  <1>3. ASSUME NEW k \in Nat, Good(k)  PROVE Good(k + 1)
    <2>1. PICK e : \A p \in D : p[1] > m + 1 - k => e[p] = Body(e, p)
      BY <1>3
    <2>. DEFINE d == [p \in D |-> Body(e, p)]
    <2>2. d = [p \in D |-> d[p]]  OBVIOUS
    <2>3. ASSUME NEW p \in D, p[1] > m + 1 - (k + 1)  PROVE d[p] = Body(d, p)
      <3>1. d[p] = Body(e, p)  OBVIOUS
      <3>2. CASE Goes(a, b, p)
        <4>1. NextPlace(a, b, p) \in D /\ NextPlace(a, b, p)[1] > p[1]
          BY <3>2, GoesForward
        <4>2. PICK q \in D : q = NextPlace(a, b, p)  BY <4>1
        <4>3. q[1] > m + 1 - k  BY <1>1, <1>3, <2>3, <4>1, <4>2
        <4>4. d[q] = Body(e, q) /\ e[q] = Body(e, q)  BY <2>1, <4>3
        <4>. QED BY <3>1, <3>2, <4>2, <4>4
      <3>3. CASE ~ Goes(a, b, p)
        BY <3>1, <3>3
      <3>. QED BY <3>2, <3>3
    <2>. HIDE DEF d, Body
    <2>. QED BY <2>2, <2>3
  <1>4. Good(m + 1)
    <2>. SUFFICES ASSUME ~ Good(m + 1)  PROVE FALSE
      OBVIOUS
    <2>. HIDE DEF Good
    <2>. DEFINE Is == { k \in Nat : ~ Good(k) }
    <2>1. Is \subseteq Nat /\ m + 1 \in Is  BY <1>1
    <2>2. PICK k \in Is : \A y \in Is : k <= y  BY <2>1, LeastNumber
    <2>3. k # 0  BY <1>2, <2>2
    <2>4. k - 1 \in Nat /\ k - 1 \notin Is /\ (k - 1) + 1 = k  BY <2>2, <2>3
    <2>. QED BY <1>3, <2>2, <2>4
  <1>5. PICK e : e = [p \in D |-> e[p]] /\ \A p \in D : p[1] > m + 1 - (m + 1) => e[p] = Body(e, p)
    BY <1>4
  <1>6. \A p \in D : p[1] > m + 1 - (m + 1)
    BY <1>1
  <1>7. e = [p \in D |-> Body(e, p)]
    <2>. HIDE DEF D, Body
    <2>. QED BY <1>5, <1>6
  <1>. QED BY <1>7 DEF Compares

(* frobcmp is such a comparison.                                            *)
LEMMA FrobcmpCompares ==
  ASSUME NEW a \in Seq(Byte), NEW b \in Seq(Byte), NEW ic
  PROVE  \E e : Compares(e, a, b, ic) /\ frobcmp(a, b, ic) = e[<<1, 1>>]
  <1>. DEFINE F(e) == [p \in Places(a, b) |->
                         LET q == Skipped(a, b, p)
                         IN  IF GoesBehind(a, b, p, q) THEN e[<<q[1] + 1, q[2] + 1>>]
                             ELSE Returned(a, b, p, q, ic)]
              c0 == CHOOSE e : e = F(e)
  <1>1. frobcmp(a, b, ic) = c0[<<1, 1>>]
    BY DEF frobcmp
  <1>2. \A e : F(e) = [p \in Places(a, b) |-> IF Goes(a, b, p) THEN e[NextPlace(a, b, p)]
                                                             ELSE Verdict(a, b, ic, p)]
    BY DEF Goes, NextPlace, Verdict
  <1>. HIDE DEF F
  <1>3. \E e : e = F(e)
    <2>1. PICK e : Compares(e, a, b, ic)
      BY ComparisonExists
    <2>2. F(e) = [p \in Places(a, b) |-> IF Goes(a, b, p) THEN e[NextPlace(a, b, p)]
                                                          ELSE Verdict(a, b, ic, p)]
      BY <1>2
    <2>3. e = F(e)
      BY <2>1, <2>2 DEF Compares
    <2>. QED BY <2>3
  <1>4. c0 = F(c0)
    BY <1>3
  <1>. HIDE DEF c0
  <1>. QED BY <1>1, <1>2, <1>4 DEF Compares

(* It stays within words that have a space and no NUL.                      *)
LEMMA ComparesWithin ==
  ASSUME NEW a \in Seq(Byte), NEW b \in Seq(Byte), NEW ic,
         HasSpace(a), ~ Contains(a, Nul), HasSpace(b), ~ Contains(b, Nul)
  PROVE  frobcmp(a, b, ic) # Overrun
  <1>1. PICK m \in Nat, n \in Nat : m = Len(a) /\ n = Len(b)
    BY LenProperties
  <1>2. PICK t \in 1..n : b[t] = Space /\ \A i \in 1..(t - 1) : b[i] # Space
    BY <1>1, FirstSpace
  <1>3. PICK s \in 1..m : a[s] = Space /\ \A i \in 1..(s - 1) : a[i] # Space
    BY <1>1, FirstSpace
  <1>4. PICK e : Compares(e, a, b, ic) /\ frobcmp(a, b, ic) = e[<<1, 1>>]
    BY FrobcmpCompares
  <1>5. \A p \in Places(a, b) : e[p] = IF Goes(a, b, p) THEN e[NextPlace(a, b, p)] ELSE Verdict(a, b, ic, p)
    BY <1>4 DEF Compares
  <1>6. ASSUME NEW i \in 1..s, NEW j \in 1..t, e[<<i, j>>] = Overrun
        PROVE  i + 1 \in 1..s /\ j + 1 \in 1..t /\ e[<<i + 1, j + 1>>] = Overrun
    <2>1. i \in 1..m /\ j \in 1..n /\ <<i, j>> \in Places(a, b)
      BY <1>1 DEF Places
    <2>2. SkipNuls(a, i) = i /\ SkipNuls(b, j) = j
      <3>1. a[i] # Nul /\ b[j] # Nul  BY <1>1, <2>1 DEF Contains
      <3>2. i \in 1..(Len(a) + 1) /\ j \in 1..(Len(b) + 1) /\ i <= Len(a) /\ j <= Len(b)  BY <1>1, <2>1
      <3>. QED BY <3>1, <3>2, SkipsTo
    <2>3. PICK p \in Places(a, b) : p = <<i, j>> /\ p[1] = i /\ p[2] = j
      BY <2>1
    <2>4. Goes(a, b, p)
      <3>. SUFFICES ASSUME ~ Goes(a, b, p)  PROVE FALSE
        OBVIOUS
      <3>1. Verdict(a, b, ic, p) = Overrun  BY <1>5, <1>6, <2>3
      <3>2. i <= Len(a) /\ j <= Len(b) /\ ~ i > Len(a) /\ ~ j > Len(b)  BY <1>1, <2>1
      <3>. QED BY <2>2, <2>3, <3>1, <3>2 DEF Goes, GoesBehind, Verdict, Returned, Within, BothEnd, Skipped, Overrun, SAME, LESS, GREATER
    <2>5. e[<<i + 1, j + 1>>] = Overrun
      BY <1>5, <1>6, <2>2, <2>3, <2>4 DEF NextPlace, Skipped
    <2>6. a[i] = b[j] /\ ~ (a[i] = Space /\ b[j] = Space)
      BY <2>2, <2>3, <2>4 DEF Goes, GoesBehind, BothEnd, Skipped
    <2>7. i # s /\ j # t
      BY <1>2, <1>3, <2>6
    <2>. QED BY <2>5, <2>7
  <1>7. e[<<1, 1>>] # Overrun
    <2>. SUFFICES ASSUME e[<<1, 1>>] = Overrun  PROVE FALSE
      OBVIOUS
    <2>. DEFINE Is == { k \in Nat : \E i \in 1..s, j \in 1..t : k = s - i /\ e[<<i, j>>] = Overrun }
    <2>1. s - 1 \in Is
      <3>1. 1 \in 1..s /\ 1 \in 1..t /\ s - 1 \in Nat  OBVIOUS
      <3>. QED BY <3>1
    <2>2. PICK k \in Is : \A y \in Is : k <= y
      <3>1. Is \in SUBSET Nat /\ Is # {}  BY <2>1
      <3>. HIDE DEF Is
      <3>. QED BY <3>1, LeastNumber
    <2>3. PICK i \in 1..s, j \in 1..t : k = s - i /\ e[<<i, j>>] = Overrun
      BY <2>2
    <2>4. i + 1 \in 1..s /\ j + 1 \in 1..t /\ e[<<i + 1, j + 1>>] = Overrun
      BY <1>6, <2>3
    <2>5. s - (i + 1) \in Nat /\ s - (i + 1) < k
      BY <2>3, <2>4
    <2>6. s - (i + 1) \in Is
      BY <2>4, <2>5
    <2>7. k <= s - (i + 1) /\ k \in Nat
      BY <2>2, <2>6
    <2>. HIDE DEF Is
    <2>. QED BY <2>5, <2>7
  <1>. QED BY <1>4, <1>7

------------------------------------------------------------------------------
(***************************************************************************)
(* Lengths: n is that of the last word of u that is closed, with its       *)
(* space; or there is none, and n is 1 if u starts with a space.           *)
(***************************************************************************)
IsLast(u, p) == /\ p \in Pieces(u) /\ p[2] < Len(u)
                /\ \A q \in Pieces(u) : q[2] < Len(u) => q[2] <= p[2]
FromWord(u, n) ==
  /\ n \in Int
  /\ n < 1 \/ (n = 1 /\ u # <<>>) \/ \E p \in Pieces(u) : IsLast(u, p) /\ n = (p[2] - p[1]) + 2

LengthsSo(u, word, prev) ==
  /\ HasSpace(word) => FromWord(u, Len(word))
  /\ ~ HasSpace(word) => FromWord(u, prev)

(* The pieces that are closed with one more character                       *)
LEMMA ClosedPieces ==
  ASSUME NEW u \in Seq(Byte), NEW ch \in Byte, NEW p
  PROVE  p \in Pieces(Append(u, ch)) /\ p[2] < Len(Append(u, ch)) <=>
           p \in Pieces(u) /\ (p[2] = Len(u) => ch = Space)
  <1>1. PICK w : w = Piece(Append(u, ch), p)
    OBVIOUS
  <1>2. PICK x : x = Piece(u, p)
    OBVIOUS
  <1>3. PICK n \in Nat : n = Len(u)
    BY LenProperties
  <1>4. \A y : Closed(Append(u, ch), y) =
          Closed(u, y) \cup { q \in Pieces(u) : q[2] = Len(u) /\ ch = Space /\ Piece(u, q) = y }
    BY ClosedGrows
  <1>5. ASSUME p \in Pieces(Append(u, ch)), p[2] < Len(Append(u, ch))
        PROVE  p \in Pieces(u) /\ (p[2] = n => ch = Space)
    <2>1. p \in Closed(Append(u, ch), w)  BY <1>1, <1>5 DEF Closed
    <2>2. p \in Closed(u, w) \/ (p \in Pieces(u) /\ p[2] = n /\ ch = Space)  BY <1>3, <1>4, <2>1
    <2>. QED BY <1>3, <2>2 DEF Closed
  <1>6. ASSUME p \in Pieces(u), p[2] = n => ch = Space
        PROVE  p \in Pieces(Append(u, ch)) /\ p[2] < Len(Append(u, ch))
    <2>1. p[2] \in 1..n  BY <1>3, <1>6, PiecesAre
    <2>2. p \in Closed(u, x) \/ (p[2] = n /\ ch = Space)  BY <1>2, <1>3, <1>6, <2>1 DEF Closed
    <2>3. p \in Closed(Append(u, ch), x)  BY <1>2, <1>3, <1>4, <1>6, <2>2
    <2>. QED BY <2>3 DEF Closed
  <1>. QED BY <1>3, <1>5, <1>6

(* A character that closes no word                                          *)
LEMMA FromSameWord ==
  ASSUME NEW u \in Seq(Byte), NEW ch \in Byte, ch # Space \/ (u # <<>> /\ u[Len(u)] = Space),
         NEW n, FromWord(u, n)
  PROVE  FromWord(Append(u, ch), n)
  <1>1. PICK m \in Nat : m = Len(u)
    BY LenProperties
  <1>2. PICK v : v = Append(u, ch)
    OBVIOUS
  <1>3. v # <<>> /\ Len(v) = m + 1
    BY <1>1, <1>2, AppendProperties
  <1>4. \A p : p \in Pieces(v) /\ p[2] < m + 1 <=> p \in Pieces(u) /\ p[2] < m
    <2>. SUFFICES ASSUME NEW p  PROVE p \in Pieces(v) /\ p[2] < m + 1 <=> p \in Pieces(u) /\ p[2] < m
      OBVIOUS
    <2>1. p \in Pieces(v) /\ p[2] < m + 1 <=> p \in Pieces(u) /\ (p[2] = m => ch = Space)
      BY <1>1, <1>2, <1>3, ClosedPieces
    <2>2. ASSUME p \in Pieces(u)  PROVE (p[2] = m => ch = Space) <=> p[2] < m
      <3>1. p[1] \in 1..m /\ p[2] \in 1..m /\ IsPiece(u, p[1], p[2])  BY <1>1, <2>2, PiecesAre
      <3>2. p[2] = m => u[m] # Space
        <4>1. p[2] = m => m \in p[1]..p[2]  BY <3>1 DEF IsPiece
        <4>. QED BY <3>1, <4>1 DEF IsPiece
      <3>3. p[2] < m \/ p[2] = m  BY <3>1
      <3>4. p[2] = m => ch # Space  BY <1>1, <3>2
      <3>. QED BY <3>1, <3>3, <3>4
    <2>. QED BY <2>1, <2>2
  <1>5. ASSUME NEW p \in Pieces(u), IsLast(u, p)  PROVE p \in Pieces(v) /\ IsLast(v, p)
    <2>1. p \in Pieces(v) /\ p[2] < m + 1  BY <1>1, <1>4, <1>5 DEF IsLast
    <2>2. \A q \in Pieces(v) : q[2] < m + 1 => q[2] <= p[2]  BY <1>1, <1>4, <1>5 DEF IsLast
    <2>. QED BY <1>3, <2>1, <2>2 DEF IsLast
  <1>. QED BY <1>2, <1>3, <1>5 DEF FromWord

(* The space that closes a word                                             *)
LEMMA FromThisWord ==
  ASSUME NEW u \in Seq(Byte), NEW x \in Seq(Byte), IsOpen(u, x)
  PROVE  FromWord(Append(u, Space), Len(x) + 1)
  <1>1. PICK m \in Nat : m = Len(u) /\ Len(x) \in Nat
    BY LenProperties
  <1>2. PICK v : v = Append(u, Space)
    OBVIOUS
  <1>3. v # <<>> /\ Len(v) = m + 1
    BY <1>1, <1>2, SpaceByte, AppendProperties
  <1>4. CASE u = <<>>
    <2>1. Len(x) = 0
      <3>1. m = 0  BY <1>1, <1>4, EmptySeq
      <3>2. PICK k \in 0..0 : x = After(u, k)  BY <1>1, <3>1 DEF IsOpen
      <3>3. k = 0  BY <3>2
      <3>4. x = u  BY <1>1, <3>1, <3>2, <3>3, AfterFacts
      <3>. QED BY <1>1, <3>1, <3>4
    <2>. QED BY <1>2, <1>3, <2>1 DEF FromWord
  <1>5. CASE u # <<>>
    <2>1. PICK q \in Pieces(u) : q[2] = m /\ q[2] - q[1] + 1 = Len(x)
      BY <1>1, <1>5, OpenPiece
    <2>2. q[1] \in 1..m
      BY <1>1, PiecesAre
    <2>3. q \in Pieces(v) /\ q[2] < m + 1
      BY <1>1, <1>2, <1>3, SpaceByte, ClosedPieces
    <2>4. \A p \in Pieces(v) : p[2] < m + 1 => p[2] <= m
      <3>1. \A p \in Pieces(v) : p[2] \in 1..(m + 1)  BY <1>3, PiecesAre
      <3>. QED BY <1>1, <3>1
    <2>5. IsLast(v, q)
      BY <1>3, <2>1, <2>3, <2>4 DEF IsLast
    <2>6. Len(x) + 1 = (q[2] - q[1]) + 2 /\ Len(x) + 1 \in Int
      BY <1>1, <2>1, <2>2
    <2>. QED BY <1>2, <2>3, <2>5, <2>6 DEF FromWord
  <1>. QED BY <1>4, <1>5

(* The lengths follow the reading.                                          *)
LEMMA LengthsFollow ==
  ASSUME NEW u, NEW list, NEW word, ReadSo(u, list, word), NEW prev, LengthsSo(u, word, prev)
  PROVE  /\ \A ch \in Byte : ~ HasSpace(word) => LengthsSo(Append(u, ch), Append(word, ch), prev)
         /\ HasSpace(word) => LengthsSo(Append(u, Space), word, prev)
         /\ \A ch \in Byte \ {Space} : HasSpace(word) => LengthsSo(Append(u, ch), <<ch>>, Len(word))
  <1>1. /\ u \in Seq(Byte) /\ word \in Seq(Byte)
        /\ HasSpace(word) => u # <<>> /\ u[Len(u)] = Space /\ FromWord(u, Len(word))
        /\ ~ HasSpace(word) => IsOpen(u, word) /\ FromWord(u, prev)
    BY DEF ReadSo, LengthsSo
  <1>2. ASSUME NEW ch \in Byte, ~ HasSpace(word)
        PROVE  LengthsSo(Append(u, ch), Append(word, ch), prev)
    <2>1. CASE ch = Space
      <3>1. HasSpace(Append(word, Space))  BY <1>1, <1>2, SpaceOfFull
      <3>2. Len(Append(word, Space)) = Len(word) + 1  BY <1>1, SpaceByte, AppendProperties
      <3>3. FromWord(Append(u, Space), Len(word) + 1)  BY <1>1, <1>2, FromThisWord
      <3>. QED BY <2>1, <3>1, <3>2, <3>3 DEF LengthsSo
    <2>2. CASE ch # Space
      <3>1. ~ HasSpace(Append(word, ch))  BY <1>1, <1>2, <2>2, SpaceOfFull
      <3>2. FromWord(Append(u, ch), prev)  BY <1>1, <1>2, <2>2, FromSameWord
      <3>. QED BY <3>1, <3>2 DEF LengthsSo
    <2>. QED BY <2>1, <2>2
  <1>3. ASSUME HasSpace(word)  PROVE LengthsSo(Append(u, Space), word, prev)
    <2>1. FromWord(Append(u, Space), Len(word))  BY <1>1, <1>3, SpaceByte, FromSameWord
    <2>. QED BY <1>3, <2>1 DEF LengthsSo
  <1>4. ASSUME NEW ch \in Byte \ {Space}, HasSpace(word)
        PROVE  LengthsSo(Append(u, ch), <<ch>>, Len(word))
    <2>1. FromWord(Append(u, ch), Len(word))  BY <1>1, <1>4, FromSameWord
    <2>2. ~ HasSpace(<<ch>>)  BY DEF HasSpace, Contains
    <2>. QED BY <2>1, <2>2 DEF LengthsSo
  <1>. QED BY <1>2, <1>3, <1>4

(* So a word that does not get its space is the last, and not longer than   *)
(* the one before it.                                                       *)
LEMMA LastLacksSpace ==
  ASSUME NEW u, NEW list, NEW word, ReadSo(u, list, word), NEW prev, LengthsSo(u, word, prev),
         ~ HasSpace(word), NEW stale, LooksTerminated(word, prev, stale)
  PROVE  MayLackItsSpace(u)
  <1>1. u \in Seq(Byte) /\ word \in Seq(Byte) /\ IsOpen(u, word) /\ FromWord(u, prev)
    BY DEF ReadSo, LengthsSo
  <1>2. PICK m \in Nat : m = Len(u) /\ Len(word) \in Nat /\ prev \in Int
    BY <1>1, LenProperties DEF FromWord
  <1>3. prev > Len(word)
    <2>1. ~ (prev \in 1..Len(word) /\ word[prev] = Space)  BY DEF HasSpace, Contains
    <2>. QED BY <2>1 DEF LooksTerminated
  <1>4. u # <<>>
    <2>. SUFFICES ASSUME u = <<>>  PROVE FALSE
      OBVIOUS
    <2>1. \A p \in Pieces(u) : p[1] \in 1..0
      <3>1. Len(u) = 0  BY EmptySeq
      <3>. QED BY <3>1, PiecesAre
    <2>2. prev < 1  BY <1>1, <2>1 DEF FromWord
    <2>. QED BY <1>2, <1>3, <2>2
  <1>5. PICK q \in Pieces(u) : /\ q[2] = m /\ q[2] - q[1] + 1 = Len(word)
                               /\ \A p \in Pieces(u) : p[2] = m => p = q
    BY <1>1, <1>2, <1>4, OpenPiece
  <1>6. q[1] \in 1..m /\ q[2] \in 1..m /\ IsPiece(u, q[1], q[2])
    BY <1>2, PiecesAre
  <1>7. prev > 1
    <2>1. Len(word) > 0  BY <1>5, <1>6 DEF IsPiece
    <2>. QED BY <1>2, <1>3, <2>1
  <1>8. PICK p \in Pieces(u) : IsLast(u, p) /\ prev = (p[2] - p[1]) + 2
    BY <1>1, <1>2, <1>7 DEF FromWord
  <1>9. p[1] \in 1..m /\ p[2] \in 1..m /\ p[2] < m /\ IsPiece(u, p[1], p[2])
    BY <1>2, <1>8, PiecesAre DEF IsLast
  <1>10. p[2] < q[1]
    <2>1. u[p[2] + 1] = Space  BY <1>2, <1>9 DEF IsPiece
    <2>2. p[2] + 1 \notin q[1]..q[2]  BY <1>6, <2>1 DEF IsPiece
    <2>3. PICK a \in 1..m, b \in 1..m : a = q[1] /\ b = p[2]
      BY <1>6, <1>9
    <2>4. b < m /\ b + 1 \notin a..m
      BY <1>5, <1>9, <2>2, <2>3
    <2>5. b < a
      BY <1>2, <2>4
    <2>. QED BY <2>3, <2>5
  <1>11. \A r \in Pieces(u) : r[2] <= p[2] \/ q[1] <= r[1]
    <2>. SUFFICES ASSUME NEW r \in Pieces(u)  PROVE r[2] <= p[2] \/ q[1] <= r[1]
      OBVIOUS
    <2>1. r[2] \in 1..m  BY <1>2, PiecesAre
    <2>2. CASE r[2] < m  BY <1>2, <1>8, <2>2 DEF IsLast
    <2>3. CASE r[2] = m
      <3>1. r = q  BY <1>5, <2>3
      <3>. QED BY <1>6, <3>1
    <2>. QED BY <2>1, <2>2, <2>3
  <1>12. p[2] - p[1] >= q[2] - q[1]
    BY <1>2, <1>3, <1>5, <1>6, <1>8, <1>9
  <1>. QED BY <1>2, <1>5, <1>10, <1>11, <1>12 DEF MayLackItsSpace

------------------------------------------------------------------------------
(* Words without NULs                                                       *)
Clean(list, word) ==
  ~ Contains(word, Nul) /\ \A i \in 1..Len(list) : ~ Contains(list[i], Nul)

(* What makes the words of u fit to be compared: the lengths say when the   *)
(* last lacks its space, and there is no NUL in them unless there is in u.  *)
FitSo(u, list, word, prev) ==
  LengthsSo(u, word, prev) /\ (~ Contains(u, Nul) => Clean(list, word))

(* A NUL is in a longer text if it is in it or is its last character.       *)
LEMMA NulOfMore ==
  ASSUME NEW u \in Seq(Byte), NEW ch \in Byte
  PROVE  Contains(Append(u, ch), Nul) <=> Contains(u, Nul) \/ ch = Nul
  <1>1. PICK n \in Nat : n = Len(u)
    BY LenProperties
  <1>2. PICK v : v = Append(u, ch)
    OBVIOUS
  <1>3. Len(v) = n + 1 /\ v[n + 1] = ch /\ \A i \in 1..n : v[i] = u[i]
    BY <1>1, <1>2, AppendProperties
  <1>4. \A i : i \in 1..(n + 1) <=> i \in 1..n \/ i = n + 1
    BY <1>1
  <1>. QED BY <1>1, <1>2, <1>3, <1>4 DEF Contains

(* So it begins.                                                            *)
LEMMA FitAtFirst == FitSo(<<>>, <<>>, <<>>, -1)
  <1>1. Len(<<>>) = 0 /\ \A i \in 1..0 : FALSE
    BY EmptySeq
  <1>2. ~ HasSpace(<<>>) /\ Clean(<<>>, <<>>)
    BY <1>1 DEF HasSpace, Contains, Clean
  <1>. QED BY <1>2 DEF FitSo, LengthsSo, FromWord

(* It stays so with a character of a word, a space too many, and the first  *)
(* character of the next word.                                              *)
LEMMA FitFollows ==
  ASSUME NEW u, NEW list, NEW word, ReadSo(u, list, word), NEW prev, FitSo(u, list, word, prev)
  PROVE  /\ \A ch \in Byte : ~ HasSpace(word) => FitSo(Append(u, ch), list, Append(word, ch), prev)
         /\ HasSpace(word) => FitSo(Append(u, Space), list, word, prev)
         /\ \A ch \in Byte \ {Space} :
              HasSpace(word) => FitSo(Append(u, ch), Append(list, word), <<ch>>, Len(word))
  <1>1. u \in Seq(Byte) /\ word \in Seq(Byte) /\ list \in Seq(Seq(Byte))
    BY DEF ReadSo
  <1>2. /\ \A ch \in Byte : ~ HasSpace(word) => LengthsSo(Append(u, ch), Append(word, ch), prev)
        /\ HasSpace(word) => LengthsSo(Append(u, Space), word, prev)
        /\ \A ch \in Byte \ {Space} : HasSpace(word) => LengthsSo(Append(u, ch), <<ch>>, Len(word))
    BY LengthsFollow DEF FitSo
  <1>3. ASSUME NEW ch \in Byte, ~ Contains(Append(u, ch), Nul)
        PROVE  /\ Clean(list, word) /\ Clean(list, Append(word, ch))
               /\ Clean(Append(list, word), <<ch>>)
    <2>1. ch # Nul /\ Clean(list, word)
      BY <1>1, <1>3, NulOfMore DEF FitSo
    <2>2. ~ Contains(Append(word, ch), Nul)
      BY <1>1, <2>1, NulOfMore DEF Clean
    <2>3. ~ Contains(<<ch>>, Nul)
      BY <2>1 DEF Contains
    <2>4. \A i \in 1..Len(Append(list, word)) : ~ Contains(Append(list, word)[i], Nul)
      <3>1. PICK n \in Nat : n = Len(list)  BY <1>1, LenProperties
      <3>2. PICK more : more = Append(list, word)  OBVIOUS
      <3>3. Len(more) = n + 1 /\ more[n + 1] = word /\ \A i \in 1..n : more[i] = list[i]
        BY <1>1, <3>1, <3>2, AppendProperties
      <3>4. \A i : i \in 1..(n + 1) <=> i \in 1..n \/ i = n + 1
        BY <3>1
      <3>. QED BY <2>1, <3>1, <3>2, <3>3, <3>4 DEF Clean
    <2>. QED BY <2>1, <2>2, <2>3, <2>4 DEF Clean
  <1>4. ASSUME NEW ch \in Byte, ~ HasSpace(word)
        PROVE  FitSo(Append(u, ch), list, Append(word, ch), prev)
    BY <1>2, <1>3, <1>4 DEF FitSo
  <1>5. ASSUME HasSpace(word)  PROVE FitSo(Append(u, Space), list, word, prev)
    <2>1. ~ Contains(Append(u, Space), Nul) => Clean(list, word)
      BY <1>3, SpaceByte
    <2>. QED BY <1>2, <1>5, <2>1 DEF FitSo
  <1>6. ASSUME NEW ch \in Byte \ {Space}, HasSpace(word)
        PROVE  FitSo(Append(u, ch), Append(list, word), <<ch>>, Len(word))
    BY <1>2, <1>3, <1>6 DEF FitSo
  <1>. QED BY <1>4, <1>5, <1>6

(* All words have their space, and none has a NUL.                          *)
Whole(list) == \A i \in 1..Len(list) : HasSpace(list[i]) /\ ~ Contains(list[i], Nul)

(* That is so at the end, unless u has a NUL or its last word lacks a space.*)
LEMMA WholeAtEnd ==
  ASSUME NEW u, NEW list, NEW word, ReadSo(u, list, word), NEW prev, FitSo(u, list, word, prev),
         ~ Contains(u, Nul), ~ MayLackItsSpace(u), NEW stale
  PROVE  Whole(Append(list, LastWord(word, prev, stale)))
  <1>1. /\ u \in Seq(Byte) /\ word \in Seq(Byte) /\ list \in Seq(Seq(Byte))
        /\ \A i \in 1..Len(list) : HasSpace(list[i])
    BY DEF ReadSo
  <1>2. Clean(list, word) /\ LengthsSo(u, word, prev)
    BY DEF FitSo
  <1>3. LastWord(word, prev, stale) \in {word, Append(word, Space)}
    BY DEF LastWord
  <1>4. PICK e \in {word, Append(word, Space)} : e = LastWord(word, prev, stale)
    BY <1>3
  <1>5. e \in Seq(Byte)
    <2>1. Append(word, Space) \in Seq(Byte)  BY <1>1, SpaceByte, AppendProperties
    <2>. QED BY <1>1, <1>4, <2>1
  <1>6. HasSpace(e)
    <2>1. CASE HasSpace(word)
      <3>1. HasSpace(Append(word, Space))  BY <1>1, <2>1, SpaceByte, MoreOfFull
      <3>. QED BY <2>1, <3>1
    <2>2. CASE ~ HasSpace(word)
      <3>1. ~ LooksTerminated(word, prev, stale)  BY <1>2, <2>2, LastLacksSpace
      <3>2. e = Append(word, Space)  BY <1>4, <3>1 DEF LastWord
      <3>. QED BY <1>1, <2>2, <3>2, SpaceOfFull
    <2>. QED BY <2>1, <2>2
  <1>7. ~ Contains(e, Nul)
    <2>1. ~ Contains(word, Nul)  BY <1>2 DEF Clean
    <2>2. ~ Contains(Append(word, Space), Nul)
      <3>1. Space # Nul  BY DEF Space, Nul
      <3>. QED BY <1>1, <2>1, <3>1, SpaceByte, NulOfMore
    <2>. QED BY <2>1, <2>2
  <1>8. PICK n \in Nat : n = Len(list)
    BY <1>1, LenProperties
  <1>9. PICK more : more = Append(list, e)
    OBVIOUS
  <1>10. Len(more) = n + 1 /\ more[n + 1] = e /\ \A i \in 1..n : more[i] = list[i]
    BY <1>1, <1>5, <1>8, <1>9, AppendProperties
  <1>11. \A i : i \in 1..(n + 1) <=> i \in 1..n \/ i = n + 1
    BY <1>8
  <1>12. \A i \in 1..(n + 1) : HasSpace(more[i]) /\ ~ Contains(more[i], Nul)
    BY <1>1, <1>2, <1>6, <1>7, <1>8, <1>10, <1>11 DEF Clean
  <1>. QED BY <1>4, <1>9, <1>10, <1>12 DEF Whole

(* Such words can be compared, in whatever order they are.                  *)
LEMMA WholeCompares ==
  ASSUME NEW list \in Seq(Seq(Byte)), Whole(list), NEW ic
  PROVE  ComparesSafely(list, ic)
  <1>1. PICK n \in Nat : n = Len(list) /\ DOMAIN list = 1..n
    BY LenProperties
  <1>2. \A i \in 1..n : list[i] \in Seq(Byte) /\ HasSpace(list[i]) /\ ~ Contains(list[i], Nul)
    BY <1>1, ElementOfSeq DEF Whole
  <1>3. \A i, j \in 1..n : frobcmp(list[i], list[j], ic) # Overrun
    BY <1>2, ComparesWithin
  <1>. QED BY <1>1, <1>3 DEF ComparesSafely

(* Sorting does not change that, nor what is listed.                        *)
LEMMA SortKeepsWords ==
  ASSUME NEW u, NEW list, AllListed(u, list), NEW ic, NEW sorted \in Sorted(list, ic)
  PROVE  AllListed(u, sorted) /\ (Whole(list) => Whole(sorted))
  <1>1. list \in Seq(Seq(Byte)) /\ sorted \in Arrangements(list)
    BY DEF AllListed, Sorted
  <1>2. /\ sorted \in Seq(Seq(Byte)) /\ Len(sorted) = Len(list)
        /\ \A i \in 1..Len(list) : \E j \in 1..Len(list) : sorted[i] = list[j]
        /\ \A w : Times(sorted, w) = Times(list, w)
    BY <1>1, ArrangesAll
  <1>3. AllListed(u, sorted)
    BY <1>2 DEF AllListed
  <1>4. Whole(list) => Whole(sorted)
    BY <1>2 DEF Whole
  <1>. QED BY <1>3, <1>4

------------------------------------------------------------------------------
(* The words of sfrob are those of Frobnication,                            *)
LEMMA WordsOfSfrob ==
  /\ A!Space = Space /\ A!Nul = Nul
  /\ \A s, e : A!Contains(s, e) = Contains(s, e)
  /\ \A w : A!UpToSpace(w) = UpToSpace(w)
  /\ \A e : A!EndsWord(e) = EndsWord(e)
  /\ \A w, n, s : A!LooksTerminated(w, n, s) = LooksTerminated(w, n, s)
  /\ \A w, n, s : A!LastWord(w, n, s) = LastWord(w, n, s)
  /\ \A list, w : A!WithPrinted(list, w) = WithPrinted(list, w)
  /\ \A u, w : A!TimesIn(u, w) = TimesIn(u, w)
  /\ \A list, w : A!TimesListed(list, w) = TimesListed(list, w)
  /\ \A u : A!MayLackItsSpace(u) = MayLackItsSpace(u)
  /\ \A list : A!Arrangements(list) = Arrangements(list)
  <1>0. \A S : A!Cardinality(S) = Cardinality(S)
    BY DEF A!Cardinality, Cardinality
  <1>1. A!Space = Space /\ A!Nul = Nul
    BY DEF A!Space, Space, A!Nul, Nul
  <1>2. \A s, e : A!Contains(s, e) = Contains(s, e)
    BY DEF A!Contains, Contains
  <1>4. \A w : A!UpToSpace(w) = UpToSpace(w)
    BY DEF A!Space, Space, A!UpToSpace, UpToSpace, A!Min, Min
  <1>5. \A e : A!EndsWord(e) = EndsWord(e)
    BY <1>1 DEF A!EndsWord, EndsWord
  <1>6. \A w, n, s : A!LooksTerminated(w, n, s) = LooksTerminated(w, n, s)
    BY <1>1 DEF A!LooksTerminated, LooksTerminated
  <1>7. \A w, n, s : A!LastWord(w, n, s) = LastWord(w, n, s)
    BY <1>1, <1>6 DEF A!LastWord, LastWord
  <1>8. \A list, w : A!WithPrinted(list, w) = WithPrinted(list, w)
    BY <1>4 DEF A!WithPrinted, WithPrinted
  <1>9. \A u : A!Pieces(u) = Pieces(u)
    BY <1>1 DEF A!Pieces, Pieces
  <1>10. \A u, p : A!Piece(u, p) = Piece(u, p)
    BY <1>1 DEF A!Piece, Piece
  <1>11. \A u : A!StartsEmpty(u) = StartsEmpty(u)
    BY <1>1 DEF A!StartsEmpty, StartsEmpty
  <1>13. \A u, w : A!TimesIn(u, w) = TimesIn(u, w)
    BY <1>0, <1>1, <1>9, <1>10, <1>11 DEF A!TimesIn, TimesIn
  <1>14. \A list, w : A!TimesListed(list, w) = TimesListed(list, w)
    BY <1>0 DEF A!TimesListed, TimesListed
  <1>15. \A u : A!MayLackItsSpace(u) = MayLackItsSpace(u)
    BY <1>9 DEF A!MayLackItsSpace, MayLackItsSpace
  <1>16. \A list : A!Arrangements(list) = Arrangements(list)
    BY DEF A!Arrangements, Arrangements
  <1>. QED BY <1>1, <1>2, <1>4, <1>5, <1>6, <1>7, <1>8, <1>13, <1>14, <1>15, <1>16

(* and so is its comparison.                                                *)
LEMMA ComparisonOfSfrob ==
  /\ \A a, b, ic : A!frobcmp(a, b, ic) = frobcmp(a, b, ic)
  /\ \A list, ic : A!ComparesSafely(list, ic) = ComparesSafely(list, ic)
  /\ \A list, ic : A!Sorted(list, ic) = Sorted(list, ic)
  <1>1. A!Space = Space /\ A!Nul = Nul /\ A!Overrun = Overrun /\ A!GREATER = GREATER
        /\ A!LESS = LESS /\ A!SAME = SAME
    BY DEF A!Space, Space, A!Nul, Nul, A!Overrun, Overrun, A!GREATER, GREATER, A!LESS, LESS, A!SAME, SAME
  <1>2. \A w, i : A!SkipNuls(w, i) = SkipNuls(w, i)
    BY <1>1 DEF A!SkipNuls, SkipNuls, A!Min, Min
  <1>3. \A a, b, p : A!Skipped(a, b, p) = Skipped(a, b, p)
    BY <1>2 DEF A!Skipped, Skipped
  <1>4. \A a, b : A!Places(a, b) = Places(a, b)
    BY DEF A!Places, Places
  <1>5. \A a, b, p : A!Within(a, b, p) = Within(a, b, p)
    BY DEF A!Within, Within
  <1>6. \A a, b, p : A!BothEnd(a, b, p) = BothEnd(a, b, p)
    BY <1>1, <1>5 DEF A!BothEnd, BothEnd
  <1>7. \A a, b, p, q : A!GoesBehind(a, b, p, q) = GoesBehind(a, b, p, q)
    BY <1>5, <1>6 DEF A!GoesBehind, GoesBehind
  <1>8. \A ch, ic : A!unfrobChar(ch, ic) = unfrobChar(ch, ic)
    BY DEF A!unfrobChar, unfrobChar, A!toupper, toupper, A!Signed, Signed, A!Xor42, Xor42, A!Flip, Flip
  <1>9. \A a, b, p, q, ic : A!Returned(a, b, p, q, ic) = Returned(a, b, p, q, ic)
    BY <1>1, <1>5, <1>6, <1>8 DEF A!Returned, Returned
  <1>10. ASSUME NEW a, NEW b, NEW ic  PROVE A!frobcmp(a, b, ic) = frobcmp(a, b, ic)
    <2>1. \A e : [p \in A!Places(a, b) |->
                   LET q == A!Skipped(a, b, p)
                   IN  IF A!GoesBehind(a, b, p, q) THEN e[<<q[1] + 1, q[2] + 1>>]
                       ELSE A!Returned(a, b, p, q, ic)]
               = [p \in Places(a, b) |->
                   LET q == Skipped(a, b, p)
                   IN  IF GoesBehind(a, b, p, q) THEN e[<<q[1] + 1, q[2] + 1>>]
                       ELSE Returned(a, b, p, q, ic)]
      BY <1>3, <1>4, <1>7, <1>9
    <2>. QED BY <2>1 DEF A!frobcmp, frobcmp
  <1>11. \A list, ic : A!ComparesSafely(list, ic) = ComparesSafely(list, ic)
    BY <1>1, <1>10 DEF A!ComparesSafely, ComparesSafely
  <1>12. \A list : A!Arrangements(list) = Arrangements(list)
    BY WordsOfSfrob
  <1>13. \A list, ic : A!Sorted(list, ic) = Sorted(list, ic)
    BY <1>1, <1>10, <1>11, <1>12 DEF A!Sorted, Sorted
  <1>. QED BY <1>10, <1>11, <1>13

------------------------------------------------------------------------------
(* A character is read.                                                     *)
LEMMA OneFurther ==
  ASSUME NEW v \in Seq(Byte), NEW s \in Seq(Byte), s # <<>>
  PROVE  /\ Head(s) \in Byte /\ Tail(s) \in Seq(Byte) /\ Append(v, Head(s)) \in Seq(Byte)
         /\ Append(v, Head(s)) \o Tail(s) = v \o s
  <1>1. PICK m \in Nat, n \in Nat : m = Len(v) /\ n = Len(s) /\ n > 0
    <2>1. Len(v) \in Nat /\ Len(s) \in Nat /\ (s = <<>> <=> Len(s) = 0)  BY EmptySeq, LenProperties
    <2>. QED BY <2>1
  <1>2. PICK ch : ch = Head(s)
    OBVIOUS
  <1>3. PICK t : t = Tail(s)
    OBVIOUS
  <1>4. /\ ch = s[1] /\ ch \in Byte /\ t \in Seq(Byte) /\ Len(t) = n - 1
        /\ \A i \in 1..(n - 1) : t[i] = s[i + 1]
    BY <1>1, <1>2, <1>3, HeadTailProperties, ElementOfSeq
  <1>5. PICK a : a = Append(v, ch)
    OBVIOUS
  <1>6. /\ a \in Seq(Byte) /\ Len(a) = m + 1 /\ a[m + 1] = ch
        /\ \A i \in 1..m : a[i] = v[i]
    BY <1>1, <1>4, <1>5, AppendProperties
  <1>7. PICK all : all = v \o s
    OBVIOUS
  <1>8. /\ all \in Seq(Byte) /\ Len(all) = m + n
        /\ \A i \in 1..(m + n) : all[i] = IF i <= m THEN v[i] ELSE s[i - m]
    BY <1>1, <1>7, ConcatProperties
  <1>9. PICK same : same = a \o t
    OBVIOUS
  <1>10. /\ same \in Seq(Byte) /\ Len(same) = m + n
         /\ \A i \in 1..(m + n) : same[i] = IF i <= m + 1 THEN a[i] ELSE t[i - (m + 1)]
    <2>1. (m + 1) + (n - 1) = m + n  BY <1>1
    <2>2. /\ same \in Seq(Byte) /\ Len(same) = Len(a) + Len(t)
          /\ \A i \in 1..(Len(a) + Len(t)) :
               same[i] = IF i <= Len(a) THEN a[i] ELSE t[i - Len(a)]
      BY <1>4, <1>6, <1>9, ConcatProperties
    <2>. QED BY <1>4, <1>6, <2>1, <2>2
  <1>11. \A i \in 1..(m + n) : same[i] = all[i]
    <2>. SUFFICES ASSUME NEW i \in 1..(m + n)  PROVE same[i] = all[i]
      OBVIOUS
    <2>0. i \in Int
      BY <1>1
    <2>1. CASE i <= m
      <3>1. i \in 1..m /\ i <= m + 1  BY <1>1, <2>0, <2>1
      <3>. QED BY <1>6, <1>8, <1>10, <2>1, <3>1
    <2>2. CASE i = m + 1
      <3>1. ~ i <= m /\ i - m = 1 /\ i <= m + 1  BY <1>1, <2>2
      <3>2. same[i] = ch  BY <1>6, <1>10, <2>2, <3>1
      <3>. QED BY <1>4, <1>8, <3>1, <3>2
    <2>3. CASE i > m + 1
      <3>1. i - (m + 1) \in 1..(n - 1) /\ (i - (m + 1)) + 1 = i - m /\ ~ i <= m /\ ~ i <= m + 1
        BY <1>1, <2>0, <2>3
      <3>2. t[i - (m + 1)] = s[i - m]  BY <1>4, <3>1
      <3>. QED BY <1>8, <1>10, <3>1, <3>2
    <2>. QED BY <1>1, <2>0, <2>1, <2>2, <2>3
  <1>12. same = all
    <2>1. Len(same) = Len(all)  BY <1>1, <1>8, <1>10
    <2>. QED BY <1>8, <1>10, <1>11, <2>1, SeqEqual
  <1>. QED BY <1>2, <1>3, <1>4, <1>5, <1>6, <1>7, <1>9, <1>12

------------------------------------------------------------------------------
(***************************************************************************)
(* sfrob has read v, which has no character 255.                           *)
(***************************************************************************)
SfrobReads(v) ==
  /\ v \in Seq(Byte) /\ rest \in Seq(Byte) /\ text = v \o rest
  /\ \A i \in 1..Len(v) : v[i] # 255
  /\ ReadSo(v, wordList, myWord) /\ (endOfWord <=> HasSpace(myWord))
  /\ FitSo(v, wordList, myWord, prevNumChars)

(* If it takes what follows for the end, then v is its input.               *)
LEMMA InputIsRead ==
  ASSUME NEW v, SfrobReads(v), A!checkForEndOfFile(rest)
  PROVE  A!Input = v
  <1>1. v \in Seq(Byte) /\ rest \in Seq(Byte) /\ text = v \o rest /\ \A i \in 1..Len(v) : v[i] # 255
    BY DEF SfrobReads
  <1>2. PICK m \in Nat, n \in Nat : m = Len(v) /\ n = Len(rest)
    BY <1>1, LenProperties
  <1>3. /\ text \in Seq(Byte) /\ Len(text) = m + n /\ DOMAIN text = 1..(m + n)
        /\ \A i \in 1..(m + n) : text[i] = IF i <= m THEN v[i] ELSE rest[i - m]
    BY <1>1, <1>2, ConcatProperties, LenProperties
  <1>. DEFINE ends == { i \in DOMAIN text : text[i] = 255 }
  <1>4. \A i \in ends : i > m /\ i \in Nat
    BY <1>1, <1>2, <1>3
  <1>5. CASE ends = {}
    <2>1. n = 0
      <3>. SUFFICES ASSUME n > 0  PROVE FALSE
        BY <1>2
      <3>1. rest # <<>>  BY <1>1, <1>2, EmptySeq
      <3>2. rest[1] = 255
        <4>1. Head(rest) = rest[1]  BY <1>1, <3>1, HeadTailProperties
        <4>. QED BY <3>1, <4>1 DEF A!checkForEndOfFile
      <3>3. m + 1 \in 1..(m + n) /\ ~ m + 1 <= m /\ (m + 1) - m = 1
        BY <1>2
      <3>4. text[m + 1] = 255  BY <1>3, <3>2, <3>3
      <3>. QED BY <1>3, <1>5, <3>3, <3>4
    <2>2. text = v
      <3>1. Len(text) = Len(v) /\ \A i \in 1..Len(v) : text[i] = v[i]  BY <1>2, <1>3, <2>1
      <3>. QED BY <1>1, <1>3, <3>1, SeqEqual
    <2>. QED BY <1>5, <2>2 DEF A!Input
  <1>6. CASE ends # {}
    <2>1. n > 0 /\ rest # <<>>
      <3>1. n > 0  BY <1>2, <1>3, <1>4, <1>6
      <3>. QED BY <1>1, <1>2, <3>1, EmptySeq
    <2>2. text[m + 1] = 255 /\ m + 1 \in DOMAIN text
      <3>1. Head(rest) = rest[1]  BY <1>1, <2>1, HeadTailProperties
      <3>2. rest[1] = 255  BY <2>1, <3>1 DEF A!checkForEndOfFile
      <3>3. m + 1 \in 1..(m + n) /\ ~ m + 1 <= m /\ (m + 1) - m = 1  BY <1>2, <2>1
      <3>. QED BY <1>3, <3>2, <3>3
    <2>3. A!Min(ends) = m + 1
      <3>1. m + 1 \in ends /\ \A y \in ends : m + 1 <= y  BY <1>2, <1>4, <2>2
      <3>2. \A x \in ends : (\A y \in ends : x <= y) => x = m + 1
        <4>. SUFFICES ASSUME NEW x \in ends, \A y \in ends : x <= y  PROVE x = m + 1
          OBVIOUS
        <4>1. x <= m + 1 /\ x > m /\ x \in Nat  BY <1>4, <3>1
        <4>. QED BY <1>2, <4>1
      <3>. HIDE DEF ends
      <3>. QED BY <3>1, <3>2 DEF A!Min
    <2>4. A!Input = SubSeq(text, 1, (m + 1) - 1)
      BY <1>6, <2>3 DEF A!Input
    <2>5. (m + 1) - 1 = m  BY <1>2
    <2>6. SubSeq(text, 1, m) = v
      <3>1. 1 \in 1..(Len(text) + 1) /\ m \in (1 - 1)..Len(text) /\ m - 1 + 1 = m  BY <1>2, <1>3
      <3>2. /\ SubSeq(text, 1, m) \in Seq(Byte) /\ Len(SubSeq(text, 1, m)) = m
            /\ \A i \in 1..m : SubSeq(text, 1, m)[i] = text[1 + i - 1]
        BY <1>3, <3>1, PartFacts
      <3>3. \A i \in 1..m : 1 + i - 1 = i /\ text[i] = v[i]  BY <1>2, <1>3
      <3>4. \A i \in 1..m : SubSeq(text, 1, m)[i] = v[i]  BY <3>2, <3>3
      <3>. QED BY <1>1, <1>2, <3>2, <3>4, SeqEqual
    <2>. QED BY <2>4, <2>5, <2>6
  <1>. QED BY <1>5, <1>6

------------------------------------------------------------------------------
(***************************************************************************)
(* From the end of reading on: all words of u are listed, and are whole if *)
(* u is fit for it.                                                        *)
(***************************************************************************)
FitFor(u) == ~ Contains(u, Nul) /\ ~ MayLackItsSpace(u)
SortsSo(u, fit, list) == AllListed(u, list) /\ (fit => Whole(list))

(* Nothing printed yet                                                      *)
LEMMA PrintsNothing ==
  ASSUME NEW u, NEW list, AllListed(u, list)
  PROVE  PrintedSo(list, <<>>)
  <1>1. list \in Seq(Seq(Byte))
    BY DEF AllListed
  <1>2. <<>> \in Seq(Seq(Byte)) /\ Len(<<>>) = 0 /\ Len(list) \in Nat /\ \A i \in 1..0 : FALSE
    BY <1>1, EmptySeq, LenProperties
  <1>. QED BY <1>2 DEF PrintedSo

(* Sorting is safe where the text is fit, and keeps all this.               *)
LEMMA SortingKeeps ==
  ASSUME NEW u, NEW fit, NEW list, SortsSo(u, fit, list), NEW ic
  PROVE  /\ fit => ComparesSafely(list, ic)
         /\ \A sorted \in Sorted(list, ic) : SortsSo(u, fit, sorted)
  <1>1. AllListed(u, list) /\ (fit => Whole(list)) /\ list \in Seq(Seq(Byte))
    BY DEF SortsSo, AllListed
  <1>2. fit => ComparesSafely(list, ic)
    BY <1>1, WholeCompares
  <1>3. ASSUME NEW sorted \in Sorted(list, ic)  PROVE SortsSo(u, fit, sorted)
    <2>1. AllListed(u, sorted) /\ (Whole(list) => Whole(sorted))  BY <1>1, <1>3, SortKeepsWords
    <2>. QED BY <1>1, <2>1 DEF SortsSo
  <1>. QED BY <1>2, <1>3

(* So does printing one more word; only a word that is not whole has no end.*)
LEMMA PrintingKeeps ==
  ASSUME NEW u, NEW fit, NEW list, SortsSo(u, fit, list), NEW done, PrintedSo(list, done),
         Len(done) < Len(list)
  PROVE  LET w == list[Len(done) + 1]
         IN  /\ Contains(w, Space) => PrintedSo(list, Append(done, UpToSpace(w)))
             /\ ~ Contains(w, Space) => ~ fit
  <1>1. list \in Seq(Seq(Byte)) /\ (fit => Whole(list))
    BY DEF SortsSo, AllListed
  <1>2. Len(done) + 1 \in 1..Len(list)
    <2>1. Len(done) \in Nat /\ Len(list) \in Nat
      BY <1>1, LenProperties DEF PrintedSo
    <2>. QED BY <2>1
  <1>3. PICK w : w = list[Len(done) + 1]
    OBVIOUS
  <1>4. HasSpace(w) <=> Contains(w, Space)
    BY DEF HasSpace
  <1>5. Contains(w, Space) => PrintedSo(list, Append(done, UpToSpace(w)))
    BY <1>1, <1>3, <1>4, PrintsNext
  <1>6. ~ Contains(w, Space) => ~ fit
    BY <1>1, <1>2, <1>3, <1>4 DEF Whole
  <1>. QED BY <1>3, <1>5, <1>6

------------------------------------------------------------------------------
(***************************************************************************)
(* The inductive invariant of sfrob                                        *)
(***************************************************************************)
SfrobInv ==
  /\ pc = "read" => printed = <<>> /\ \E v : SfrobReads(v)
  /\ pc = "sort" => printed = <<>> /\ SortsSo(A!Input, FitFor(A!Input), wordList)
  /\ pc \in {"print", "done"} => /\ SortsSo(A!Input, FitFor(A!Input), wordList)
                                 /\ PrintedSo(wordList, printed)
  /\ pc = "done" => Len(printed) = Len(wordList)
  /\ pc = "overrun" => ~ FitFor(A!Input)

(* It holds at the start,                                                   *)
LEMMA SfrobStarts == A!Init => SfrobInv
  <1>. SUFFICES ASSUME A!Init  PROVE SfrobInv
    OBVIOUS
  <1>1. /\ pc = "read" /\ text \in SfrobTexts /\ rest = text /\ myWord = <<>> /\ wordList = <<>>
        /\ endOfWord = FALSE /\ prevNumChars = -1 /\ printed = <<>>
    BY DEF A!Init
  <1>2. text \in Seq(Byte)
    BY <1>1, BytesAssumption
  <1>3. <<>> \in Seq(Byte) /\ Len(<<>>) = 0 /\ text = <<>> \o text /\ \A i \in 1..0 : FALSE
    BY <1>2, EmptySeq, ConcatEmptySeq
  <1>4. ~ HasSpace(<<>>)
    BY <1>3 DEF HasSpace, Contains
  <1>5. SfrobReads(<<>>)
    BY <1>1, <1>2, <1>3, <1>4, ReadsNothing, FitAtFirst DEF SfrobReads
  <1>. QED BY <1>1, <1>5 DEF SfrobInv

(* as long as nothing moves,                                                *)
LEMMA SfrobStays ==
  ASSUME UNCHANGED <<pc, rest, sortvars>>, SfrobInv
  PROVE  SfrobInv'
  <1>1. /\ pc' = pc /\ rest' = rest /\ text' = text /\ myWord' = myWord /\ wordList' = wordList
        /\ endOfWord' = endOfWord /\ prevNumChars' = prevNumChars /\ printed' = printed
    BY DEF sortvars
  <1>2. \A v : SfrobReads(v)' <=> SfrobReads(v)
    BY <1>1 DEF SfrobReads
  <1>3. A!Input' = A!Input
    BY <1>1 DEF A!Input
  <1>. QED BY <1>1, <1>2, <1>3 DEF SfrobInv

(* while a character is read,                                               *)
LEMMA SfrobReadsOn ==
  ASSUME SfrobInv, A!AddChar \/ A!SkipSpace \/ A!NewWord
  PROVE  SfrobInv'
  <1>1. pc = "read" /\ pc' = "read" /\ ~ A!checkForEndOfFile(rest) /\ text' = text /\ printed' = printed
        /\ rest' = Tail(rest)
    BY DEF A!AddChar, A!SkipSpace, A!NewWord
  <1>2. PICK v : SfrobReads(v)
    BY <1>1 DEF SfrobInv
  <1>3. rest # <<>> /\ Head(rest) # 255
    BY <1>1 DEF A!checkForEndOfFile
  <1>4. /\ v \in Seq(Byte) /\ rest \in Seq(Byte) /\ text = v \o rest
        /\ \A i \in 1..Len(v) : v[i] # 255
        /\ ReadSo(v, wordList, myWord) /\ (endOfWord <=> HasSpace(myWord))
        /\ FitSo(v, wordList, myWord, prevNumChars)
    BY <1>2 DEF SfrobReads
  <1>5. PICK ch : ch = Head(rest)
    OBVIOUS
  <1>6. PICK x : x = Append(v, ch)
    OBVIOUS
  <1>7. ch \in Byte /\ rest' \in Seq(Byte) /\ x \in Seq(Byte) /\ text' = x \o rest'
    BY <1>1, <1>3, <1>4, <1>5, <1>6, OneFurther
  <1>8. \A i \in 1..Len(x) : x[i] # 255
    <2>1. PICK n \in Nat : n = Len(v)  BY <1>4, LenProperties
    <2>2. Len(x) = n + 1 /\ x[n + 1] = ch /\ \A i \in 1..n : x[i] = v[i]
      BY <1>4, <1>6, <1>7, <2>1, AppendProperties
    <2>3. \A i \in 1..(n + 1) : i \in 1..n \/ i = n + 1
      BY <2>1
    <2>4. x[n + 1] # 255 /\ \A i \in 1..n : x[i] # 255
      BY <1>3, <1>4, <1>5, <2>1, <2>2
    <2>. QED BY <2>2, <2>3, <2>4
  <1>9. /\ ReadSo(x, wordList', myWord') /\ (endOfWord' <=> HasSpace(myWord'))
        /\ FitSo(x, wordList', myWord', prevNumChars')
    <2>1. CASE A!AddChar
      <3>1. /\ ~ HasSpace(myWord) /\ myWord' = Append(myWord, ch) /\ (endOfWord' <=> ch = Space)
            /\ wordList' = wordList /\ prevNumChars' = prevNumChars
        BY <1>4, <1>5, <2>1, WordsOfSfrob DEF A!AddChar, EndsWord
      <3>2. ReadSo(x, wordList', myWord') /\ FitSo(x, wordList', myWord', prevNumChars')
        BY <1>4, <1>6, <1>7, <3>1, ReadsChar, FitFollows
      <3>3. HasSpace(Append(myWord, ch)) <=> ch = Space
        <4>1. myWord \in Seq(Byte)  BY <1>4 DEF ReadSo
        <4>. QED BY <1>7, <3>1, <4>1, SpaceOfFull
      <3>. QED BY <3>1, <3>2, <3>3
    <2>2. CASE A!SkipSpace
      <3>1. /\ HasSpace(myWord) /\ myWord' = myWord /\ endOfWord' = endOfWord /\ ch = Space
            /\ wordList' = wordList /\ prevNumChars' = prevNumChars
        BY <1>4, <1>5, <2>2, WordsOfSfrob DEF A!SkipSpace
      <3>2. ReadSo(x, wordList', myWord') /\ FitSo(x, wordList', myWord', prevNumChars')
        BY <1>4, <1>6, <1>7, <3>1, ReadsSpace, FitFollows
      <3>. QED BY <1>4, <3>1, <3>2
    <2>3. CASE A!NewWord
      <3>1. /\ HasSpace(myWord) /\ myWord' = <<ch>> /\ endOfWord' = FALSE /\ ch # Space
            /\ wordList' = Append(wordList, myWord) /\ prevNumChars' = Len(myWord)
        BY <1>4, <1>5, <2>3, WordsOfSfrob DEF A!NewWord
      <3>2. ReadSo(x, wordList', myWord') /\ FitSo(x, wordList', myWord', prevNumChars')
        BY <1>4, <1>6, <1>7, <3>1, ReadsWord, FitFollows
      <3>3. ~ HasSpace(<<ch>>)
        BY <3>1 DEF HasSpace, Contains
      <3>. QED BY <3>1, <3>2, <3>3
    <2>. QED BY <2>1, <2>2, <2>3
  <1>10. SfrobReads(x)'
    BY <1>7, <1>8, <1>9 DEF SfrobReads
  <1>11. printed' = <<>>
    BY <1>1 DEF SfrobInv
  <1>. QED BY <1>1, <1>10, <1>11 DEF SfrobInv

(* at the end of the text,                                                  *)
LEMMA SfrobStopsReading ==
  ASSUME SfrobInv, A!EndOfFile
  PROVE  SfrobInv'
  <1>1. pc = "read" /\ pc' = "sort" /\ A!checkForEndOfFile(rest) /\ text' = text /\ printed' = printed
    BY DEF A!EndOfFile
  <1>2. PICK stale \in BOOLEAN : wordList' = Append(wordList, LastWord(myWord, prevNumChars, stale))
    BY WordsOfSfrob DEF A!EndOfFile
  <1>3. PICK v : SfrobReads(v)
    BY <1>1 DEF SfrobInv
  <1>4. A!Input' = v
    <2>1. A!Input = v  BY <1>1, <1>3, InputIsRead
    <2>2. A!Input' = A!Input  BY <1>1 DEF A!Input
    <2>. QED BY <2>1, <2>2
  <1>5. ReadSo(v, wordList, myWord) /\ FitSo(v, wordList, myWord, prevNumChars)
    BY <1>3 DEF SfrobReads
  <1>6. AllListed(v, wordList')
    <2>1. LastWord(myWord, prevNumChars, stale) \in {myWord, Append(myWord, Space)}  BY DEF LastWord
    <2>. QED BY <1>2, <1>5, <2>1, ReadsAll
  <1>7. FitFor(v) => Whole(wordList')
    BY <1>2, <1>5, WholeAtEnd DEF FitFor
  <1>8. SortsSo(A!Input', FitFor(A!Input'), wordList')
    BY <1>4, <1>6, <1>7 DEF SortsSo
  <1>9. printed' = <<>>
    BY <1>1 DEF SfrobInv
  <1>. QED BY <1>1, <1>8, <1>9 DEF SfrobInv

(* and while the words are sorted and printed.                              *)
LEMMA SfrobSortsAndPrints ==
  ASSUME SfrobInv, A!Sort \/ A!PrintWord \/ A!Finish \/ A!Errors
  PROVE  SfrobInv'
  <1>1. text' = text
    BY DEF A!Sort, A!PrintWord, A!Finish, A!Errors, A!ReadError, A!UncheckedRealloc, A!PrintError
  <1>2. PICK u : u = A!Input
    OBVIOUS
  <1>3. A!Input' = u
    BY <1>1, <1>2 DEF A!Input
  <1>4. CASE A!Sort
    <2>1. pc = "sort" /\ printed' = printed /\ printed = <<>> /\ SortsSo(u, FitFor(u), wordList)
      BY <1>2, <1>4 DEF A!Sort, SfrobInv
    <2>2. \/ pc' = "print" /\ wordList' \in Sorted(wordList, FALSE)
          \/ pc' = "overrun" /\ ~ ComparesSafely(wordList, FALSE)
      BY <1>4, ComparisonOfSfrob DEF A!Sort
    <2>3. CASE pc' = "print" /\ wordList' \in Sorted(wordList, FALSE)
      <3>1. SortsSo(u, FitFor(u), wordList')  BY <2>1, <2>3, SortingKeeps
      <3>2. PrintedSo(wordList', printed')  BY <2>1, <3>1, PrintsNothing DEF SortsSo
      <3>. QED BY <1>3, <2>3, <3>1, <3>2 DEF SfrobInv
    <2>4. CASE pc' = "overrun" /\ ~ ComparesSafely(wordList, FALSE)
      <3>1. ~ FitFor(u)  BY <2>1, <2>4, SortingKeeps
      <3>. QED BY <1>3, <2>4, <3>1 DEF SfrobInv
    <2>. QED BY <2>2, <2>3, <2>4
  <1>5. CASE A!PrintWord
    <2>1. /\ pc = "print" /\ wordList' = wordList /\ Len(printed) < Len(wordList)
          /\ SortsSo(u, FitFor(u), wordList) /\ PrintedSo(wordList, printed)
      BY <1>2, <1>5 DEF A!PrintWord, SfrobInv
    <2>2. PICK w : w = wordList[Len(printed) + 1]
      OBVIOUS
    <2>3. IF Contains(w, Space) THEN printed' = Append(printed, UpToSpace(w)) /\ pc' = pc
                                ELSE pc' = "overrun" /\ printed' = printed
      BY <1>5, <2>2, WordsOfSfrob DEF A!PrintWord, WithPrinted
    <2>4. /\ Contains(w, Space) => PrintedSo(wordList, Append(printed, UpToSpace(w)))
          /\ ~ Contains(w, Space) => ~ FitFor(u)
      BY <2>1, <2>2, PrintingKeeps
    <2>5. CASE Contains(w, Space)
      BY <1>3, <2>1, <2>3, <2>4, <2>5 DEF SfrobInv
    <2>6. CASE ~ Contains(w, Space)
      BY <1>3, <2>1, <2>3, <2>4, <2>6 DEF SfrobInv
    <2>. QED BY <2>5, <2>6
  <1>6. CASE A!Finish
    <2>1. pc = "print" /\ pc' = "done" /\ wordList' = wordList /\ printed' = printed
          /\ Len(printed) = Len(wordList)
      BY <1>6 DEF A!Finish
    <2>. QED BY <1>2, <1>3, <2>1 DEF SfrobInv
  <1>7. CASE A!Errors
    <2>1. pc' \in {"exit 1", "crash"}
      BY <1>7 DEF A!Errors, A!ReadError, A!UncheckedRealloc, A!PrintError
    <2>. QED BY <2>1 DEF SfrobInv
  <1>. QED BY <1>4, <1>5, <1>6, <1>7

(* So it always holds, and it says what is wanted.                          *)
LEMMA SfrobGoesOn ==
  ASSUME SfrobInv, A!Steps \/ A!Errors
  PROVE  SfrobInv'
  <1>1. \/ A!AddChar \/ A!SkipSpace \/ A!NewWord
        \/ A!EndOfFile
        \/ A!Sort \/ A!PrintWord \/ A!Finish \/ A!Errors
    BY DEF A!Steps
  <1>. QED BY <1>1, SfrobReadsOn, SfrobStopsReading, SfrobSortsAndPrints

(* What the invariant says                                                  *)
LEMMA SfrobSays == SfrobInv => A!PrintsTheWords /\ A!OverrunsOnlyOf
  <1>. SUFFICES ASSUME SfrobInv  PROVE A!PrintsTheWords /\ A!OverrunsOnlyOf
    OBVIOUS
  <1>1. ASSUME pc = "done", NEW w  PROVE A!TimesListed(printed, w) = A!TimesIn(A!Input, w)
    <2>1. /\ AllListed(A!Input, wordList) /\ PrintedSo(wordList, printed)
          /\ Len(printed) = Len(wordList)
      BY <1>1 DEF SfrobInv, SortsSo
    <2>2. TimesListed(printed, w) = TimesIn(A!Input, w)
      BY <2>1, PrintsAll
    <2>. QED BY <2>2, WordsOfSfrob
  <1>2. A!PrintsTheWords
    BY <1>1 DEF A!PrintsTheWords
  <1>3. A!OverrunsOnlyOf
    BY WordsOfSfrob DEF A!OverrunsOnlyOf, SfrobInv, FitFor
  <1>. QED BY <1>2, <1>3

------------------------------------------------------------------------------
(* The words of sfrobu are those of Frobnication,                           *)
LEMMA WordsOfSfrobu ==
  /\ U!Space = Space /\ U!Nul = Nul
  /\ \A s, e : U!Contains(s, e) = Contains(s, e)
  /\ \A w : U!UpToSpace(w) = UpToSpace(w)
  /\ \A e : U!EndsWord(e) = EndsWord(e)
  /\ \A w, n, s : U!LooksTerminated(w, n, s) = LooksTerminated(w, n, s)
  /\ \A w, n, s : U!LastWord(w, n, s) = LastWord(w, n, s)
  /\ \A list, w : U!WithPrinted(list, w) = WithPrinted(list, w)
  /\ \A u, w : U!TimesIn(u, w) = TimesIn(u, w)
  /\ \A list, w : U!TimesListed(list, w) = TimesListed(list, w)
  /\ \A u : U!MayLackItsSpace(u) = MayLackItsSpace(u)
  /\ \A list : U!Arrangements(list) = Arrangements(list)
  <1>0. \A S : U!Cardinality(S) = Cardinality(S)
    BY DEF U!Cardinality, Cardinality
  <1>1. U!Space = Space /\ U!Nul = Nul
    BY DEF U!Space, Space, U!Nul, Nul
  <1>2. \A s, e : U!Contains(s, e) = Contains(s, e)
    BY DEF U!Contains, Contains
  <1>4. \A w : U!UpToSpace(w) = UpToSpace(w)
    BY DEF U!Space, Space, U!UpToSpace, UpToSpace, U!Min, Min
  <1>5. \A e : U!EndsWord(e) = EndsWord(e)
    BY <1>1 DEF U!EndsWord, EndsWord
  <1>6. \A w, n, s : U!LooksTerminated(w, n, s) = LooksTerminated(w, n, s)
    BY <1>1 DEF U!LooksTerminated, LooksTerminated
  <1>7. \A w, n, s : U!LastWord(w, n, s) = LastWord(w, n, s)
    BY <1>1, <1>6 DEF U!LastWord, LastWord
  <1>8. \A list, w : U!WithPrinted(list, w) = WithPrinted(list, w)
    BY <1>4 DEF U!WithPrinted, WithPrinted
  <1>9. \A u : U!Pieces(u) = Pieces(u)
    BY <1>1 DEF U!Pieces, Pieces
  <1>10. \A u, p : U!Piece(u, p) = Piece(u, p)
    BY <1>1 DEF U!Piece, Piece
  <1>11. \A u : U!StartsEmpty(u) = StartsEmpty(u)
    BY <1>1 DEF U!StartsEmpty, StartsEmpty
  <1>13. \A u, w : U!TimesIn(u, w) = TimesIn(u, w)
    BY <1>0, <1>1, <1>9, <1>10, <1>11 DEF U!TimesIn, TimesIn
  <1>14. \A list, w : U!TimesListed(list, w) = TimesListed(list, w)
    BY <1>0 DEF U!TimesListed, TimesListed
  <1>15. \A u : U!MayLackItsSpace(u) = MayLackItsSpace(u)
    BY <1>9 DEF U!MayLackItsSpace, MayLackItsSpace
  <1>16. \A list : U!Arrangements(list) = Arrangements(list)
    BY DEF U!Arrangements, Arrangements
  <1>. QED BY <1>1, <1>2, <1>4, <1>5, <1>6, <1>7, <1>8, <1>13, <1>14, <1>15, <1>16

(* and so is its comparison.                                                *)
LEMMA ComparisonOfSfrobu ==
  /\ \A a, b, ic : U!frobcmp(a, b, ic) = frobcmp(a, b, ic)
  /\ \A list, ic : U!ComparesSafely(list, ic) = ComparesSafely(list, ic)
  /\ \A list, ic : U!Sorted(list, ic) = Sorted(list, ic)
  <1>1. U!Space = Space /\ U!Nul = Nul /\ U!Overrun = Overrun /\ U!GREATER = GREATER
        /\ U!LESS = LESS /\ U!SAME = SAME
    BY DEF U!Space, Space, U!Nul, Nul, U!Overrun, Overrun, U!GREATER, GREATER, U!LESS, LESS, U!SAME, SAME
  <1>2. \A w, i : U!SkipNuls(w, i) = SkipNuls(w, i)
    BY <1>1 DEF U!SkipNuls, SkipNuls, U!Min, Min
  <1>3. \A a, b, p : U!Skipped(a, b, p) = Skipped(a, b, p)
    BY <1>2 DEF U!Skipped, Skipped
  <1>4. \A a, b : U!Places(a, b) = Places(a, b)
    BY DEF U!Places, Places
  <1>5. \A a, b, p : U!Within(a, b, p) = Within(a, b, p)
    BY DEF U!Within, Within
  <1>6. \A a, b, p : U!BothEnd(a, b, p) = BothEnd(a, b, p)
    BY <1>1, <1>5 DEF U!BothEnd, BothEnd
  <1>7. \A a, b, p, q : U!GoesBehind(a, b, p, q) = GoesBehind(a, b, p, q)
    BY <1>5, <1>6 DEF U!GoesBehind, GoesBehind
  <1>8. \A ch, ic : U!unfrobChar(ch, ic) = unfrobChar(ch, ic)
    BY DEF U!unfrobChar, unfrobChar, U!toupper, toupper, U!Signed, Signed, U!Xor42, Xor42, U!Flip, Flip
  <1>9. \A a, b, p, q, ic : U!Returned(a, b, p, q, ic) = Returned(a, b, p, q, ic)
    BY <1>1, <1>5, <1>6, <1>8 DEF U!Returned, Returned
  <1>10. ASSUME NEW a, NEW b, NEW ic  PROVE U!frobcmp(a, b, ic) = frobcmp(a, b, ic)
    <2>1. \A e : [p \in U!Places(a, b) |->
                   LET q == U!Skipped(a, b, p)
                   IN  IF U!GoesBehind(a, b, p, q) THEN e[<<q[1] + 1, q[2] + 1>>]
                       ELSE U!Returned(a, b, p, q, ic)]
               = [p \in Places(a, b) |->
                   LET q == Skipped(a, b, p)
                   IN  IF GoesBehind(a, b, p, q) THEN e[<<q[1] + 1, q[2] + 1>>]
                       ELSE Returned(a, b, p, q, ic)]
      BY <1>3, <1>4, <1>7, <1>9
    <2>. QED BY <2>1 DEF U!frobcmp, frobcmp
  <1>11. \A list, ic : U!ComparesSafely(list, ic) = ComparesSafely(list, ic)
    BY <1>1, <1>10 DEF U!ComparesSafely, ComparesSafely
  <1>12. \A list : U!Arrangements(list) = Arrangements(list)
    BY WordsOfSfrobu
  <1>13. \A list, ic : U!Sorted(list, ic) = Sorted(list, ic)
    BY <1>1, <1>10, <1>11, <1>12 DEF U!Sorted, Sorted
  <1>. QED BY <1>10, <1>11, <1>13

------------------------------------------------------------------------------
(* A character is read from what is left, first of the buffer b and then    *)
(* behind it.                                                               *)
LEMMA FurtherInBuffer ==
  ASSUME NEW v \in Seq(Byte), NEW b \in Seq(Byte), NEW r \in Seq(Byte)
  PROVE  /\ b # <<>> => /\ Head(b) \in Byte /\ Tail(b) \in Seq(Byte) /\ Append(v, Head(b)) \in Seq(Byte)
                        /\ Append(v, Head(b)) \o (Tail(b) \o r) = v \o (b \o r)
         /\ b = <<>> /\ r # <<>> =>
              /\ Head(r) \in Byte /\ Tail(r) \in Seq(Byte) /\ Append(v, Head(r)) \in Seq(Byte)
              /\ Append(v, Head(r)) \o (b \o Tail(r)) = v \o (b \o r)
  <1>1. ASSUME b # <<>>
        PROVE  /\ Head(b) \in Byte /\ Tail(b) \in Seq(Byte) /\ Append(v, Head(b)) \in Seq(Byte)
               /\ Append(v, Head(b)) \o (Tail(b) \o r) = v \o (b \o r)
    <2>1. /\ Head(b) \in Byte /\ Tail(b) \in Seq(Byte) /\ Append(v, Head(b)) \in Seq(Byte)
          /\ Append(v, Head(b)) \o Tail(b) = v \o b
      BY <1>1, OneFurther
    <2>2. \A x, y \in Seq(Byte) : (x \o y) \o r = x \o (y \o r)
      <3>. SUFFICES ASSUME NEW x \in Seq(Byte), NEW y \in Seq(Byte)
                    PROVE  (x \o y) \o r = x \o (y \o r)
        OBVIOUS
      <3>. QED BY ConcatAssociative
    <2>3. /\ (Append(v, Head(b)) \o Tail(b)) \o r = Append(v, Head(b)) \o (Tail(b) \o r)
          /\ (v \o b) \o r = v \o (b \o r)
      BY <2>1, <2>2
    <2>. QED BY <2>1, <2>3
  <1>2. ASSUME b = <<>>, r # <<>>
        PROVE  /\ Head(r) \in Byte /\ Tail(r) \in Seq(Byte) /\ Append(v, Head(r)) \in Seq(Byte)
               /\ Append(v, Head(r)) \o (b \o Tail(r)) = v \o (b \o r)
    <2>1. /\ Head(r) \in Byte /\ Tail(r) \in Seq(Byte) /\ Append(v, Head(r)) \in Seq(Byte)
          /\ Append(v, Head(r)) \o Tail(r) = v \o r
      BY <1>2, OneFurther
    <2>2. <<>> \o r = r /\ <<>> \o Tail(r) = Tail(r)
      BY <2>1, ConcatEmptySeq
    <2>. QED BY <1>2, <2>1, <2>2
  <1>. QED BY <1>1, <1>2

(* A file grows at its end.                                                 *)
LEMMA GrowsAtEnd ==
  ASSUME NEW w \in Seq(Byte), NEW r \in Seq(Byte), NEW ch \in Byte
  PROVE  /\ SubSeq(w \o r, 1, Len(w \o r) - Len(r)) \o Append(r, ch) = Append(w \o r, ch)
         /\ w \o Append(r, ch) = Append(w \o r, ch)
  <1>1. PICK m \in Nat, n \in Nat : m = Len(w) /\ n = Len(r)
    BY LenProperties
  <1>2. PICK all : all = w \o r
    OBVIOUS
  <1>3. /\ all \in Seq(Byte) /\ Len(all) = m + n
        /\ \A i \in 1..(m + n) : all[i] = IF i <= m THEN w[i] ELSE r[i - m]
    BY <1>1, <1>2, ConcatProperties
  <1>4. (m + n) - n = m
    BY <1>1
  <1>5. SubSeq(all, 1, m) = w
    <2>1. 1 \in 1..(Len(all) + 1) /\ m \in (1 - 1)..Len(all) /\ m - 1 + 1 = m
      BY <1>1, <1>3
    <2>2. /\ SubSeq(all, 1, m) \in Seq(Byte) /\ Len(SubSeq(all, 1, m)) = m
          /\ \A i \in 1..m : SubSeq(all, 1, m)[i] = all[1 + i - 1]
      BY <1>3, <2>1, PartFacts
    <2>3. \A i \in 1..m : 1 + i - 1 = i /\ all[i] = w[i]
      BY <1>1, <1>3
    <2>4. \A i \in 1..m : SubSeq(all, 1, m)[i] = w[i]
      BY <2>2, <2>3
    <2>. QED BY <1>1, <2>2, <2>4, SeqEqual
  <1>6. w \o Append(r, ch) = Append(all, ch)
    <2>1. <<ch>> \in Seq(Byte)
      <3>1. Append(<<>>, ch) = <<ch>> /\ <<>> \in Seq(Byte)  BY EmptySeq
      <3>. QED BY <3>1, AppendProperties
    <2>2. Append(r, ch) = r \o <<ch>> /\ Append(all, ch) = all \o <<ch>>
      BY <1>3, AppendIsConcat
    <2>3. (w \o r) \o <<ch>> = w \o (r \o <<ch>>)
      BY <2>1, ConcatAssociative
    <2>. QED BY <1>2, <2>2, <2>3
  <1>. QED BY <1>1, <1>2, <1>3, <1>4, <1>5, <1>6

(* A file is read into the buffer up to its k-th character.                 *)
LEMMA SplitsAt ==
  ASSUME NEW r \in Seq(Byte), NEW k \in 0..Len(r)
  PROVE  /\ SubSeq(r, 1, k) \in Seq(Byte) /\ Len(SubSeq(r, 1, k)) = k
         /\ SubSeq(r, k + 1, Len(r)) \in Seq(Byte)
         /\ SubSeq(r, 1, k) \o SubSeq(r, k + 1, Len(r)) = r
  <1>1. PICK n \in Nat : n = Len(r)
    BY LenProperties
  <1>2. /\ 1 \in 1..(n + 1) /\ k \in (1 - 1)..n /\ k - 1 + 1 = k /\ n \in k..n
    BY <1>1
  <1>3. SubSeq(r, 1, k) \in Seq(Byte) /\ Len(SubSeq(r, 1, k)) = k
    BY <1>1, <1>2, PartFacts
  <1>4. SubSeq(r, k + 1, n) \in Seq(Byte)
    BY <1>1, AfterFacts DEF After
  <1>5. SubSeq(r, 1, k) \o SubSeq(r, k + 1, n) = SubSeq(r, 1, n)
    BY <1>1, <1>2, ConcatAdjacentSubSeq
  <1>6. SubSeq(r, 1, n) = r
    BY <1>1, SubSeqFull
  <1>. QED BY <1>1, <1>3, <1>4, <1>5, <1>6

------------------------------------------------------------------------------
(***************************************************************************)
(* What sfrobu takes v for: from a buffer, a first word behind one space   *)
(* is not noticed.  v is muffled until the space that ends that word.      *)
(***************************************************************************)
Muffled(v) == v # <<>> /\ v[1] = Space /\ \A i \in 2..Len(v) : v[i] # Space

TakenFor(buffered, v) ==
  IF buffered /\ Len(v) > 1 /\ v[1] = Space /\ v[2] # Space THEN U!WithoutFirstPiece(v) ELSE v

(* The text without its first word                                          *)
LEMMA WithoutFirst ==
  ASSUME NEW v \in Seq(Byte)
  PROVE  /\ (\A i \in 2..Len(v) : v[i] # Space) => U!WithoutFirstPiece(v) = <<Space>>
         /\ \A j \in 2..Len(v) : v[j] = Space /\ (\A i \in 2..(j - 1) : v[i] # Space)
              => U!WithoutFirstPiece(v) = <<Space>> \o After(v, j - 1)
  <1>1. PICK n \in Nat : n = Len(v)
    BY LenProperties
  <1>. DEFINE spaces == { i \in 2..n : v[i] = Space }
  <1>2. U!WithoutFirstPiece(v) = IF spaces = {} THEN <<Space>> ELSE <<Space>> \o SubSeq(v, U!Min(spaces), n)
    BY <1>1, WordsOfSfrobu DEF U!WithoutFirstPiece
  <1>3. (\A i \in 2..n : v[i] # Space) => spaces = {}
    OBVIOUS
  <1>4. ASSUME NEW j \in 2..n, v[j] = Space, \A i \in 2..(j - 1) : v[i] # Space
        PROVE  spaces # {} /\ U!Min(spaces) = j /\ (j - 1) + 1 = j
    <2>1. j \in spaces /\ \A y \in spaces : j <= y
      <3>1. ASSUME NEW y \in spaces, ~ j <= y  PROVE FALSE
        <4>1. y \in 2..(j - 1)  BY <3>1
        <4>. QED BY <1>4, <3>1, <4>1
      <3>. QED BY <1>4, <3>1
    <2>2. \A x \in spaces : (\A y \in spaces : x <= y) => x = j
      <3>. SUFFICES ASSUME NEW x \in spaces, \A y \in spaces : x <= y  PROVE x = j
        OBVIOUS
      <3>1. x <= j /\ j <= x /\ x \in Nat  BY <2>1
      <3>. QED BY <3>1
    <2>3. U!Min(spaces) = j
      <3>. HIDE DEF spaces
      <3>. QED BY <2>1, <2>2 DEF U!Min
    <2>. QED BY <2>1, <2>3
  <1>. HIDE DEF spaces
  <1>. QED BY <1>1, <1>2, <1>3, <1>4 DEF After

(* A character more: only of the first word it makes no difference.         *)
LEMMA TakenGrows ==
  ASSUME NEW v \in Seq(Byte), v # <<>>, NEW ch \in Byte
  PROVE  /\ Muffled(v) => TakenFor(TRUE, v) = <<Space>>
         /\ Muffled(v) /\ ch # Space => Muffled(Append(v, ch))
         /\ Muffled(v) /\ ch = Space => /\ ~ Muffled(Append(v, ch))
                                        /\ TakenFor(TRUE, Append(v, ch)) = Append(<<Space>>, Space)
         /\ ~ Muffled(v) => /\ ~ Muffled(Append(v, ch))
                            /\ TakenFor(TRUE, Append(v, ch)) = Append(TakenFor(TRUE, v), ch)
  <1>1. PICK n \in Nat : n = Len(v) /\ n > 0
    <2>1. Len(v) \in Nat /\ (v = <<>> <=> Len(v) = 0)  BY EmptySeq, LenProperties
    <2>. QED BY <2>1
  <1>2. PICK x : x = Append(v, ch)
    OBVIOUS
  <1>3. /\ x \in Seq(Byte) /\ x # <<>> /\ Len(x) = n + 1 /\ x[n + 1] = ch
        /\ \A i \in 1..n : x[i] = v[i]
    BY <1>1, <1>2, AppendProperties
  <1>4. x[1] = v[1] /\ \A i \in 2..n : x[i] = v[i]
    BY <1>1, <1>3
  <1>5. \A i \in 2..(n + 1) : i \in 2..n \/ i = n + 1
    BY <1>1
  <1>6. <<Space>> \in Seq(Byte) /\ Append(<<>>, Space) = <<Space>>
    <2>1. Append(<<>>, Space) = <<Space>> /\ <<>> \in Seq(Byte)  BY EmptySeq
    <2>. QED BY <2>1, SpaceByte, AppendProperties
  <1>7. ASSUME Muffled(v)  PROVE TakenFor(TRUE, v) = <<Space>>
    <2>1. CASE n = 1
      <3>1. Len(<<Space>>) = 1 /\ <<Space>>[1] = Space /\ v[1] = Space  BY <1>7 DEF Muffled
      <3>2. \A i \in 1..1 : v[i] = <<Space>>[i]  BY <3>1
      <3>3. v = <<Space>>  BY <1>1, <1>6, <2>1, <3>1, <3>2, SeqEqual
      <3>4. ~ Len(v) > 1  BY <1>1, <2>1
      <3>. QED BY <3>3, <3>4 DEF TakenFor
    <2>2. CASE n > 1
      <3>1. 2 \in 2..n /\ Len(v) > 1  BY <1>1, <2>2
      <3>2. v[2] # Space /\ v[1] = Space  BY <1>1, <1>7, <3>1 DEF Muffled
      <3>3. U!WithoutFirstPiece(v) = <<Space>>  BY <1>7, WithoutFirst DEF Muffled
      <3>. QED BY <3>1, <3>2, <3>3 DEF TakenFor
    <2>3. n = 1 \/ n > 1  BY <1>1
    <2>. QED BY <2>1, <2>2, <2>3
  <1>8. ASSUME Muffled(v), ch # Space  PROVE Muffled(x)
    <2>1. v[1] = Space /\ \A i \in 2..n : v[i] # Space  BY <1>1, <1>8 DEF Muffled
    <2>2. \A i \in 2..(n + 1) : x[i] # Space  BY <1>3, <1>4, <1>5, <1>8, <2>1
    <2>. QED BY <1>3, <1>4, <2>1, <2>2 DEF Muffled
  <1>9. ASSUME Muffled(v), ch = Space
        PROVE  ~ Muffled(x) /\ TakenFor(TRUE, x) = Append(<<Space>>, Space)
    <2>1. v[1] = Space /\ \A i \in 2..n : v[i] # Space  BY <1>1, <1>9 DEF Muffled
    <2>2. n + 1 \in 2..(n + 1) /\ x[n + 1] = Space  BY <1>1, <1>3, <1>9
    <2>3. ~ Muffled(x)  BY <1>3, <2>2 DEF Muffled
    <2>4. CASE n = 1
      <3>1. Len(<<Space>>) = 1 /\ <<Space>>[1] = Space  OBVIOUS
      <3>2. \A i \in 1..1 : v[i] = <<Space>>[i]  BY <2>1, <3>1
      <3>3. v = <<Space>>  BY <1>1, <1>6, <2>4, <3>1, <3>2, SeqEqual
      <3>4. x[2] = Space  BY <2>2, <2>4
      <3>. QED BY <1>2, <1>9, <2>3, <3>3, <3>4 DEF TakenFor
    <2>5. CASE n > 1
      <3>1. 2 \in 2..n /\ Len(x) > 1  BY <1>1, <1>3, <2>5
      <3>2. x[2] # Space /\ x[1] = Space  BY <1>4, <2>1, <3>1
      <3>3. \A i \in 2..((n + 1) - 1) : x[i] # Space  BY <1>1, <1>4, <2>1
      <3>4. U!WithoutFirstPiece(x) = <<Space>> \o After(x, (n + 1) - 1)
        BY <1>3, <2>2, <3>3, WithoutFirst
      <3>5. After(x, n) = <<Space>> /\ (n + 1) - 1 = n
        <4>1. n \in 0..Len(v) /\ (n + 1) - 1 = n  BY <1>1
        <4>2. After(v, n) = <<>>  BY <1>1, <4>1, AfterFacts
        <4>3. After(x, n) = Append(After(v, n), ch)  BY <1>2, <4>1, AfterAppend
        <4>. QED BY <1>6, <1>9, <4>1, <4>2, <4>3
      <3>6. <<Space>> \o <<Space>> = Append(<<Space>>, Space)  BY <1>6, SpaceByte, AppendIsConcat
      <3>. QED BY <2>3, <3>1, <3>2, <3>4, <3>5, <3>6 DEF TakenFor
    <2>6. n = 1 \/ n > 1  BY <1>1
    <2>. QED BY <2>4, <2>5, <2>6
  <1>10. ASSUME ~ Muffled(v)
         PROVE  ~ Muffled(x) /\ TakenFor(TRUE, x) = Append(TakenFor(TRUE, v), ch)
    <2>1. v[1] # Space \/ \E i \in 2..n : v[i] = Space  BY <1>1, <1>10 DEF Muffled
    <2>2. ~ Muffled(x)
      <3>1. CASE v[1] # Space
        BY <1>4, <3>1 DEF Muffled
      <3>2. CASE \E i \in 2..n : v[i] = Space
        <4>1. PICK i \in 2..n : v[i] = Space  BY <3>2
        <4>2. i \in 2..(n + 1) /\ x[i] = Space  BY <1>1, <1>4, <4>1
        <4>. QED BY <1>3, <4>2 DEF Muffled
      <3>. QED BY <2>1, <3>1, <3>2
    <2>3. CASE v[1] # Space
      BY <1>2, <1>4, <2>2, <2>3 DEF TakenFor
    <2>4. CASE v[1] = Space
      <3>1. PICK k \in 2..n : v[k] = Space  BY <2>1, <2>4
      <3>2. n > 1 /\ n + 1 > 1 /\ 2 \in 2..n  BY <1>1
      <3>3. CASE v[2] = Space
        <4>1. x[2] = Space  BY <1>4, <3>2, <3>3
        <4>. QED BY <1>2, <2>2, <3>3, <4>1 DEF TakenFor
      <3>4. CASE v[2] # Space
        <4>1. PICK j \in 2..n : v[j] = Space /\ \A i \in 2..(j - 1) : v[i] # Space
          <5>. DEFINE I == { i \in Nat : i \in 2..n /\ v[i] = Space }
          <5>1. I # {} /\ I \in SUBSET Nat  BY <1>1, <3>1
          <5>2. PICK j \in I : \A i \in I : j <= i
            <6>. HIDE DEF I
            <6>. QED BY <5>1, LeastNumber
          <5>3. ASSUME NEW i \in 2..(j - 1), v[i] = Space  PROVE FALSE
            <6>1. i \in I /\ ~ j <= i  BY <1>1, <5>2, <5>3
            <6>. QED BY <5>2, <6>1
          <5>. QED BY <5>2, <5>3
        <4>2. U!WithoutFirstPiece(v) = <<Space>> \o After(v, j - 1)
          BY <1>1, <4>1, WithoutFirst
        <4>3. j \in 2..(n + 1) /\ x[j] = Space /\ \A i \in 2..(j - 1) : x[i] # Space
          <5>1. j \in 2..(n + 1) /\ \A i \in 2..(j - 1) : i \in 2..n  BY <1>1, <4>1
          <5>. QED BY <1>4, <4>1, <5>1
        <4>4. U!WithoutFirstPiece(x) = <<Space>> \o After(x, j - 1)
          BY <1>3, <4>3, WithoutFirst
        <4>5. j - 1 \in 0..Len(v)  BY <1>1, <4>1
        <4>6. PICK s \in Seq(Byte) : s = After(v, j - 1)
          BY <4>5, AfterFacts
        <4>7. After(x, j - 1) = Append(s, ch)
          BY <1>2, <4>5, <4>6, AfterAppend
        <4>8. <<Space>> \o Append(s, ch) = Append(<<Space>> \o s, ch)
          BY <1>6, <4>6, GrowsAtEnd
        <4>9. v[1] = Space /\ x[1] = Space /\ x[2] # Space /\ Len(v) > 1 /\ Len(x) > 1
          BY <1>1, <1>3, <1>4, <2>4, <3>2, <3>4
        <4>. QED BY <2>2, <3>4, <4>2, <4>4, <4>6, <4>7, <4>8, <4>9 DEF TakenFor
      <3>. QED BY <3>3, <3>4
    <2>. QED BY <2>3, <2>4
  <1>. QED BY <1>2, <1>7, <1>8, <1>9, <1>10

------------------------------------------------------------------------------
(***************************************************************************)
(* sfrobu has read v, of which its words are those of Stood(v).  As long   *)
(* as v is muffled, the end of the first word has not been noticed.        *)
(***************************************************************************)
LostNo   == IF U!FirstIsLost THEN 1 ELSE 0
Stood(v) == TakenFor(maxBuffSize > 0, After(v, LostNo))
Headed   == text # <<>> /\ text[1] = Space

SfrobuReads(v) ==
  /\ v \in Seq(Byte) /\ buffer \in Seq(Byte) /\ rest \in Seq(Byte)
  /\ text = v \o (buffer \o rest)
  /\ maxBuffSize > 0 \/ U!FirstIsLost => v # <<>>
  /\ ReadSo(Stood(v), wordList, myWord)
  /\ IF maxBuffSize > 0 /\ Muffled(v) THEN ~ endOfWord /\ HasSpace(myWord)
                                      ELSE endOfWord <=> HasSpace(myWord)
  /\ ~ Headed => FitSo(Stood(v), wordList, myWord, prevNumChars)

(* The file has not changed yet where that matters, or it has.              *)
Early == \E e \in Range(changes) : e[2] \in {"fill", "first"}

(* Nothing has been read into a word yet.                                   *)
Fresh ==
  /\ buffer \in Seq(Byte) /\ rest \in Seq(Byte) /\ text = buffer \o rest
  /\ myWord = <<>> /\ wordList = <<>> /\ endOfWord = FALSE /\ prevNumChars = -1 /\ printed = <<>>

Apt == ~ Contains(text, Nul) /\ ~ Headed /\ ~ MayLackItsSpace(U!Taken)

(***************************************************************************)
(* What is so while the file has not been truncated                        *)
(***************************************************************************)
SfrobuKept ==
  /\ maxBuffSize \in Nat /\ (Early => text # <<>>)
  /\ pc \in {"start", "stat", "fill", "first"} => Fresh
  /\ pc \in {"start", "stat"} => changes = <<>> /\ buffer = <<>> /\ maxBuffSize = 0
  /\ pc = "fill" => mode = "regular" /\ buffer = <<>> /\ maxBuffSize <= Len(rest)
  /\ pc = "first" => Len(buffer) = maxBuffSize
  /\ pc \in {"fill", "first"} /\ maxBuffSize = 0 /\ text # <<>> => U!FirstIsLost
  /\ pc \in {"read", "skip"} => printed = <<>> /\ \E v : SfrobuReads(v)
  /\ pc = "skip" => endOfWord
  /\ pc = "sort" => printed = <<>> /\ SortsSo(U!Taken, Apt, wordList)
  /\ pc \in {"print", "done"} => SortsSo(U!Taken, Apt, wordList) /\ PrintedSo(wordList, printed)
  /\ pc = "done" => Len(printed) = Len(wordList)
  /\ pc = "overrun" => ~ Apt

(***************************************************************************)
(* The inductive invariant of sfrobu                                       *)
(***************************************************************************)
SfrobuInv ==
  /\ changes \in Seq({"shrunk", "grown"} \X {"fill", "first", "read", "skip"})
  /\ ~ U!Shrunk => SfrobuKept

(* While the file does not change, none of this does.                       *)
LEMMA SameFile ==
  ASSUME mode' = mode, text' = text, changes' = changes
  PROVE  /\ U!Shrunk' <=> U!Shrunk
         /\ (Early' <=> Early) /\ (Headed' <=> Headed)
         /\ maxBuffSize' = maxBuffSize =>
              /\ U!FirstIsLost' <=> U!FirstIsLost
              /\ U!Taken' = U!Taken /\ LostNo' = LostNo /\ (Apt' <=> Apt)
              /\ \A v : Stood(v)' = Stood(v)
  <1>1. U!Shrunk' <=> U!Shrunk
    BY DEF U!Shrunk
  <1>2. (Early' <=> Early) /\ (Headed' <=> Headed)
    BY DEF Early, Headed
  <1>3. ASSUME maxBuffSize' = maxBuffSize
        PROVE  /\ U!FirstIsLost' <=> U!FirstIsLost
               /\ U!Taken' = U!Taken /\ LostNo' = LostNo /\ (Apt' <=> Apt)
               /\ \A v : Stood(v)' = Stood(v)
    <2>1. U!FirstIsLost' <=> U!FirstIsLost
      BY <1>3 DEF U!FirstIsLost
    <2>2. U!Taken' = U!Taken
      BY <1>3, <2>1 DEF U!Taken
    <2>3. LostNo' = LostNo
      BY <2>1 DEF LostNo
    <2>4. Apt' <=> Apt
      BY <1>2, <2>2 DEF Apt
    <2>5. \A v : Stood(v)' = Stood(v)
      BY <1>3, <2>3 DEF Stood
    <2>. QED BY <2>1, <2>2, <2>3, <2>4, <2>5
  <1>. QED BY <1>1, <1>2, <1>3

(* It holds at the start,                                                   *)
LEMMA SfrobuStarts == U!Init => SfrobuInv
  <1>. SUFFICES ASSUME U!Init  PROVE SfrobuInv
    OBVIOUS
  <1>1. /\ pc = "start" /\ original \in SfrobuTexts /\ text = original /\ changes = <<>>
        /\ rest = text /\ maxBuffSize = 0 /\ buffer = <<>> /\ myWord = <<>> /\ wordList = <<>>
        /\ endOfWord = FALSE /\ prevNumChars = -1 /\ printed = <<>>
    BY DEF U!Init
  <1>2. text \in Seq(Byte)
    BY <1>1, BytesAssumption
  <1>3. changes \in Seq({"shrunk", "grown"} \X {"fill", "first", "read", "skip"})
    BY <1>1, EmptySeq
  <1>4. buffer \in Seq(Byte) /\ <<>> \o text = text
    BY <1>1, <1>2, EmptySeq, ConcatEmptySeq
  <1>5. Fresh
    BY <1>1, <1>2, <1>4 DEF Fresh
  <1>6. ~ Early
    BY <1>1 DEF Early, Range
  <1>7. SfrobuKept
    BY <1>1, <1>5, <1>6 DEF SfrobuKept
  <1>. QED BY <1>3, <1>7 DEF SfrobuInv

(* as long as nothing moves,                                                *)
LEMMA SfrobuStays ==
  ASSUME UNCHANGED <<pc, rest, sortvars, filevars>>, SfrobuInv
  PROVE  SfrobuInv'
  <1>1. /\ pc' = pc /\ rest' = rest /\ text' = text /\ myWord' = myWord /\ wordList' = wordList
        /\ endOfWord' = endOfWord /\ prevNumChars' = prevNumChars /\ printed' = printed
        /\ mode' = mode /\ changes' = changes /\ maxBuffSize' = maxBuffSize /\ buffer' = buffer
    BY DEF sortvars, filevars
  <1>2. /\ U!Shrunk' <=> U!Shrunk
        /\ (Early' <=> Early) /\ (Headed' <=> Headed)
        /\ U!FirstIsLost' <=> U!FirstIsLost
        /\ U!Taken' = U!Taken /\ (Apt' <=> Apt) /\ \A v : Stood(v)' = Stood(v)
    BY <1>1, SameFile
  <1>3. ASSUME NEW v, SfrobuReads(v)  PROVE SfrobuReads(v)'
    <2>1. Stood(v)' = Stood(v)  BY <1>2
    <2>. QED BY <1>1, <1>2, <1>3, <2>1 DEF SfrobuReads
  <1>4. Fresh => Fresh'
    BY <1>1 DEF Fresh
  <1>5. (\E v : SfrobuReads(v)) => \E v : SfrobuReads(v)'
    BY <1>3
  <1>6. SfrobuKept => SfrobuKept'
    BY <1>1, <1>2, <1>4, <1>5 DEF SfrobuKept, SortsSo
  <1>. QED BY <1>1, <1>2, <1>6 DEF SfrobuInv

(* while the file is opened,                                                *)
LEMMA SfrobuOpens ==
  ASSUME SfrobuInv, U!Start \/ U!Stat \/ U!Fill
  PROVE  SfrobuInv'
  <1>1. /\ pc \in {"start", "stat", "fill"}
        /\ mode' = mode /\ text' = text /\ changes' = changes /\ myWord' = myWord
        /\ wordList' = wordList /\ endOfWord' = endOfWord /\ prevNumChars' = prevNumChars
        /\ printed' = printed
    BY DEF U!Start, U!Stat, U!Fill, U!file
  <1>2. /\ U!Shrunk' <=> U!Shrunk
        /\ Early' <=> Early
        /\ maxBuffSize' = maxBuffSize => (U!FirstIsLost' <=> U!FirstIsLost)
    <2>1. (U!Shrunk' <=> U!Shrunk) /\ (Early' <=> Early)
      BY <1>1, SameFile
    <2>2. ASSUME maxBuffSize' = maxBuffSize  PROVE U!FirstIsLost' <=> U!FirstIsLost
      BY <1>1, <2>2, SameFile
    <2>. QED BY <2>1, <2>2
  <1>3. changes' \in Seq({"shrunk", "grown"} \X {"fill", "first", "read", "skip"})
    BY <1>1 DEF SfrobuInv
  <1>. SUFFICES ASSUME ~ U!Shrunk  PROVE SfrobuKept'
    BY <1>2, <1>3 DEF SfrobuInv
  <1>4. SfrobuKept
    BY DEF SfrobuInv
  <1>5. /\ maxBuffSize \in Nat /\ (Early => text # <<>>)
        /\ buffer \in Seq(Byte) /\ rest \in Seq(Byte) /\ text = buffer \o rest
        /\ myWord = <<>> /\ wordList = <<>> /\ endOfWord = FALSE /\ prevNumChars = -1 /\ printed = <<>>
        /\ buffer = <<>>
    BY <1>1, <1>4 DEF SfrobuKept, Fresh
  <1>6. text = rest
    BY <1>5, ConcatEmptySeq
  <1>7. CASE U!Start
    <2>1. pc = "start" /\ pc' = "stat" /\ rest' = rest /\ maxBuffSize' = maxBuffSize /\ buffer' = buffer
      BY <1>7 DEF U!Start
    <2>2. Fresh'
      BY <1>1, <1>5, <2>1 DEF Fresh
    <2>3. changes = <<>> /\ maxBuffSize = 0
      BY <1>4, <2>1 DEF SfrobuKept
    <2>. QED BY <1>1, <1>2, <1>5, <2>1, <2>2, <2>3 DEF SfrobuKept
  <1>8. CASE U!Stat
    <2>1. /\ pc = "stat" /\ rest' = rest /\ buffer' = buffer
          /\ maxBuffSize' = IF mode = "regular" THEN Len(rest) ELSE 0
          /\ pc' = IF mode = "regular" THEN "fill" ELSE "first"
      BY <1>8 DEF U!Stat, U!st_size
    <2>2. Fresh'
      BY <1>1, <1>5, <2>1 DEF Fresh
    <2>3. Len(rest) \in Nat /\ Len(<<>>) = 0 /\ (rest = <<>> <=> Len(rest) = 0)
      BY <1>5, EmptySeq, LenProperties
    <2>4. CASE mode = "regular"
      <3>1. pc' = "fill" /\ maxBuffSize' = Len(rest')  BY <2>1, <2>4
      <3>2. maxBuffSize' = 0 => text' = <<>>  BY <1>1, <1>6, <2>1, <2>3, <3>1
      <3>. QED BY <1>1, <1>2, <1>5, <2>1, <2>2, <2>3, <2>4, <3>1, <3>2 DEF SfrobuKept
    <2>5. CASE mode # "regular"
      <3>1. pc' = "first" /\ maxBuffSize' = 0  BY <2>1, <2>5
      <3>2. text' # <<>> => U!FirstIsLost'  BY <1>1, <2>5, <3>1 DEF U!FirstIsLost
      <3>. QED BY <1>1, <1>2, <1>5, <2>1, <2>2, <2>3, <3>1, <3>2 DEF SfrobuKept
    <2>. QED BY <2>4, <2>5
  <1>9. CASE U!Fill
    <2>1. pc = "fill" /\ pc' = "first" /\ maxBuffSize' = maxBuffSize
      BY <1>9 DEF U!Fill
    <2>2. maxBuffSize <= Len(rest) /\ (maxBuffSize = 0 /\ text # <<>> => U!FirstIsLost)
      BY <1>4, <2>1 DEF SfrobuKept
    <2>3. Len(rest) \in Nat
      BY <1>5, LenProperties
    <2>4. U!Min({maxBuffSize, Len(rest)}) = maxBuffSize
      <3>1. \A x \in {maxBuffSize, Len(rest)} :
              (\A y \in {maxBuffSize, Len(rest)} : x <= y) => x = maxBuffSize
        BY <1>5, <2>2, <2>3
      <3>2. \A y \in {maxBuffSize, Len(rest)} : maxBuffSize <= y
        BY <1>5, <2>2, <2>3
      <3>. QED BY <3>1, <3>2 DEF U!Min
    <2>5. PICK unread \in [1..(maxBuffSize - maxBuffSize) -> Heap] :
            /\ buffer' = SubSeq(rest, 1, maxBuffSize) \o unread
            /\ rest' = SubSeq(rest, maxBuffSize + 1, Len(rest))
      BY <1>9, <2>4 DEF U!Fill
    <2>6. unread = <<>>
      <3>1. maxBuffSize - maxBuffSize = 0  BY <1>5
      <3>2. unread \in [1..0 -> Heap]  BY <2>5, <3>1
      <3>3. unread \in Seq(Heap) /\ Len(unread) = 0  BY <3>2
      <3>. QED BY <3>3, EmptySeq
    <2>7. /\ SubSeq(rest, 1, maxBuffSize) \in Seq(Byte) /\ Len(SubSeq(rest, 1, maxBuffSize)) = maxBuffSize
          /\ SubSeq(rest, maxBuffSize + 1, Len(rest)) \in Seq(Byte)
          /\ SubSeq(rest, 1, maxBuffSize) \o SubSeq(rest, maxBuffSize + 1, Len(rest)) = rest
      <3>1. maxBuffSize \in 0..Len(rest)  BY <1>5, <2>2, <2>3
      <3>. QED BY <1>5, <3>1, SplitsAt
    <2>8. buffer' = SubSeq(rest, 1, maxBuffSize)
      BY <2>5, <2>6, <2>7, ConcatEmptySeq
    <2>9. Fresh' /\ Len(buffer') = maxBuffSize
      BY <1>1, <1>5, <1>6, <2>5, <2>7, <2>8 DEF Fresh
    <2>. QED BY <1>1, <1>2, <1>5, <2>1, <2>2, <2>9 DEF SfrobuKept
  <1>. QED BY <1>7, <1>8, <1>9

(* at the first character,                                                  *)
LEMMA SfrobuFirst ==
  ASSUME SfrobuInv, U!FirstOfBuffer \/ U!FirstOverPointer
  PROVE  SfrobuInv'
  <1>1. /\ pc = "first" /\ mode' = mode /\ text' = text /\ changes' = changes
        /\ maxBuffSize' = maxBuffSize /\ wordList' = wordList /\ endOfWord' = endOfWord
        /\ prevNumChars' = prevNumChars /\ printed' = printed
    BY DEF U!FirstOfBuffer, U!FirstOverPointer, U!file
  <1>2. /\ U!Shrunk' <=> U!Shrunk
        /\ (Early' <=> Early) /\ (Headed' <=> Headed)
        /\ U!FirstIsLost' <=> U!FirstIsLost
        /\ \A v : Stood(v)' = Stood(v)
    BY <1>1, SameFile
  <1>3. changes' \in Seq({"shrunk", "grown"} \X {"fill", "first", "read", "skip"})
    BY <1>1 DEF SfrobuInv
  <1>. SUFFICES ASSUME ~ U!Shrunk  PROVE SfrobuKept'
    BY <1>2, <1>3 DEF SfrobuInv
  <1>4. SfrobuKept
    BY DEF SfrobuInv
  <1>5. /\ maxBuffSize \in Nat /\ (Early => text # <<>>)
        /\ buffer \in Seq(Byte) /\ rest \in Seq(Byte) /\ text = buffer \o rest
        /\ myWord = <<>> /\ wordList = <<>> /\ endOfWord = FALSE /\ prevNumChars = -1 /\ printed = <<>>
        /\ Len(buffer) = maxBuffSize
        /\ maxBuffSize = 0 /\ text # <<>> => U!FirstIsLost
    BY <1>1, <1>4 DEF SfrobuKept, Fresh
  <1>6. /\ <<>> \in Seq(Byte) /\ Len(<<>>) = 0 /\ (buffer = <<>> <=> Len(buffer) = 0)
        /\ ~ HasSpace(<<>>) /\ After(<<>>, 0) = <<>>
    <2>1. <<>> \in Seq(Byte) /\ Len(<<>>) = 0 /\ (buffer = <<>> <=> Len(buffer) = 0)
      BY <1>5, EmptySeq
    <2>2. 0 \in 0..Len(<<>>) /\ \A i \in 1..0 : FALSE
      BY <2>1
    <2>. QED BY <2>1, <2>2, AfterFacts DEF HasSpace, Contains
  <1>7. text = <<>> \o (buffer \o rest)
    <2>1. text \in Seq(Byte)  BY <1>5, ConcatProperties
    <2>. QED BY <1>5, <2>1, ConcatEmptySeq
  <1>8. ASSUME pc' = "read", NEW x, SfrobuReads(x)'  PROVE SfrobuKept'
    BY <1>1, <1>2, <1>5, <1>8 DEF SfrobuKept
  <1>9. CASE U!FirstOfBuffer
    <2>1. /\ buffer # <<>> /\ pc' = "read" /\ rest' = rest /\ buffer' = Tail(buffer)
          /\ myWord' = <<Head(buffer)>>
      BY <1>9 DEF U!FirstOfBuffer
    <2>2. PICK ch : ch = Head(buffer)
      OBVIOUS
    <2>3. PICK x : x = Append(<<>>, ch)
      OBVIOUS
    <2>4. ch \in Byte /\ buffer' \in Seq(Byte) /\ x \in Seq(Byte) /\ text' = x \o (buffer' \o rest')
      <3>1. /\ Head(buffer) \in Byte /\ Tail(buffer) \in Seq(Byte) /\ Append(<<>>, Head(buffer)) \in Seq(Byte)
            /\ Append(<<>>, Head(buffer)) \o (Tail(buffer) \o rest) = <<>> \o (buffer \o rest)
        BY <1>5, <1>6, <2>1, FurtherInBuffer
      <3>. QED BY <1>1, <1>5, <1>6, <1>7, <2>1, <2>2, <2>3, <3>1
    <2>5. x = <<ch>> /\ x # <<>> /\ Len(x) = 1 /\ x[1] = ch
      BY <1>6, <2>3, <2>4, AppendProperties
    <2>6. maxBuffSize > 0 /\ ~ U!FirstIsLost
      <3>1. maxBuffSize # 0  BY <1>5, <1>6, <2>1
      <3>. QED BY <1>5, <3>1 DEF U!FirstIsLost
    <2>7. Stood(x) = x
      <3>1. LostNo = 0 /\ 0 \in 0..Len(x)  BY <2>5, <2>6 DEF LostNo
      <3>2. After(x, LostNo) = x  BY <2>4, <3>1, AfterFacts
      <3>. QED BY <2>5, <3>2 DEF Stood, TakenFor
    <2>8. ReadSo(x, <<>>, x) /\ FitSo(x, <<>>, x, -1)
      BY <1>6, <2>3, <2>4, ReadsNothing, FitAtFirst, ReadsChar, FitFollows
    <2>9. HasSpace(x) <=> ch = Space
      BY <1>6, <2>3, <2>4, SpaceOfFull
    <2>10. Muffled(x) <=> ch = Space
      <3>1. \A i \in 2..1 : FALSE  OBVIOUS
      <3>. QED BY <2>5, <3>1 DEF Muffled
    <2>11. SfrobuReads(x)'
      BY <1>1, <1>2, <1>5, <2>1, <2>2, <2>4, <2>5, <2>6, <2>7, <2>8, <2>9, <2>10 DEF SfrobuReads
    <2>. QED BY <1>8, <2>1, <2>11
  <1>10. CASE U!FirstOverPointer
    <2>1. /\ buffer = <<>> /\ buffer' = buffer /\ myWord' = myWord
          /\ IF rest = <<>> THEN pc' = "read" /\ rest' = rest
                            ELSE pc' \in {"read", "crash"} /\ rest' = Tail(rest)
      BY <1>10 DEF U!FirstOverPointer
    <2>2. maxBuffSize = 0
      BY <1>5, <1>6, <2>1
    <2>3. CASE rest = <<>>
      <3>1. text = <<>>
        BY <1>5, <1>6, <2>1, <2>3, ConcatEmptySeq
      <3>2. ~ U!FirstIsLost /\ LostNo = 0
        BY <3>1 DEF U!FirstIsLost, LostNo
      <3>3. Stood(<<>>) = <<>>
        BY <1>6, <2>2, <3>2 DEF Stood, TakenFor
      <3>4. SfrobuReads(<<>>)'
        BY <1>1, <1>2, <1>5, <1>6, <1>7, <2>1, <2>2, <2>3, <3>2, <3>3, ReadsNothing, FitAtFirst
           DEF SfrobuReads
      <3>. QED BY <1>8, <2>1, <2>3, <3>4
    <2>4. CASE rest # <<>>
      <3>1. PICK x : x = Append(<<>>, Head(rest))
        OBVIOUS
      <3>2. Head(rest) \in Byte /\ rest' \in Seq(Byte) /\ x \in Seq(Byte) /\ text' = x \o (buffer' \o rest')
        <4>1. /\ Head(rest) \in Byte /\ Tail(rest) \in Seq(Byte) /\ Append(<<>>, Head(rest)) \in Seq(Byte)
              /\ Append(<<>>, Head(rest)) \o (buffer \o Tail(rest)) = <<>> \o (buffer \o rest)
          BY <1>5, <1>6, <2>1, <2>4, FurtherInBuffer
        <4>. QED BY <1>1, <1>5, <1>6, <1>7, <2>1, <2>4, <3>1, <4>1
      <3>3. x # <<>> /\ Len(x) = 1
        BY <1>6, <3>1, <3>2, AppendProperties
      <3>4. text # <<>>
        <4>1. text \in Seq(Byte)  BY <1>5, ConcatProperties
        <4>2. text = rest  BY <1>5, <2>1, ConcatEmptySeq
        <4>. QED BY <2>4, <4>2
      <3>5. LostNo = 1
        BY <1>5, <2>2, <3>4 DEF LostNo
      <3>6. Stood(x) = <<>>
        <4>1. 1 \in 0..Len(x)  BY <3>3
        <4>2. After(x, 1) = <<>>  BY <3>2, <3>3, <4>1, AfterFacts
        <4>. QED BY <2>2, <3>5, <4>2 DEF Stood, TakenFor
      <3>7. SfrobuReads(x)'
        BY <1>1, <1>2, <1>5, <1>6, <2>1, <2>2, <3>2, <3>3, <3>6, ReadsNothing, FitAtFirst
           DEF SfrobuReads
      <3>8. CASE pc' = "read"
        BY <1>8, <3>7, <3>8
      <3>9. CASE pc' = "crash"
        BY <1>1, <1>2, <1>5, <3>9 DEF SfrobuKept
      <3>. QED BY <2>1, <2>4, <3>8, <3>9
    <2>. QED BY <2>3, <2>4
  <1>. QED BY <1>9, <1>10

------------------------------------------------------------------------------
(* A word that has its space can have more behind it.                       *)
LEMMA ReadsMuffled ==
  ASSUME NEW u, NEW list, NEW word, ReadSo(u, list, word), HasSpace(word), NEW ch \in Byte
  PROVE  ReadSo(u, list, Append(word, ch)) /\ HasSpace(Append(word, ch))
  <1>1. /\ u \in Seq(Byte) /\ word \in Seq(Byte) /\ list \in Seq(Seq(Byte))
        /\ \A i \in 1..Len(list) : HasSpace(list[i])
        /\ u # <<>> /\ u[Len(u)] = Space /\ Counted(Append(list, word), u)
    BY DEF ReadSo
  <1>2. PICK x : x = Append(word, ch)
    OBVIOUS
  <1>3. x \in Seq(Byte)
    BY <1>1, <1>2, AppendProperties
  <1>4. HasSpace(x) /\ Full(x) = Full(word)
    BY <1>1, <1>2, MoreOfFull
  <1>5. ASSUME NEW w  PROVE Times(Append(list, x), w) = Times(Append(list, word), w)
    <2>1. Times(Append(list, x), w) = Times(list, w) + (IF Full(x) = w THEN 1 ELSE 0)
      BY <1>1, <1>3, TimesAppend
    <2>2. Times(Append(list, word), w) = Times(list, w) + (IF Full(word) = w THEN 1 ELSE 0)
      BY <1>1, TimesAppend
    <2>. QED BY <1>4, <2>1, <2>2
  <1>6. Counted(Append(list, x), u)
    BY <1>1, <1>5 DEF Counted
  <1>. QED BY <1>1, <1>2, <1>3, <1>4, <1>6 DEF ReadSo

(* What is taken for v grows with it, unless v is muffled.                  *)
LEMMA StoodGrows ==
  ASSUME NEW buffered \in BOOLEAN, NEW k \in {0, 1}, buffered => k = 0,
         NEW v \in Seq(Byte), buffered \/ k = 1 => v # <<>>, NEW ch \in Byte
  PROVE  /\ ~ (buffered /\ Muffled(v)) =>
              /\ TakenFor(buffered, After(Append(v, ch), k)) = Append(TakenFor(buffered, After(v, k)), ch)
              /\ ~ (buffered /\ Muffled(Append(v, ch)))
         /\ buffered /\ Muffled(v) =>
              /\ TakenFor(buffered, After(v, k)) = <<Space>>
              /\ ch = Space => /\ TakenFor(buffered, After(Append(v, ch), k)) = Append(<<Space>>, Space)
                               /\ ~ Muffled(Append(v, ch))
              /\ ch # Space => /\ TakenFor(buffered, After(Append(v, ch), k)) = <<Space>>
                               /\ Muffled(Append(v, ch))
  <1>1. PICK n \in Nat : n = Len(v) /\ (v = <<>> <=> n = 0)
    BY EmptySeq, LenProperties
  <1>2. PICK x : x = Append(v, ch)
    OBVIOUS
  <1>3. x \in Seq(Byte) /\ x # <<>> /\ Len(x) = n + 1
    BY <1>1, <1>2, AppendProperties
  <1>4. CASE ~ buffered
    <2>1. k \in 0..Len(v)  BY <1>1
    <2>2. After(x, k) = Append(After(v, k), ch)  BY <1>2, <2>1, AfterAppend
    <2>. QED BY <1>2, <1>4, <2>2 DEF TakenFor
  <1>5. CASE buffered
    <2>1. 0 \in 0..Len(v) /\ 0 \in 0..Len(x)  BY <1>1, <1>3
    <2>2. After(v, k) = v /\ After(x, k) = x  BY <1>3, <1>5, <2>1, AfterFacts
    <2>3. buffered = TRUE /\ v # <<>>  BY <1>5
    <2>4. /\ Muffled(v) => TakenFor(TRUE, v) = <<Space>>
          /\ Muffled(v) /\ ch # Space => Muffled(x)
          /\ Muffled(v) /\ ch = Space => ~ Muffled(x) /\ TakenFor(TRUE, x) = Append(<<Space>>, Space)
          /\ ~ Muffled(v) => ~ Muffled(x) /\ TakenFor(TRUE, x) = Append(TakenFor(TRUE, v), ch)
      BY <1>2, <2>3, TakenGrows
    <2>5. Muffled(x) => TakenFor(TRUE, x) = <<Space>>
      BY <1>3, SpaceByte, TakenGrows
    <2>. QED BY <1>2, <2>2, <2>3, <2>4, <2>5
  <1>. QED BY <1>4, <1>5

(* A text starts as what has been read of it.                               *)
LEMMA StartsAsRead ==
  ASSUME NEW v \in Seq(Byte), NEW s \in Seq(Byte), v # <<>>
  PROVE  v \o s # <<>> /\ (v \o s)[1] = v[1]
  <1>1. PICK m \in Nat, n \in Nat : m = Len(v) /\ n = Len(s) /\ m > 0
    <2>1. Len(v) \in Nat /\ Len(s) \in Nat /\ (v = <<>> <=> Len(v) = 0)  BY EmptySeq, LenProperties
    <2>. QED BY <2>1
  <1>2. PICK all : all = v \o s
    OBVIOUS
  <1>3. /\ all \in Seq(Byte) /\ Len(all) = m + n
        /\ \A i \in 1..(m + n) : all[i] = IF i <= m THEN v[i] ELSE s[i - m]
    BY <1>1, <1>2, ConcatProperties
  <1>4. 1 \in 1..(m + n) /\ 1 <= m /\ m + n # 0
    BY <1>1
  <1>5. all # <<>>
    BY <1>3, <1>4, EmptySeq
  <1>. QED BY <1>2, <1>3, <1>4, <1>5

(* while characters are read,                                               *)
LEMMA SfrobuReadsOn ==
  ASSUME SfrobuInv, U!AddChar \/ U!SkipSpace \/ U!NewWord
  PROVE  SfrobuInv'
  <1>1. /\ pc \in {"read", "skip"} /\ pc' \in {"read", "skip"} /\ ~ U!AtEnd /\ U!Advance
        /\ mode' = mode /\ text' = text /\ changes' = changes
        /\ maxBuffSize' = maxBuffSize /\ printed' = printed
    BY DEF U!AddChar, U!SkipSpace, U!NewWord, U!file
  <1>2. /\ U!Shrunk' <=> U!Shrunk
        /\ (Early' <=> Early) /\ (Headed' <=> Headed)
        /\ U!FirstIsLost' <=> U!FirstIsLost
        /\ LostNo' = LostNo
        /\ \A v : Stood(v)' = Stood(v)
    BY <1>1, SameFile
  <1>3. changes' \in Seq({"shrunk", "grown"} \X {"fill", "first", "read", "skip"})
    BY <1>1 DEF SfrobuInv
  <1>. SUFFICES ASSUME ~ U!Shrunk  PROVE SfrobuKept'
    BY <1>2, <1>3 DEF SfrobuInv
  <1>4. SfrobuKept
    BY DEF SfrobuInv
  <1>5. PICK v : SfrobuReads(v)
    BY <1>1, <1>4 DEF SfrobuKept
  <1>6. /\ v \in Seq(Byte) /\ buffer \in Seq(Byte) /\ rest \in Seq(Byte)
        /\ text = v \o (buffer \o rest)
        /\ maxBuffSize > 0 \/ U!FirstIsLost => v # <<>>
        /\ maxBuffSize \in Nat /\ printed = <<>> /\ (pc = "skip" => endOfWord)
        /\ Early => text # <<>>
    BY <1>1, <1>4, <1>5 DEF SfrobuReads, SfrobuKept
  <1>7. PICK ch : ch = U!Char
    OBVIOUS
  <1>8. PICK x : x = Append(v, ch)
    OBVIOUS
  <1>9. /\ ch \in Byte /\ buffer' \in Seq(Byte) /\ rest' \in Seq(Byte)
        /\ x \in Seq(Byte) /\ text' = x \o (buffer' \o rest')
    <2>1. CASE buffer # <<>>
      <3>1. ch = Head(buffer) /\ buffer' = Tail(buffer) /\ rest' = rest
        BY <1>1, <1>7, <2>1 DEF U!Char, U!Advance
      <3>2. /\ Head(buffer) \in Byte /\ Tail(buffer) \in Seq(Byte) /\ Append(v, Head(buffer)) \in Seq(Byte)
            /\ Append(v, Head(buffer)) \o (Tail(buffer) \o rest) = v \o (buffer \o rest)
        BY <1>6, <2>1, FurtherInBuffer
      <3>. QED BY <1>1, <1>6, <1>8, <3>1, <3>2
    <2>2. CASE buffer = <<>>
      <3>1. rest # <<>> /\ ch = Head(rest) /\ buffer' = buffer /\ rest' = Tail(rest)
        BY <1>1, <1>7, <2>2 DEF U!Char, U!Advance, U!AtEnd
      <3>2. /\ Head(rest) \in Byte /\ Tail(rest) \in Seq(Byte) /\ Append(v, Head(rest)) \in Seq(Byte)
            /\ Append(v, Head(rest)) \o (buffer \o Tail(rest)) = v \o (buffer \o rest)
        BY <1>6, <2>2, <3>1, FurtherInBuffer
      <3>. QED BY <1>1, <1>6, <1>8, <3>1, <3>2
    <2>. QED BY <2>1, <2>2
  <1>10. x # <<>>
    BY <1>6, <1>8, <1>9, AppendProperties
  <1>11. PICK buffered \in BOOLEAN : buffered <=> maxBuffSize > 0
    OBVIOUS
  <1>12. PICK k \in {0, 1} : k = LostNo /\ (k = 1 <=> U!FirstIsLost)
    BY DEF LostNo
  <1>13. buffered => k = 0
    BY <1>6, <1>11, <1>12 DEF U!FirstIsLost
  <1>14. Stood(v) = TakenFor(buffered, After(v, k)) /\ Stood(x) = TakenFor(buffered, After(x, k))
    BY <1>11, <1>12 DEF Stood, TakenFor
  <1>15. buffered \/ k = 1 => v # <<>>
    BY <1>6, <1>11, <1>12
  <1>16. /\ ~ (buffered /\ Muffled(v)) =>
               /\ TakenFor(buffered, After(Append(v, ch), k)) = Append(TakenFor(buffered, After(v, k)), ch)
               /\ ~ (buffered /\ Muffled(Append(v, ch)))
         /\ buffered /\ Muffled(v) =>
               /\ TakenFor(buffered, After(v, k)) = <<Space>>
               /\ ch = Space => /\ TakenFor(buffered, After(Append(v, ch), k)) = Append(<<Space>>, Space)
                                /\ ~ Muffled(Append(v, ch))
               /\ ch # Space => /\ TakenFor(buffered, After(Append(v, ch), k)) = <<Space>>
                                /\ Muffled(Append(v, ch))
    BY <1>6, <1>9, <1>13, <1>15, StoodGrows
  <1>17. PICK u : u = Stood(v)
    OBVIOUS
  <1>18. ReadSo(u, wordList, myWord) /\ (~ Headed => FitSo(u, wordList, myWord, prevNumChars))
    BY <1>5, <1>17 DEF SfrobuReads
  <1>19. ASSUME ReadSo(Stood(x), wordList', myWord'),
                IF buffered /\ Muffled(x) THEN ~ endOfWord' /\ HasSpace(myWord')
                                          ELSE endOfWord' <=> HasSpace(myWord'),
                ~ Headed => FitSo(Stood(x), wordList', myWord', prevNumChars'),
                pc' = "skip" => endOfWord'
         PROVE  SfrobuKept'
    <2>1. Stood(x)' = Stood(x)
      BY <1>2
    <2>2. SfrobuReads(x)'
      BY <1>1, <1>2, <1>9, <1>10, <1>11, <1>19, <2>1 DEF SfrobuReads
    <2>. QED BY <1>1, <1>2, <1>6, <1>19, <2>2 DEF SfrobuKept
  <1>20. CASE buffered /\ Muffled(v)
    <2>1. ~ endOfWord /\ HasSpace(myWord)
      BY <1>5, <1>11, <1>20 DEF SfrobuReads
    <2>2. /\ myWord' = Append(myWord, ch) /\ (endOfWord' <=> ch = Space) /\ wordList' = wordList
          /\ pc' = pc /\ pc = "read"
      BY <1>6, <1>7, <2>1, WordsOfSfrobu DEF U!AddChar, U!SkipSpace, U!NewWord, EndsWord
    <2>3. Headed
      <3>1. v # <<>> /\ v[1] = Space  BY <1>20 DEF Muffled
      <3>2. buffer \o rest \in Seq(Byte)  BY <1>6, ConcatProperties
      <3>. QED BY <1>6, <3>1, <3>2, StartsAsRead DEF Headed
    <2>4. u = <<Space>> /\ ReadSo(u, wordList, myWord') /\ HasSpace(myWord')
      <3>1. u = <<Space>>  BY <1>14, <1>17, <1>20, <1>16
      <3>. QED BY <1>9, <1>18, <2>1, <2>2, <3>1, ReadsMuffled
    <2>5. CASE ch = Space
      <3>1. Stood(x) = Append(u, Space) /\ ~ Muffled(x)
        BY <1>8, <1>14, <1>20, <1>16, <2>4, <2>5
      <3>2. ReadSo(Append(u, Space), wordList', myWord')
        BY <2>2, <2>4, ReadsSpace
      <3>. QED BY <1>19, <2>2, <2>3, <2>4, <2>5, <3>1, <3>2
    <2>6. CASE ch # Space
      <3>1. Stood(x) = u /\ Muffled(x)
        BY <1>8, <1>14, <1>20, <1>16, <2>4, <2>6
      <3>. QED BY <1>19, <1>20, <2>2, <2>3, <2>4, <2>6, <3>1
    <2>. QED BY <2>5, <2>6
  <1>21. CASE ~ (buffered /\ Muffled(v))
    <2>1. endOfWord <=> HasSpace(myWord)
      BY <1>5, <1>11, <1>21 DEF SfrobuReads
    <2>2. Stood(x) = Append(u, ch) /\ ~ (buffered /\ Muffled(x))
      BY <1>8, <1>14, <1>17, <1>21, <1>16
    <2>3. CASE U!AddChar
      <3>1. /\ ~ HasSpace(myWord) /\ myWord' = Append(myWord, ch) /\ (endOfWord' <=> ch = Space)
            /\ wordList' = wordList /\ prevNumChars' = prevNumChars /\ pc' = "read"
        BY <1>7, <2>1, <2>3, WordsOfSfrobu DEF U!AddChar, EndsWord
      <3>2. ReadSo(Append(u, ch), wordList', myWord')
        BY <1>9, <1>18, <3>1, ReadsChar
      <3>3. ~ Headed => FitSo(Append(u, ch), wordList', myWord', prevNumChars')
        BY <1>9, <1>18, <3>1, FitFollows
      <3>4. HasSpace(Append(myWord, ch)) <=> ch = Space
        <4>1. myWord \in Seq(Byte)  BY <1>18 DEF ReadSo
        <4>. QED BY <1>9, <3>1, <4>1, SpaceOfFull
      <3>. QED BY <1>19, <2>2, <3>1, <3>2, <3>3, <3>4
    <2>4. CASE U!SkipSpace
      <3>1. /\ HasSpace(myWord) /\ myWord' = myWord /\ endOfWord' = endOfWord /\ ch = Space
            /\ wordList' = wordList /\ prevNumChars' = prevNumChars
        BY <1>6, <1>7, <2>1, <2>4, WordsOfSfrobu DEF U!SkipSpace
      <3>2. ReadSo(Append(u, ch), wordList', myWord')
        BY <1>18, <3>1, ReadsSpace
      <3>3. ~ Headed => FitSo(Append(u, ch), wordList', myWord', prevNumChars')
        BY <1>18, <3>1, FitFollows
      <3>. QED BY <1>19, <2>1, <2>2, <3>1, <3>2, <3>3
    <2>5. CASE U!NewWord
      <3>1. /\ HasSpace(myWord) /\ myWord' = <<ch>> /\ endOfWord' = FALSE /\ ch # Space
            /\ wordList' = Append(wordList, myWord) /\ prevNumChars' = Len(myWord) /\ pc' = "read"
        BY <1>6, <1>7, <2>1, <2>5, WordsOfSfrobu DEF U!NewWord
      <3>2. ReadSo(Append(u, ch), wordList', myWord')
        BY <1>9, <1>18, <3>1, ReadsWord
      <3>3. ~ Headed => FitSo(Append(u, ch), wordList', myWord', prevNumChars')
        BY <1>9, <1>18, <3>1, FitFollows
      <3>4. ~ HasSpace(<<ch>>)
        BY <3>1 DEF HasSpace, Contains
      <3>. QED BY <1>19, <2>2, <3>1, <3>2, <3>3, <3>4
    <2>. QED BY <2>3, <2>4, <2>5
  <1>. QED BY <1>20, <1>21

(* at the end of the text,                                                  *)
LEMMA SfrobuStopsReading ==
  ASSUME SfrobuInv, U!EndOfFile
  PROVE  SfrobuInv'
  <1>1. /\ pc = "read" /\ pc' = "sort" /\ buffer = <<>> /\ rest = <<>>
        /\ mode' = mode /\ text' = text /\ changes' = changes
        /\ maxBuffSize' = maxBuffSize /\ printed' = printed
    BY DEF U!EndOfFile, U!AtEnd, U!file
  <1>2. /\ U!Shrunk' <=> U!Shrunk
        /\ Early' <=> Early
        /\ U!Taken' = U!Taken
        /\ Apt' <=> Apt
    <2>1. (U!Shrunk' <=> U!Shrunk) /\ (Early' <=> Early) /\ U!Taken' = U!Taken /\ (Apt' <=> Apt)
      BY <1>1, SameFile
    <2>. QED BY <2>1
  <1>3. changes' \in Seq({"shrunk", "grown"} \X {"fill", "first", "read", "skip"})
    BY <1>1 DEF SfrobuInv
  <1>. SUFFICES ASSUME ~ U!Shrunk  PROVE SfrobuKept'
    BY <1>2, <1>3 DEF SfrobuInv
  <1>4. SfrobuKept
    BY DEF SfrobuInv
  <1>5. PICK v : SfrobuReads(v)
    BY <1>1, <1>4 DEF SfrobuKept
  <1>6. /\ v \in Seq(Byte) /\ text = v \o (<<>> \o <<>>)
        /\ maxBuffSize > 0 \/ U!FirstIsLost => v # <<>>
        /\ maxBuffSize \in Nat /\ printed = <<>>
        /\ Early => text # <<>>
    BY <1>1, <1>4, <1>5 DEF SfrobuReads, SfrobuKept
  <1>7. v = text /\ text \in Seq(Byte)
    <2>1. <<>> \o <<>> = <<>>
      <3>1. <<>> \in Seq(Byte)  BY EmptySeq
      <3>. QED BY <3>1, ConcatEmptySeq
    <2>. QED BY <1>6, <2>1, ConcatEmptySeq
  <1>8. PICK stale \in BOOLEAN : wordList' = Append(wordList, LastWord(myWord, prevNumChars, stale))
    BY WordsOfSfrobu DEF U!EndOfFile
  <1>9. PICK n \in Nat : n = Len(text) /\ (text = <<>> <=> n = 0)
    BY <1>7, EmptySeq, LenProperties
  <1>10. U!Taken = Stood(text)
    <2>1. CASE U!FirstIsLost
      <3>1. n > 0 /\ ~ maxBuffSize > 0 /\ LostNo = 1
        BY <1>6, <1>7, <1>9, <2>1 DEF U!FirstIsLost, LostNo
      <3>2. 0 \in 0..Len(text) /\ 0 < Len(text) /\ 0 + 1 = 1
        BY <1>9, <3>1
      <3>3. Tail(text) = After(text, 1)
        BY <1>7, <3>2, AfterFacts
      <3>. QED BY <2>1, <3>1, <3>3 DEF U!Taken, Stood, TakenFor
    <2>2. CASE ~ U!FirstIsLost
      <3>1. LostNo = 0 /\ 0 \in 0..Len(text)
        BY <1>9, <2>2 DEF LostNo
      <3>2. After(text, LostNo) = text
        BY <1>7, <3>1, AfterFacts
      <3>. QED BY <2>2, <3>2, WordsOfSfrobu DEF U!Taken, Stood, TakenFor
    <2>. QED BY <2>1, <2>2
  <1>11. PICK u : u = U!Taken
    OBVIOUS
  <1>12. ReadSo(u, wordList, myWord) /\ (~ Headed => FitSo(u, wordList, myWord, prevNumChars))
    BY <1>5, <1>7, <1>10, <1>11 DEF SfrobuReads
  <1>13. AllListed(u, wordList')
    <2>1. LastWord(myWord, prevNumChars, stale) \in {myWord, Append(myWord, Space)}  BY DEF LastWord
    <2>. QED BY <1>8, <1>12, <2>1, ReadsAll
  <1>14. ASSUME Apt  PROVE Whole(wordList')
    <2>1. ~ Headed /\ ~ Contains(text, Nul) /\ ~ MayLackItsSpace(u)
      BY <1>11, <1>14 DEF Apt
    <2>2. u = After(text, LostNo)
      <3>1. CASE maxBuffSize > 0
        <4>1. LostNo = 0 /\ 0 \in 0..Len(text)  BY <1>6, <1>9, <3>1 DEF LostNo, U!FirstIsLost
        <4>2. After(text, LostNo) = text  BY <1>7, <4>1, AfterFacts
        <4>3. text[1] # Space  BY <1>6, <1>7, <2>1, <3>1 DEF Headed
        <4>. QED BY <1>10, <1>11, <4>2, <4>3 DEF Stood, TakenFor
      <3>2. CASE ~ maxBuffSize > 0
        BY <1>10, <1>11, <3>2 DEF Stood, TakenFor
      <3>. QED BY <3>1, <3>2
    <2>3. ~ Contains(u, Nul)
      <3>1. PICK k \in Nat : k = LostNo /\ k \in 0..n
        <4>1. CASE U!FirstIsLost
          <5>1. LostNo = 1 /\ n > 0  BY <1>6, <1>7, <1>9, <4>1 DEF LostNo
          <5>. QED BY <5>1
        <4>2. CASE ~ U!FirstIsLost
          <5>1. LostNo = 0  BY <4>2 DEF LostNo
          <5>. QED BY <5>1
        <4>. QED BY <4>1, <4>2
      <3>2. k + 1 \in 1..(Len(text) + 1) /\ n \in ((k + 1) - 1)..Len(text) /\ n - (k + 1) + 1 = n - k
        BY <1>9, <3>1
      <3>3. Len(u) = n - k /\ \A i \in 1..(n - k) : u[i] = text[(k + 1) + i - 1]
        BY <1>7, <1>9, <2>2, <3>1, <3>2, PartFacts DEF After
      <3>4. \A i \in 1..(n - k) : (k + 1) + i - 1 \in 1..n
        BY <1>9, <3>1
      <3>. QED BY <1>9, <2>1, <3>3, <3>4 DEF Contains
    <2>. QED BY <1>8, <1>12, <2>1, <2>3, WholeAtEnd
  <1>15. SortsSo(U!Taken, Apt, wordList')
    BY <1>11, <1>13, <1>14 DEF SortsSo
  <1>16. SortsSo(U!Taken, Apt, wordList)'
    BY <1>2, <1>15 DEF SortsSo
  <1>. QED BY <1>1, <1>2, <1>6, <1>16 DEF SfrobuKept

(* while the words are sorted and printed,                                  *)
LEMMA SfrobuSortsAndPrints ==
  ASSUME SfrobuInv, U!Sort \/ U!PrintWord \/ U!Finish
  PROVE  SfrobuInv'
  <1>1. /\ pc \in {"sort", "print"} /\ mode' = mode /\ text' = text /\ changes' = changes
        /\ maxBuffSize' = maxBuffSize
    BY DEF U!Sort, U!PrintWord, U!Finish, U!file
  <1>2. (U!Shrunk' <=> U!Shrunk) /\ (Early' <=> Early) /\ U!Taken' = U!Taken /\ (Apt' <=> Apt)
    BY <1>1, SameFile
  <1>3. changes' \in Seq({"shrunk", "grown"} \X {"fill", "first", "read", "skip"})
    BY <1>1 DEF SfrobuInv
  <1>. SUFFICES ASSUME ~ U!Shrunk  PROVE SfrobuKept'
    BY <1>2, <1>3 DEF SfrobuInv
  <1>4. SfrobuKept
    BY DEF SfrobuInv
  <1>5. PICK u : u = U!Taken
    OBVIOUS
  <1>6. PICK fit \in BOOLEAN : fit <=> Apt
    OBVIOUS
  <1>7. /\ maxBuffSize \in Nat /\ (Early => text # <<>>)
        /\ SortsSo(u, fit, wordList) /\ (pc = "sort" => printed = <<>>)
        /\ pc = "print" => PrintedSo(wordList, printed)
    <2>1. /\ maxBuffSize \in Nat /\ (Early => text # <<>>)
          /\ SortsSo(U!Taken, Apt, wordList) /\ (pc = "sort" => printed = <<>>)
          /\ pc = "print" => PrintedSo(wordList, printed)
      BY <1>1, <1>4 DEF SfrobuKept
    <2>2. SortsSo(u, fit, wordList)
      BY <1>5, <1>6, <2>1 DEF SortsSo
    <2>. QED BY <2>1, <2>2
  <1>8. ASSUME pc' \in {"print", "done"}, SortsSo(u, fit, wordList'), PrintedSo(wordList', printed'),
               pc' = "done" => Len(printed') = Len(wordList')
        PROVE  SfrobuKept'
    <2>1. SortsSo(U!Taken, Apt, wordList)'
      BY <1>2, <1>5, <1>6, <1>8 DEF SortsSo
    <2>. QED BY <1>1, <1>2, <1>7, <1>8, <2>1 DEF SfrobuKept
  <1>9. ASSUME pc' = "overrun", ~ fit  PROVE SfrobuKept'
    BY <1>1, <1>2, <1>6, <1>7, <1>9 DEF SfrobuKept
  <1>10. CASE U!Sort
    <2>1. pc = "sort" /\ printed' = printed
      BY <1>10 DEF U!Sort
    <2>2. \/ pc' = "print" /\ wordList' \in Sorted(wordList, ignore_case)
          \/ pc' = "overrun" /\ ~ ComparesSafely(wordList, ignore_case)
      BY <1>10, ComparisonOfSfrobu DEF U!Sort
    <2>3. CASE pc' = "print" /\ wordList' \in Sorted(wordList, ignore_case)
      <3>1. SortsSo(u, fit, wordList')  BY <1>7, <2>3, SortingKeeps
      <3>2. PrintedSo(wordList', printed')  BY <1>7, <2>1, <3>1, PrintsNothing DEF SortsSo
      <3>. QED BY <1>8, <2>3, <3>1, <3>2
    <2>4. CASE pc' = "overrun" /\ ~ ComparesSafely(wordList, ignore_case)
      <3>1. ~ fit  BY <1>7, <2>4, SortingKeeps
      <3>. QED BY <1>9, <2>4, <3>1
    <2>. QED BY <2>2, <2>3, <2>4
  <1>11. CASE U!PrintWord
    <2>1. pc = "print" /\ wordList' = wordList /\ Len(printed) < Len(wordList)
      BY <1>11 DEF U!PrintWord
    <2>2. PICK w : w = wordList[Len(printed) + 1]
      OBVIOUS
    <2>3. IF Contains(w, Space) THEN printed' = Append(printed, UpToSpace(w)) /\ pc' = pc
                                ELSE pc' = "overrun" /\ printed' = printed
      BY <1>11, <2>2, WordsOfSfrobu DEF U!PrintWord, WithPrinted
    <2>4. /\ Contains(w, Space) => PrintedSo(wordList, Append(printed, UpToSpace(w)))
          /\ ~ Contains(w, Space) => ~ fit
      BY <1>7, <2>1, <2>2, PrintingKeeps
    <2>5. CASE Contains(w, Space)
      BY <1>7, <1>8, <2>1, <2>3, <2>4, <2>5
    <2>6. CASE ~ Contains(w, Space)
      BY <1>9, <2>3, <2>4, <2>6
    <2>. QED BY <2>5, <2>6
  <1>12. CASE U!Finish
    <2>1. pc = "print" /\ pc' = "done" /\ wordList' = wordList /\ printed' = printed
          /\ Len(printed) = Len(wordList)
      BY <1>12 DEF U!Finish
    <2>. QED BY <1>7, <1>8, <2>1
  <1>. QED BY <1>10, <1>11, <1>12

(* where it gives up,                                                       *)
LEMMA SfrobuGivesUp ==
  ASSUME SfrobuInv, U!WrongArgument \/ U!Errors
  PROVE  SfrobuInv'
  <1>1. /\ pc' \in {"exit 1", "crash"} /\ mode' = mode /\ text' = text /\ changes' = changes
        /\ maxBuffSize' = maxBuffSize
    BY DEF U!WrongArgument, U!Errors, U!Fail, U!UncheckedRealloc, U!PrintError, U!file
  <1>2. (U!Shrunk' <=> U!Shrunk) /\ (Early' <=> Early)
    BY <1>1, SameFile
  <1>3. changes' \in Seq({"shrunk", "grown"} \X {"fill", "first", "read", "skip"})
    BY <1>1 DEF SfrobuInv
  <1>. SUFFICES ASSUME ~ U!Shrunk  PROVE SfrobuKept'
    BY <1>2, <1>3 DEF SfrobuInv
  <1>4. maxBuffSize \in Nat /\ (Early => text # <<>>)
    BY DEF SfrobuInv, SfrobuKept
  <1>. QED BY <1>1, <1>2, <1>4 DEF SfrobuKept

(* when the file is truncated,                                              *)
LEMMA SfrobuShrinks ==
  ASSUME SfrobuInv, U!FileShrinks
  PROVE  SfrobuInv'
  <1>1. changes' = Append(changes, <<"shrunk", pc>>) /\ pc \in {"fill", "first", "read", "skip"}
    BY DEF U!FileShrinks, U!Change
  <1>. DEFINE Kinds == {"shrunk", "grown"} \X {"fill", "first", "read", "skip"}
  <1>2. changes \in Seq(Kinds) /\ <<"shrunk", pc>> \in Kinds
    BY <1>1 DEF SfrobuInv
  <1>3. PICK e \in Kinds : e = <<"shrunk", pc>> /\ e[1] = "shrunk"
    BY <1>2
  <1>. HIDE DEF Kinds
  <1>4. /\ changes' \in Seq(Kinds) /\ Len(changes') = Len(changes) + 1
        /\ changes'[Len(changes) + 1] = e
    BY <1>1, <1>2, <1>3, AppendProperties
  <1>5. e \in Range(changes)'
    <2>1. DOMAIN changes' = 1..Len(changes') /\ Len(changes) \in Nat  BY <1>2, <1>4, LenProperties
    <2>2. Len(changes) + 1 \in DOMAIN changes'  BY <1>4, <2>1
    <2>. QED BY <1>4, <2>2 DEF Range
  <1>6. U!Range(changes)' = Range(changes)'
    BY DEF U!Range, Range
  <1>7. U!Shrunk'
    BY <1>3, <1>5, <1>6 DEF U!Shrunk
  <1>. QED BY <1>4, <1>7 DEF SfrobuInv, Kinds

(* and when it grows.                                                       *)
LEMMA SfrobuGrows ==
  ASSUME SfrobuInv, U!FileGrows
  PROVE  SfrobuInv'
  <1>1. PICK ch \in Growths :
          /\ mode = "regular" /\ pc \in {"fill", "first", "read", "skip"}
          /\ changes' = Append(changes, <<"grown", pc>>)
          /\ text' = SubSeq(text, 1, Len(text) - Len(rest)) \o Append(rest, ch)
          /\ rest' = Append(rest, ch)
          /\ pc' = pc /\ mode' = mode /\ maxBuffSize' = maxBuffSize /\ buffer' = buffer
          /\ myWord' = myWord /\ wordList' = wordList /\ endOfWord' = endOfWord
          /\ prevNumChars' = prevNumChars /\ printed' = printed
    BY DEF U!FileGrows, U!Change
  <1>2. ch \in Byte
    BY <1>1, BytesAssumption
  <1>. DEFINE Kinds == {"shrunk", "grown"} \X {"fill", "first", "read", "skip"}
  <1>3. changes \in Seq(Kinds) /\ <<"grown", pc>> \in Kinds
    BY <1>1 DEF SfrobuInv
  <1>4. PICK e \in Kinds : e = <<"grown", pc>> /\ e[1] = "grown" /\ e[2] = pc
    BY <1>3
  <1>. HIDE DEF Kinds
  <1>5. PICK n \in Nat : n = Len(changes) /\ DOMAIN changes = 1..n
    BY <1>3, LenProperties
  <1>6. /\ changes' \in Seq(Kinds) /\ Len(changes') = n + 1 /\ changes'[n + 1] = e
        /\ \A i \in 1..n : changes'[i] = changes[i]
    BY <1>1, <1>3, <1>4, <1>5, AppendProperties
  <1>7. DOMAIN changes' = 1..(n + 1)
    BY <1>6, LenProperties
  <1>8. \A d : d \in Range(changes)' <=> d \in Range(changes) \/ d = e
    <2>1. \A i : i \in 1..(n + 1) <=> i \in 1..n \/ i = n + 1
      BY <1>5
    <2>2. \A d : d \in Range(changes)' <=> \E i \in 1..(n + 1) : d = changes'[i]
      BY <1>7 DEF Range
    <2>3. \A d : d \in Range(changes) <=> \E i \in 1..n : d = changes[i]
      BY <1>5 DEF Range
    <2>. QED BY <1>6, <2>1, <2>2, <2>3
  <1>9. U!Range(changes)' = Range(changes)' /\ U!Range(changes) = Range(changes)
    BY DEF U!Range, Range
  <1>10. /\ U!Shrunk' <=> U!Shrunk
         /\ Early' <=> Early \/ pc \in {"fill", "first"}
    BY <1>4, <1>8, <1>9 DEF U!Shrunk, Early
  <1>11. changes' \in Seq({"shrunk", "grown"} \X {"fill", "first", "read", "skip"})
    BY <1>6 DEF Kinds
  <1>. SUFFICES ASSUME ~ U!Shrunk  PROVE SfrobuKept'
    BY <1>10, <1>11 DEF SfrobuInv
  <1>12. SfrobuKept
    BY DEF SfrobuInv
  <1>13. maxBuffSize \in Nat /\ (Early => text # <<>>)
    BY <1>12 DEF SfrobuKept
  <1>14. /\ U!FirstIsLost <=> maxBuffSize = 0 /\ text # <<>> /\ Early
         /\ U!FirstIsLost' <=> maxBuffSize = 0 /\ text' # <<>> /\ Early'
    BY <1>1, <1>9 DEF U!FirstIsLost, Early
  <1>15. ASSUME NEW w \in Seq(Byte), rest \in Seq(Byte), text = w \o rest
         PROVE  text' = Append(text, ch) /\ text' = w \o rest' /\ rest' \in Seq(Byte)
    <2>1. rest' \in Seq(Byte)  BY <1>1, <1>2, <1>15, AppendProperties
    <2>2. /\ SubSeq(w \o rest, 1, Len(w \o rest) - Len(rest)) \o Append(rest, ch) = Append(w \o rest, ch)
          /\ w \o Append(rest, ch) = Append(w \o rest, ch)
      BY <1>2, <1>15, GrowsAtEnd
    <2>. QED BY <1>1, <1>15, <2>1, <2>2
  <1>16. CASE pc \in {"fill", "first"}
    <2>1. Fresh
      BY <1>12, <1>16 DEF SfrobuKept
    <2>2. buffer \in Seq(Byte) /\ rest \in Seq(Byte) /\ text = buffer \o rest
      BY <2>1 DEF Fresh
    <2>3. text' = Append(text, ch) /\ text' = buffer' \o rest' /\ rest' \in Seq(Byte)
      BY <1>1, <1>15, <2>2
    <2>4. text' # <<>>
      <3>1. text \in Seq(Byte)  BY <2>2, ConcatProperties
      <3>. QED BY <1>2, <2>3, <3>1, AppendProperties
    <2>5. Fresh'
      BY <1>1, <2>1, <2>3 DEF Fresh
    <2>6. Len(rest') = Len(rest) + 1 /\ Len(rest) \in Nat
      BY <1>1, <1>2, <2>2, AppendProperties, LenProperties
    <2>7. maxBuffSize <= Len(rest) => maxBuffSize <= Len(rest')
      BY <1>13, <2>6
    <2>. QED BY <1>1, <1>10, <1>12, <1>13, <1>14, <1>16, <2>4, <2>5, <2>7 DEF SfrobuKept
  <1>17. CASE pc \in {"read", "skip"}
    <2>1. PICK v : SfrobuReads(v)
      BY <1>12, <1>17 DEF SfrobuKept
    <2>2. /\ v \in Seq(Byte) /\ buffer \in Seq(Byte) /\ rest \in Seq(Byte)
          /\ text = v \o (buffer \o rest)
          /\ maxBuffSize > 0 \/ U!FirstIsLost => v # <<>>
      BY <2>1 DEF SfrobuReads
    <2>3. v \o buffer \in Seq(Byte) /\ text = (v \o buffer) \o rest
      BY <2>2, ConcatProperties, ConcatAssociative
    <2>4. text' = Append(text, ch) /\ text' = (v \o buffer) \o rest' /\ rest' \in Seq(Byte)
      BY <1>15, <2>2, <2>3
    <2>5. text' = v \o (buffer' \o rest')
      <3>1. (v \o buffer) \o rest' = v \o (buffer \o rest')  BY <2>2, <2>4, ConcatAssociative
      <3>. QED BY <1>1, <2>4, <3>1
    <2>6. text \in Seq(Byte)
      BY <2>2, <2>3, ConcatProperties
    <2>7. text' # <<>> /\ (text # <<>> => text'[1] = text[1])
      <3>1. PICK m \in Nat : m = Len(text) /\ (text = <<>> <=> m = 0)
        BY <2>6, EmptySeq, LenProperties
      <3>2. text' # <<>> /\ \A i \in 1..m : text'[i] = text[i]
        <4>1. Append(text, ch) # <<>> /\ \A i \in 1..Len(text) : Append(text, ch)[i] = text[i]
          BY <1>2, <2>6, AppendProperties
        <4>. QED BY <2>4, <3>1, <4>1
      <3>3. text # <<>> => 1 \in 1..m
        BY <3>1
      <3>. QED BY <3>2, <3>3
    <2>8. U!FirstIsLost' <=> U!FirstIsLost
      BY <1>10, <1>13, <1>14, <1>17, <2>7
    <2>9. LostNo' = LostNo /\ (Headed => Headed')
      BY <2>7, <2>8 DEF LostNo, Headed
    <2>10. Stood(v)' = Stood(v)
      BY <1>1, <2>9 DEF Stood
    <2>11. SfrobuReads(v)'
      BY <1>1, <2>1, <2>2, <2>4, <2>5, <2>8, <2>9, <2>10 DEF SfrobuReads
    <2>. QED BY <1>1, <1>10, <1>12, <1>13, <1>17, <2>7, <2>11 DEF SfrobuKept
  <1>. QED BY <1>1, <1>16, <1>17

(* So it always holds,                                                      *)
LEMMA SfrobuGoesOn ==
  ASSUME SfrobuInv, U!Steps \/ U!Errors \/ U!FileShrinks \/ U!FileGrows
  PROVE  SfrobuInv'
  <1>1. \/ U!Start \/ U!Stat \/ U!Fill
        \/ U!FirstOfBuffer \/ U!FirstOverPointer
        \/ U!AddChar \/ U!SkipSpace \/ U!NewWord
        \/ U!EndOfFile
        \/ U!Sort \/ U!PrintWord \/ U!Finish
        \/ U!WrongArgument \/ U!Errors
        \/ U!FileShrinks
        \/ U!FileGrows
        \/ U!SpinAtEnd
    BY DEF U!Steps
  <1>2. ASSUME U!SpinAtEnd  PROVE SfrobuInv'
    <2>1. UNCHANGED <<pc, rest, sortvars, filevars>>
      BY <1>2 DEF U!SpinAtEnd, U!vars, U!file, sortvars, filevars
    <2>. QED BY <2>1, SfrobuStays
  <1>. QED BY <1>1, <1>2, SfrobuOpens, SfrobuFirst, SfrobuReadsOn, SfrobuStopsReading,
           SfrobuSortsAndPrints, SfrobuGivesUp, SfrobuShrinks, SfrobuGrows

(* and says what is wanted.                                                 *)
LEMMA SfrobuSays == SfrobuInv => U!PrintsTheWords /\ U!OverrunsOnlyOf
  <1>. SUFFICES ASSUME SfrobuInv  PROVE U!PrintsTheWords /\ U!OverrunsOnlyOf
    OBVIOUS
  <1>1. ASSUME pc = "done", ~ U!Shrunk, NEW w
        PROVE  U!TimesListed(printed, w) = U!TimesIn(U!Taken, w)
    <2>1. /\ AllListed(U!Taken, wordList) /\ PrintedSo(wordList, printed)
          /\ Len(printed) = Len(wordList)
      BY <1>1 DEF SfrobuInv, SfrobuKept, SortsSo
    <2>2. TimesListed(printed, w) = TimesIn(U!Taken, w)
      BY <2>1, PrintsAll
    <2>. QED BY <2>2, WordsOfSfrobu
  <1>2. U!PrintsTheWords
    BY <1>1 DEF U!PrintsTheWords
  <1>3. ASSUME pc = "overrun", ~ U!Shrunk, Headed  PROVE text # <<>> /\ Head(text) = U!Space
    BY <1>3, WordsOfSfrobu DEF Headed
  <1>4. U!OverrunsOnlyOf
    BY <1>3, WordsOfSfrobu DEF U!OverrunsOnlyOf, SfrobuInv, SfrobuKept, Apt
  <1>. QED BY <1>2, <1>4

------------------------------------------------------------------------------
(***************************************************************************)
(* Whichever of the two runs, its invariant holds.                         *)
(***************************************************************************)
WordsInv ==
  /\ program = "sfrob"  => SfrobInv
  /\ program = "sfrobu" => SfrobuInv

(* At the start, and with every step                                        *)
LEMMA WordsInvHolds == MCSpec => []WordsInv
  <1>1. MCInit => WordsInv
    BY SfrobStarts, SfrobuStarts DEF MCInit, WordsInv
  <1>2. WordsInv /\ [MCNext]_MCVars => WordsInv'
    <2>. SUFFICES ASSUME WordsInv, [MCNext]_MCVars  PROVE WordsInv'
      OBVIOUS
    <2>1. program' = program
      BY DEF MCNext, MCVars, SfrobSteps, SfrobuSteps
    <2>2. CASE program = "sfrob"
      <3>1. \/ A!Steps \/ A!Errors
            \/ UNCHANGED <<pc, rest, sortvars>>
        BY <2>2 DEF MCNext, MCVars, SfrobSteps, SfrobuSteps
      <3>2. SfrobInv'
        BY <2>2, <3>1, SfrobGoesOn, SfrobStays DEF WordsInv
      <3>. QED BY <2>1, <2>2, <3>2 DEF WordsInv
    <2>3. CASE program = "sfrobu"
      <3>1. \/ U!Steps \/ U!Errors \/ U!FileShrinks \/ U!FileGrows
            \/ UNCHANGED <<pc, rest, sortvars, filevars>>
        BY <2>3 DEF MCNext, MCVars, SfrobSteps, SfrobuSteps
      <3>2. SfrobuInv'
        BY <2>3, <3>1, SfrobuGoesOn, SfrobuStays DEF WordsInv
      <3>. QED BY <2>1, <2>3, <3>2 DEF WordsInv
    <2>4. CASE program \notin {"sfrob", "sfrobu"}
      BY <2>1, <2>4 DEF WordsInv
    <2>. QED BY <2>2, <2>3, <2>4
  <1>. QED BY <1>1, <1>2, PTL DEF MCSpec

(* sfrob and sfrobu print every word of what they take for their input as   *)
(* often as it is there, and nothing else: reading and printing in          *)
(* sfrob.c:80-149 and sfrobu.c:108-234, whatever the library's qsort does.  *)
THEOREM AlwaysPrintsTheWords == MCSpec => []PrintsTheWords
  <1>1. WordsInv => PrintsTheWords
    BY SfrobSays, SfrobuSays DEF WordsInv, PrintsTheWords
  <1>. QED BY <1>1, WordsInvHolds, PTL

(* They read behind a word only over a NUL or a last word that lacks its    *)
(* space, sfrobu also of a truncated file or behind a leading space: in     *)
(* frobcmp (sfrob.c:27-53) and in the loops that print a word (sfrob.c:135, *)
(* sfrobu.c:220).                                                           *)
THEOREM AlwaysOverrunsOnlyOf == MCSpec => []OverrunsOnlyOf
  <1>1. WordsInv => OverrunsOnlyOf
    BY SfrobSays, SfrobuSays DEF WordsInv, OverrunsOnlyOf
  <1>. QED BY <1>1, WordsInvHolds, PTL
------------------------------------------------------------------------------
(***************************************************************************)
(* The order of the words: that of their keys, which are numbers from      *)
(* place to place, and less than any character's from the first space on.  *)
(***************************************************************************)
Key(w, k) ==
  IF k \in 1..Len(w) /\ \A m \in 1..k : w[m] # Space THEN Signed(Xor42(w[k])) ELSE -200

Below(a, b) ==
  \E k \in Nat \ {0} : (\A m \in 1..(k - 1) : Key(a, m) = Key(b, m)) /\ Key(a, k) < Key(b, k)

(* Flipping a bit leads from byte to byte, and no two bytes to the same.    *)
LEMMA FlipFacts ==
  ASSUME NEW bit \in {2, 8, 32}, NEW c1 \in Byte, NEW d1 \in Byte
  PROVE  Flip(c1, bit) \in Byte /\ (Flip(c1, bit) = Flip(d1, bit) => c1 = d1)
  <1>1. CASE bit = 2
    BY <1>1, SMTT(60) DEF Flip, Byte
  <1>2. CASE bit = 8
    BY <1>2, SMTT(60) DEF Flip, Byte
  <1>3. CASE bit = 32
    BY <1>3, SMTT(60) DEF Flip, Byte
  <1>. QED BY <1>1, <1>2, <1>3

(* Different characters have different values, all of them above -200.      *)
LEMMA ValueFacts ==
  ASSUME NEW c1 \in Byte, NEW d1 \in Byte
  PROVE  /\ Signed(Xor42(c1)) \in Int /\ Signed(Xor42(c1)) > -200
         /\ Signed(Xor42(c1)) = Signed(Xor42(d1)) => c1 = d1
  <1>1. Flip(c1, 2) \in Byte /\ Flip(d1, 2) \in Byte /\ (Flip(c1, 2) = Flip(d1, 2) => c1 = d1)
    BY FlipFacts
  <1>2. PICK c2 \in Byte, d2 \in Byte : c2 = Flip(c1, 2) /\ d2 = Flip(d1, 2)
    BY <1>1
  <1>3. Flip(c2, 8) \in Byte /\ Flip(d2, 8) \in Byte /\ (Flip(c2, 8) = Flip(d2, 8) => c2 = d2)
    BY FlipFacts
  <1>4. PICK c3 \in Byte, d3 \in Byte : c3 = Flip(c2, 8) /\ d3 = Flip(d2, 8)
    BY <1>3
  <1>5. Flip(c3, 32) \in Byte /\ Flip(d3, 32) \in Byte /\ (Flip(c3, 32) = Flip(d3, 32) => c3 = d3)
    BY FlipFacts
  <1>6. Xor42(c1) = Flip(c3, 32) /\ Xor42(d1) = Flip(d3, 32)
    BY <1>2, <1>4 DEF Xor42
  <1>7. PICK c4 \in Byte, d4 \in Byte : c4 = Xor42(c1) /\ d4 = Xor42(d1)
    BY <1>5, <1>6
  <1>8. c4 = d4 => c1 = d1
    BY <1>1, <1>2, <1>3, <1>4, <1>5, <1>6, <1>7
  <1>9. Signed(c4) \in Int /\ Signed(c4) > -200 /\ (Signed(c4) = Signed(d4) => c4 = d4)
    BY DEF Signed, Byte
  <1>. QED BY <1>7, <1>8, <1>9

(* A key is a number; of a character it is that character's, and no other's.*)
LEMMA KeyFacts ==
  ASSUME NEW a \in Seq(Byte), NEW b \in Seq(Byte), NEW k \in Nat \ {0}
  PROVE  /\ Key(a, k) \in Int
         /\ Key(a, k) # -200 => /\ k \in 1..Len(a) /\ \A m \in 1..k : a[m] # Space
                                /\ Key(a, k) = Signed(Xor42(a[k])) /\ Key(a, k) > -200
         /\ Key(a, k) = Key(b, k) /\ Key(a, k) # -200 => a[k] = b[k]
  <1>1. ASSUME NEW w \in Seq(Byte)
        PROVE  /\ Key(w, k) \in Int
               /\ Key(w, k) # -200 => /\ k \in 1..Len(w) /\ \A m \in 1..k : w[m] # Space
                                      /\ Key(w, k) = Signed(Xor42(w[k])) /\ Key(w, k) > -200
    <2>1. CASE k \in 1..Len(w) /\ \A m \in 1..k : w[m] # Space
      <3>1. w[k] \in Byte
        BY <2>1
      <3>2. Signed(Xor42(w[k])) \in Int /\ Signed(Xor42(w[k])) > -200
        BY <3>1, ValueFacts
      <3>. QED BY <2>1, <3>2 DEF Key
    <2>2. CASE ~ (k \in 1..Len(w) /\ \A m \in 1..k : w[m] # Space)
      BY <2>2 DEF Key
    <2>. QED BY <2>1, <2>2
  <1>2. ASSUME Key(a, k) = Key(b, k), Key(a, k) # -200  PROVE a[k] = b[k]
    <2>1. a[k] \in Byte /\ b[k] \in Byte /\ Signed(Xor42(a[k])) = Signed(Xor42(b[k]))
      BY <1>1, <1>2
    <2>. QED BY <2>1, ValueFacts
  <1>. QED BY <1>1, <1>2

(* What is below one word is below any other, or the other is below it.     *)
LEMMA BelowSplits ==
  ASSUME NEW a \in Seq(Byte), NEW b \in Seq(Byte), NEW e \in Seq(Byte), Below(e, a)
  PROVE  Below(e, b) \/ Below(b, a)
  <1>1. PICK k \in Nat \ {0} : (\A m \in 1..(k - 1) : Key(e, m) = Key(a, m)) /\ Key(e, k) < Key(a, k)
    BY DEF Below
  <1>. DEFINE D == { m \in Nat \ {0} : m <= k /\ (m = k \/ Key(b, m) # Key(e, m)) }
  <1>2. D \in SUBSET Nat /\ D # {}
    BY DEF D
  <1>3. PICK n \in D : \A m \in D : n <= m
    BY <1>2, LeastNumber
  <1>4. n \in Nat \ {0} /\ n <= k /\ (n = k \/ Key(b, n) # Key(e, n))
    BY <1>3
  <1>5. \A m \in 1..(n - 1) : Key(b, m) = Key(e, m)
    BY <1>3, <1>4
  <1>6. \A m \in 1..(n - 1) : Key(b, m) = Key(a, m)
    BY <1>1, <1>4, <1>5
  <1>7. Key(e, n) \in Int /\ Key(b, n) \in Int /\ Key(a, n) \in Int
    <2>1. n \in Nat \ {0}
      BY <1>4
    <2>. HIDE DEF D
    <2>2. \A x \in Seq(Byte) : Key(x, n) \in Int
      BY <2>1, KeyFacts
    <2>. QED BY <2>2
  <1>8. Key(e, n) <= Key(a, n) /\ (n = k => Key(e, n) < Key(a, n))
    BY <1>1, <1>4, <1>7
  <1>9. Key(e, n) < Key(b, n) \/ Key(b, n) < Key(a, n)
    BY <1>4, <1>7, <1>8
  <1>. QED BY <1>4, <1>5, <1>6, <1>9 DEF Below

(* A word is not below itself.                                              *)
LEMMA NotBelowItself ==
  ASSUME NEW a \in Seq(Byte)
  PROVE  ~ Below(a, a)
  <1>1. SUFFICES ASSUME NEW k \in Nat \ {0}, Key(a, k) < Key(a, k)  PROVE FALSE
    BY DEF Below
  <1>2. Key(a, k) \in Int
    BY KeyFacts
  <1>. QED BY <1>1, <1>2

(* What is printed of a word ends with its only space, and has its key.     *)
LEMMA FullFacts ==
  ASSUME NEW w \in Seq(Byte)
  PROVE  /\ Full(w) \in Seq(Byte) /\ Len(Full(w)) >= 1
         /\ Full(w)[Len(Full(w))] = Space
         /\ \A i \in 1..(Len(Full(w)) - 1) : Full(w)[i] # Space
         /\ \A k \in Nat \ {0} : Key(Full(w), k) = Key(w, k)
  <1>1. CASE HasSpace(w)
    <2>1. PICK j \in 1..Len(w) : w[j] = Space /\ \A i \in 1..(j - 1) : w[i] # Space
      BY <1>1, FirstSpace
    <2>2. Full(w) = SubSeq(w, 1, j)
      BY <1>1, <2>1, UpToFirst DEF Full
    <2>3. SubSeq(w, 1, j) \in Seq(Byte) /\ Len(SubSeq(w, 1, j)) = j
          /\ \A i \in 1..j : SubSeq(w, 1, j)[i] = w[i]
      <3>1. 1 \in 1..(Len(w) + 1) /\ j \in (1 - 1)..Len(w)
        OBVIOUS
      <3>. QED BY <3>1, PartFacts
    <2>4. ASSUME NEW k \in Nat \ {0}  PROVE Key(SubSeq(w, 1, j), k) = Key(w, k)
      <3>1. CASE k < j
        BY <3>1, <2>1, <2>3 DEF Key
      <3>2. CASE k >= j
        <4>1. j \in 1..k /\ w[j] = Space
          BY <3>2, <2>1
        <4>2. Key(w, k) = -200
          BY <4>1 DEF Key
        <4>3. k \in 1..Len(SubSeq(w, 1, j)) => j \in 1..k /\ SubSeq(w, 1, j)[j] = Space
          BY <4>1, <2>3
        <4>. QED BY <4>2, <4>3 DEF Key
      <3>. QED BY <3>1, <3>2
    <2>. QED BY <2>1, <2>2, <2>3, <2>4
  <1>2. CASE ~ HasSpace(w)
    <2>1. Full(w) = Append(w, Space)
      BY <1>2 DEF Full
    <2>2. Append(w, Space) \in Seq(Byte) /\ Len(Append(w, Space)) = Len(w) + 1
          /\ Append(w, Space)[Len(w) + 1] = Space
          /\ \A i \in 1..Len(w) : Append(w, Space)[i] = w[i]
      BY SpaceByte
    <2>3. \A i \in 1..Len(w) : w[i] # Space
      BY <1>2 DEF HasSpace, Contains
    <2>4. ASSUME NEW k \in Nat \ {0}  PROVE Key(Append(w, Space), k) = Key(w, k)
      <3>1. CASE k <= Len(w)
        BY <3>1, <2>2 DEF Key
      <3>2. CASE k > Len(w)
        <4>1. k \in 1..Len(Append(w, Space)) => Append(w, Space)[k] = Space /\ k \in 1..k
          BY <3>2, <2>2
        <4>. QED BY <3>2, <4>1 DEF Key
      <3>. QED BY <3>1, <3>2
    <2>. QED BY <2>1, <2>2, <2>3, <2>4
  <1>. QED BY <1>1, <1>2

(* So the order of a dictionary, of what two words stand for, is theirs.    *)
LEMMA BeforeIsBelow ==
  ASSUME NEW a \in Seq(Byte), NEW b \in Seq(Byte), Before(Plain(Full(a)), Plain(Full(b)))
  PROVE  Below(a, b)
  <1>. DEFINE v == Full(a)
              w == Full(b)
  <1>0. /\ v \in Seq(Byte) /\ Len(v) >= 1 /\ \A i \in 1..(Len(v) - 1) : v[i] # Space
        /\ w \in Seq(Byte) /\ Len(w) >= 1 /\ \A i \in 1..(Len(w) - 1) : w[i] # Space
        /\ v[Len(v)] = Space
        /\ \A k \in Nat \ {0} : Key(v, k) = Key(a, k) /\ Key(w, k) = Key(b, k)
    BY FullFacts
  <1>h. Before(Plain(v), Plain(w))
    OBVIOUS
  <1>. HIDE DEF v, w
  <1>1. ASSUME NEW x \in Seq(Byte), Len(x) >= 1, \A i \in 1..(Len(x) - 1) : x[i] # Space
        PROVE  /\ Plain(x) = [i \in 1..(Len(x) - 1) |-> Signed(Xor42(x[i]))]
               /\ Len(Plain(x)) = Len(x) - 1
               /\ \A k \in 1..(Len(x) - 1) : Plain(x)[k] = Key(x, k) /\ Key(x, k) > -200
    <2>1. Plain(x) = [i \in 1..(Len(x) - 1) |-> Signed(Xor42(x[i]))]
      BY DEF Plain
    <2>2. Len(Plain(x)) = Len(x) - 1
      BY <1>1, <2>1
    <2>3. ASSUME NEW k \in 1..(Len(x) - 1)
          PROVE  Plain(x)[k] = Key(x, k) /\ Key(x, k) > -200
      <3>1. k \in 1..Len(x) /\ x[k] \in Byte /\ \A m \in 1..k : x[m] # Space
        BY <1>1
      <3>2. Key(x, k) = Signed(Xor42(x[k]))
        BY <3>1 DEF Key
      <3>. QED BY <2>1, <3>1, <3>2, ValueFacts
    <2>. QED BY <2>1, <2>2, <2>3
  <1>2. Len(Plain(v)) = Len(v) - 1 /\ \A k \in 1..(Len(v) - 1) : Plain(v)[k] = Key(v, k)
    BY <1>0, <1>1
  <1>3. Len(Plain(w)) = Len(w) - 1 /\ \A k \in 1..(Len(w) - 1) : Plain(w)[k] = Key(w, k) /\ Key(w, k) > -200
    BY <1>0, <1>1
  <1>4. PICK k \in 1..((Len(v) - 1) + 1) :
          /\ k <= Len(w) - 1
          /\ \A m \in 1..(k - 1) : Plain(v)[m] = Plain(w)[m]
          /\ k <= Len(v) - 1 => Plain(v)[k] < Plain(w)[k]
    BY <1>h, <1>2, <1>3 DEF Before
  <1>5. k \in Nat \ {0} /\ k <= Len(v)
    BY <1>0, <1>4
  <1>6. ASSUME NEW m \in 1..(k - 1)  PROVE Key(v, m) = Key(w, m)
    <2>1. Len(v) \in Nat /\ Len(w) \in Nat
      BY <1>0
    <2>2. m \in 1..(Len(v) - 1) /\ m \in 1..(Len(w) - 1)
      BY <2>1, <1>4, <1>5
    <2>. QED BY <2>2, <1>2, <1>3, <1>4
  <1>7. Key(v, k) < Key(w, k)
    <2>1. CASE k <= Len(v) - 1
      BY <2>1, <1>0, <1>2, <1>3, <1>4, <1>5
    <2>2. CASE k = Len(v)
      <3>1. Key(v, k) = -200
        BY <2>2, <1>0, <1>5 DEF Key
      <3>2. Len(w) \in Nat
        BY <1>0
      <3>3. k \in 1..(Len(w) - 1)
        BY <3>2, <1>4, <1>5
      <3>4. Key(w, k) > -200
        BY <3>3, <1>3
      <3>5. Key(v, k) \in Int /\ Key(w, k) \in Int
        BY <1>0, <1>5, KeyFacts
      <3>. QED BY <3>1, <3>4, <3>5
    <2>. QED BY <2>1, <2>2, <1>0, <1>5
  <1>. QED BY <1>0, <1>5, <1>6, <1>7 DEF Below
------------------------------------------------------------------------------
(* Without NULs the loop looks at the characters in the same place of both. *)
LEMMA LooksAt ==
  ASSUME NEW a \in Seq(Byte), NEW b \in Seq(Byte), ~ Contains(a, Nul), ~ Contains(b, Nul),
         NEW ic, NEW e, Compares(e, a, b, ic), NEW k \in 1..Len(a), k <= Len(b)
  PROVE  /\ \A n \in Nat : n = k + 1 /\ a[k] = b[k] /\ a[k] # Space => e[<<k, k>>] = e[<<n, n>>]
         /\ (a[k] = Space /\ b[k] = Space) => (e[<<k, k>>] = SAME)
         /\ (a[k] = Space /\ b[k] # Space) => (e[<<k, k>>] = LESS)
         /\ (a[k] # Space /\ b[k] = Space) => (e[<<k, k>>] = GREATER)
         /\ (a[k] # Space /\ a[k] # b[k] /\ unfrobChar(a[k], ic) > unfrobChar(b[k], ic))
              => (e[<<k, k>>] = GREATER)
  <1>1. k \in 1..(Len(a) + 1) /\ k \in 1..(Len(b) + 1) /\ k \in 1..Len(b)
    OBVIOUS
  <1>2. a[k] # Nul /\ b[k] # Nul
    BY <1>1 DEF Contains
  <1>3. SkipNuls(a, k) = k /\ SkipNuls(b, k) = k
    BY <1>1, <1>2, SkipsTo
  <1>4. PICK p \in Places(a, b) : p = <<k, k>> /\ p[1] = k /\ p[2] = k
    <2>1. <<k, k>> \in Places(a, b) /\ <<k, k>>[1] = k /\ <<k, k>>[2] = k
      BY <1>1 DEF Places
    <2>. QED BY <2>1
  <1>5. Skipped(a, b, p) = p
    BY <1>3, <1>4 DEF Skipped
  <1>6. e[p] = IF Goes(a, b, p) THEN e[NextPlace(a, b, p)] ELSE Verdict(a, b, ic, p)
    BY <1>4 DEF Compares
  <1>7. Within(a, b, p)
    BY <1>1, <1>4 DEF Within
  <1>8. BothEnd(a, b, p) <=> a[k] = Space /\ b[k] = Space
    BY <1>4, <1>7 DEF BothEnd
  <1>9. Goes(a, b, p) <=> ~ BothEnd(a, b, p) /\ a[k] = b[k]
    BY <1>4, <1>5, <1>7 DEF Goes, GoesBehind
  <1>10. NextPlace(a, b, p) = <<k + 1, k + 1>>
    BY <1>4, <1>5 DEF NextPlace
  <1>11. Verdict(a, b, ic, p) =
           IF BothEnd(a, b, p) THEN SAME
           ELSE IF a[k] = Space THEN LESS
           ELSE IF b[k] = Space THEN GREATER
           ELSE IF unfrobChar(a[k], ic) > unfrobChar(b[k], ic) THEN GREATER
           ELSE LESS
    BY <1>4, <1>5, <1>7 DEF Verdict, Returned
  <1>. HIDE DEF Goes, NextPlace, Verdict
  <1>12. e[<<k, k>>] = e[p]
    BY <1>4
  <1>. QED BY <1>6, <1>8, <1>9, <1>10, <1>11, <1>12

(* Past places where both have the same, the comparison goes on.            *)
LEMMA PassesSame ==
  ASSUME NEW a \in Seq(Byte), NEW b \in Seq(Byte), ~ Contains(a, Nul), ~ Contains(b, Nul),
         NEW ic, NEW e, Compares(e, a, b, ic), NEW k \in Nat \ {0},
         \A m \in 1..(k - 1) : m <= Len(a) /\ m <= Len(b) /\ a[m] = b[m] /\ a[m] # Space
  PROVE  e[<<1, 1>>] = e[<<k, k>>]
  <1>. DEFINE D == { m \in Nat \ {0} : m <= k /\ e[<<1, 1>>] # e[<<m, m>>] }
  <1>1. SUFFICES ASSUME D # {}  PROVE FALSE
    <2>1. k \in Nat \ {0} /\ k <= k
      OBVIOUS
    <2>2. D = {} => k \notin D
      OBVIOUS
    <2>. QED BY <2>1, <2>2
  <1>2. PICK n \in D : \A m \in D : n <= m
    <2>1. D \in SUBSET Nat
      OBVIOUS
    <2>. HIDE DEF D
    <2>. QED BY <1>1, <2>1, LeastNumber
  <1>3. n \in Nat \ {0} /\ n <= k /\ e[<<1, 1>>] # e[<<n, n>>]
    BY <1>2
  <1>4. n # 1
    BY <1>3
  <1>5. PICK m \in Nat \ {0} : n = m + 1
    BY <1>3, <1>4
  <1>6. m \in 1..(k - 1) /\ m < n
    BY <1>3, <1>5
  <1>7. m \notin D
    <2>1. m \in D => n <= m
      BY <1>2
    <2>. HIDE DEF D
    <2>. QED BY <1>5, <1>6, <2>1
  <1>8. e[<<1, 1>>] = e[<<m, m>>]
    BY <1>6, <1>7, <1>3
  <1>9. m \in 1..Len(a) /\ m <= Len(b) /\ a[m] = b[m] /\ a[m] # Space
    BY <1>6
  <1>10. e[<<m, m>>] = e[<<n, n>>]
    <2>1. n \in Nat /\ n = m + 1
      BY <1>3, <1>5
    <2>2. (n = m + 1 /\ a[m] = b[m] /\ a[m] # Space) => e[<<m, m>>] = e[<<n, n>>]
      BY <1>9, <2>1, LooksAt
    <2>. QED BY <1>9, <2>1, <2>2
  <1>. QED BY <1>3, <1>5, <1>8, <1>10

(* frobcmp finds a word greater than one below it that has its space.       *)
LEMMA BelowCompares ==
  ASSUME NEW a \in Seq(Byte), NEW b \in Seq(Byte), ~ Contains(a, Nul), ~ Contains(b, Nul),
         HasSpace(b), Below(b, a)
  PROVE  frobcmp(a, b, FALSE) = GREATER
  <1>1. PICK k \in Nat \ {0} : (\A m \in 1..(k - 1) : Key(b, m) = Key(a, m)) /\ Key(b, k) < Key(a, k)
    BY DEF Below
  <1>2. Key(a, k) # -200
    <2>1. Key(a, k) \in Int /\ Key(b, k) \in Int /\ (Key(b, k) # -200 => Key(b, k) > -200)
      BY KeyFacts
    <2>. QED BY <1>1, <2>1
  <1>3. k \in 1..Len(a) /\ \A m \in 1..k : a[m] # Space
    BY <1>2, KeyFacts
  <1>4. ASSUME NEW m \in 1..(k - 1)
        PROVE  m <= Len(a) /\ m <= Len(b) /\ a[m] = b[m] /\ a[m] # Space /\ b[m] # Space
    <2>1. m \in Nat \ {0} /\ m \in 1..Len(a) /\ \A i \in 1..m : a[i] # Space
      BY <1>3
    <2>2. Key(a, m) = Signed(Xor42(a[m])) /\ a[m] \in Byte
      BY <2>1 DEF Key
    <2>3. Key(a, m) # -200
      BY <2>2, ValueFacts
    <2>4. Key(b, m) = Key(a, m)
      BY <1>1
    <2>5. m \in 1..Len(b) /\ \A i \in 1..m : b[i] # Space
      BY <2>1, <2>3, <2>4, KeyFacts
    <2>6. a[m] = b[m]
      BY <2>1, <2>3, <2>4, KeyFacts
    <2>7. b[m] # Space /\ a[m] # Space /\ m <= Len(a) /\ m <= Len(b)
      BY <2>1, <2>5
    <2>. QED BY <2>6, <2>7
  <1>5. k <= Len(b)
    <2>1. PICK j \in 1..Len(b) : b[j] = Space
      BY DEF HasSpace, Contains
    <2>2. ~ j < k
      BY <1>4, <2>1
    <2>. QED BY <2>1, <2>2
  <1>0. PICK ic : ic = FALSE
    OBVIOUS
  <1>6. PICK e : Compares(e, a, b, ic) /\ frobcmp(a, b, ic) = e[<<1, 1>>]
    BY FrobcmpCompares
  <1>7. e[<<1, 1>>] = e[<<k, k>>]
    <2>1. \A m \in 1..(k - 1) : m <= Len(a) /\ m <= Len(b) /\ a[m] = b[m] /\ a[m] # Space
      BY <1>4
    <2>2. Compares(e, a, b, ic)
      BY <1>6
    <2>. QED BY <2>1, <2>2, PassesSame
  <1>8. a[k] # Space
    BY <1>3
  <1>9. CASE b[k] = Space
    <2>1. a[k] # Space /\ b[k] = Space => e[<<k, k>>] = GREATER
      BY <1>3, <1>5, <1>6, LooksAt
    <2>. QED BY <1>0, <1>6, <1>7, <1>8, <1>9, <2>1
  <1>10. CASE b[k] # Space
    <2>1. k \in 1..Len(b) /\ \A m \in 1..k : b[m] # Space
      BY <1>4, <1>5, <1>10
    <2>2. Key(b, k) = Signed(Xor42(b[k])) /\ Key(a, k) = Signed(Xor42(a[k]))
      BY <1>3, <2>1 DEF Key
    <2>3. Key(a, k) \in Int /\ Key(b, k) \in Int
      BY KeyFacts
    <2>4. a[k] # b[k]
      BY <1>1, <2>2, <2>3
    <2>5. unfrobChar(a[k], ic) > unfrobChar(b[k], ic)
      BY <1>0, <1>1, <2>2, <2>3 DEF unfrobChar
    <2>6. a[k] # Space /\ a[k] # b[k] /\ unfrobChar(a[k], ic) > unfrobChar(b[k], ic)
            => e[<<k, k>>] = GREATER
      BY <1>3, <1>5, <1>6, LooksAt
    <2>. QED BY <1>0, <1>6, <1>7, <1>8, <2>4, <2>5, <2>6
  <1>. QED BY <1>9, <1>10

(***************************************************************************)
(* A list of words without NULs that can be sorted safely: all have their  *)
(* space, but for one that may lack it if all others start with it.        *)
(***************************************************************************)
Fine(list) ==
  \A i \in 1..Len(list) :
    /\ list[i] # <<>> /\ ~ Contains(list[i], Nul)
    /\ HasSpace(list[i]) \/ \A j \in 1..Len(list) : j # i => list[j][1] = Space

(* A comparison with a word that starts with its space ends there.          *)
LEMMA ComparesAtOnce ==
  ASSUME NEW a \in Seq(Byte), NEW b \in Seq(Byte), NEW ic, a # <<>>, b # <<>>,
         ~ Contains(a, Nul), ~ Contains(b, Nul), a[1] = Space \/ b[1] = Space
  PROVE  frobcmp(a, b, ic) # Overrun
  <1>1. PICK e : Compares(e, a, b, ic) /\ frobcmp(a, b, ic) = e[<<1, 1>>]
    BY FrobcmpCompares
  <1>2. 1 \in 1..Len(a) /\ 1 <= Len(b)
    OBVIOUS
  <1>3. /\ (a[1] = Space /\ b[1] = Space) => (e[<<1, 1>>] = SAME)
        /\ (a[1] = Space /\ b[1] # Space) => (e[<<1, 1>>] = LESS)
        /\ (a[1] # Space /\ b[1] = Space) => (e[<<1, 1>>] = GREATER)
    BY <1>1, <1>2, LooksAt
  <1>. QED BY <1>1, <1>3 DEF SAME, LESS, GREATER, Overrun

(* Such a list is sorted safely,                                            *)
LEMMA FineCompares ==
  ASSUME NEW list \in Seq(Seq(Byte)), Fine(list), NEW ic
  PROVE  ComparesSafely(list, ic)
  <1>1. PICK n \in Nat : n = Len(list) /\ DOMAIN list = 1..n
    BY LenProperties
  <1>2. ASSUME NEW i \in 1..n, NEW j \in 1..n, i # j
        PROVE  frobcmp(list[i], list[j], ic) # Overrun
    <2>1. /\ list[i] \in Seq(Byte) /\ list[i] # <<>> /\ ~ Contains(list[i], Nul)
          /\ list[j] \in Seq(Byte) /\ list[j] # <<>> /\ ~ Contains(list[j], Nul)
      BY <1>1, ElementOfSeq DEF Fine
    <2>2. CASE HasSpace(list[i]) /\ HasSpace(list[j])
      BY <2>1, <2>2, ComparesWithin
    <2>3. CASE ~ HasSpace(list[i]) \/ ~ HasSpace(list[j])
      <3>1. list[i][1] = Space \/ list[j][1] = Space
        BY <1>1, <1>2, <2>3 DEF Fine
      <3>. QED BY <2>1, <3>1, ComparesAtOnce
    <2>. QED BY <2>2, <2>3
  <1>. QED BY <1>1, <1>2 DEF ComparesSafely

(* and so is what it is sorted to.                                          *)
LEMMA FineArranged ==
  ASSUME NEW list \in Seq(Seq(Byte)), Fine(list), NEW sorted \in Arrangements(list)
  PROVE  Fine(sorted)
  <1>1. PICK n \in Nat : n = Len(list) /\ DOMAIN list = 1..n
    BY LenProperties
  <1>. DEFINE D == 1..n
  <1>2. PICK p \in [D -> D] :
          /\ \A i, j \in D : p[i] = p[j] => i = j
          /\ sorted = [i \in D |-> list[p[i]]]
    <2>1. \E p \in [DOMAIN list -> DOMAIN list] :
            /\ \A i, j \in DOMAIN list : p[i] = p[j] => i = j
            /\ sorted = [i \in DOMAIN list |-> list[p[i]]]
      BY DEF Arrangements
    <2>2. DOMAIN list = D  BY <1>1
    <2>. QED BY <2>1, <2>2, Zenon
  <1>3. Len(sorted) = n
    BY <1>1, ArrangesAll
  <1>4. ASSUME NEW i \in D
        PROVE  /\ sorted[i] # <<>> /\ ~ Contains(sorted[i], Nul)
               /\ HasSpace(sorted[i]) \/ \A j \in D : j # i => sorted[j][1] = Space
    <2>1. p[i] \in D /\ sorted[i] = list[p[i]]
      BY <1>2
    <2>2. \A j \in D : j # i => p[j] \in D /\ p[j] # p[i] /\ sorted[j] = list[p[j]]
      BY <1>2
    <2>. QED BY <1>1, <2>1, <2>2 DEF Fine
  <1>. QED BY <1>3, <1>4 DEF Fine

(* No word is below one that comes before it.                               *)
Ordered(list) == \A i, j \in 1..Len(list) : i < j => ~ Below(list[j], list[i])

(* That is what qsort makes of such a list.                                 *)
LEMMA SortOrders ==
  ASSUME NEW list \in Seq(Seq(Byte)), Fine(list), NEW sorted \in Sorted(list, FALSE)
  PROVE  Ordered(sorted)
  <1>1. sorted \in Arrangements(list)
    BY DEF Sorted
  <1>2. sorted \in Seq(Seq(Byte)) /\ Fine(sorted)
    BY <1>1, ArrangesAll, FineArranged
  <1>3. PICK n \in Nat : n = Len(sorted)
    BY <1>2, LenProperties
  <1>4. \A i \in 1..n : sorted[i] \in Seq(Byte)
    BY <1>2, <1>3, ElementOfSeq
  <1>5. \A i \in 1..(n - 1) : frobcmp(sorted[i], sorted[i + 1], FALSE) # GREATER
    <2>1. ComparesSafely(list, FALSE)
      BY FineCompares
    <2>. QED BY <1>3, <2>1 DEF Sorted
  <1>6. ASSUME NEW i \in 1..(n - 1)  PROVE ~ Below(sorted[i + 1], sorted[i])
    <2>. SUFFICES ASSUME Below(sorted[i + 1], sorted[i])  PROVE FALSE
      OBVIOUS
    <2>1. i \in 1..n /\ i + 1 \in 1..n /\ i # i + 1
      OBVIOUS
    <2>2. PICK a \in Seq(Byte), b \in Seq(Byte) : a = sorted[i] /\ b = sorted[i + 1]
      BY <1>4, <2>1
    <2>3. ~ Contains(a, Nul) /\ ~ Contains(b, Nul)
      BY <1>2, <1>3, <2>1, <2>2 DEF Fine
    <2>4. Below(b, a)
      BY <2>2
    <2>5. HasSpace(b)
      <3>. SUFFICES ASSUME ~ HasSpace(b)  PROVE FALSE
        OBVIOUS
      <3>1. a[1] = Space
        BY <1>2, <1>3, <2>1, <2>2 DEF Fine
      <3>2. \A k \in Nat \ {0} : Key(a, k) = -200
        BY <3>1 DEF Key
      <3>3. PICK k \in Nat \ {0} : Key(b, k) < Key(a, k)
        BY <2>4 DEF Below
      <3>4. Key(b, k) \in Int /\ (Key(b, k) # -200 => Key(b, k) > -200)
        BY KeyFacts
      <3>. QED BY <3>2, <3>3, <3>4
    <2>6. frobcmp(a, b, FALSE) = GREATER
      BY <2>3, <2>4, <2>5, BelowCompares
    <2>. QED BY <1>5, <2>2, <2>6
  <1>. DEFINE D == { d \in Nat : \E i, j \in 1..n : i < j /\ d = j - i /\ Below(sorted[j], sorted[i]) }
  <1>7. D = {}
    <2>. SUFFICES ASSUME D # {}  PROVE FALSE
      OBVIOUS
    <2>1. PICK d \in D : \A x \in D : d <= x
      <3>1. D \in SUBSET Nat
        OBVIOUS
      <3>. HIDE DEF D
      <3>. QED BY <3>1, LeastNumber
    <2>2. PICK i \in 1..n, j \in 1..n : i < j /\ d = j - i /\ Below(sorted[j], sorted[i])
      BY <2>1
    <2>3. PICK k \in Nat : j = k + 1
      BY <2>2
    <2>4. k \in 1..(n - 1) /\ k \in 1..n
      BY <2>2, <2>3
    <2>5. ~ Below(sorted[j], sorted[k])
      BY <1>6, <2>3, <2>4
    <2>6. i < k
      BY <2>2, <2>3, <2>5
    <2>7. Below(sorted[k], sorted[i])
      <3>1. sorted[i] \in Seq(Byte) /\ sorted[j] \in Seq(Byte) /\ sorted[k] \in Seq(Byte)
        BY <1>4, <2>4
      <3>. QED BY <2>2, <2>5, <3>1, BelowSplits
    <2>8. k - i \in D
      BY <2>4, <2>6, <2>7
    <2>9. d <= k - i
      BY <2>1, <2>8
    <2>. HIDE DEF D
    <2>. QED BY <2>2, <2>3, <2>4, <2>9
  <1>8. ASSUME NEW i \in 1..n, NEW j \in 1..n, i < j  PROVE ~ Below(sorted[j], sorted[i])
    <2>1. j - i \in Nat
      BY <1>8
    <2>2. Below(sorted[j], sorted[i]) => j - i \in D
      BY <1>8, <2>1
    <2>. HIDE DEF D
    <2>. QED BY <1>7, <2>2
  <1>. QED BY <1>3, <1>8 DEF Ordered
------------------------------------------------------------------------------
(* How often a word has been printed, and how often it is in the list       *)
LEMMA TimesOfBoth ==
  ASSUME NEW list \in Seq(Seq(Byte)), NEW done, PrintedSo(list, done), NEW x
  PROVE  /\ TimesListed(done, x) = Cardinality({ i \in 1..Len(done) : Full(list[i]) = x })
         /\ Times(list, x) = Cardinality({ i \in 1..Len(list) : Full(list[i]) = x })
         /\ IsFiniteSet({ i \in 1..Len(list) : Full(list[i]) = x })
  <1>1. PICK n \in Nat : n = Len(list) /\ DOMAIN list = 1..n
    BY LenProperties
  <1>2. done \in Seq(Seq(Byte)) /\ \A i \in 1..Len(done) : done[i] = Full(list[i])
    BY DEF PrintedSo
  <1>3. PICK k \in Nat : k = Len(done) /\ DOMAIN done = 1..k
    BY <1>2, LenProperties
  <1>4. { i \in DOMAIN done : done[i] = x } = { i \in 1..k : Full(list[i]) = x }
    BY <1>2, <1>3
  <1>5. IsFiniteSet(1..n)
    BY FS_Interval
  <1>6. IsFiniteSet({ i \in 1..n : Full(list[i]) = x })
    BY <1>5, FS_Subset
  <1>. QED BY <1>1, <1>3, <1>4, <1>6 DEF TimesListed, Times

(* A word that is in a text at all is one of its words.                     *)
LEMMA InWordsOf ==
  ASSUME NEW u, NEW w, TimesIn(u, w) # 0
  PROVE  w \in WordsOf(u)
  <1>1. CASE { p \in Pieces(u) : Piece(u, p) = w } # {}
    BY <1>1 DEF WordsOf
  <1>2. CASE { p \in Pieces(u) : Piece(u, p) = w } = {}
    <2>1. Cardinality({ p \in Pieces(u) : Piece(u, p) = w }) = 0
      BY <1>2, FS_EmptySet
    <2>2. StartsEmpty(u) /\ w = <<Space>>
      BY <2>1 DEF TimesIn
    <2>. QED BY <2>2 DEF WordsOf
  <1>. QED BY <1>1, <1>2

(* The next word of an ordered list is one that has not been printed as     *)
(* often as it is in the text, and no other such comes before it.           *)
LEMMA NextInOrder ==
  ASSUME NEW u, NEW list, AllListed(u, list), NEW done, PrintedSo(list, done),
         Len(done) < Len(list), Ordered(list), NEW w, w = Full(list[Len(done) + 1])
  PROVE  /\ w \in WordsOf(u) /\ TimesListed(done, w) < TimesIn(u, w)
         /\ \A v : TimesListed(done, v) < TimesIn(u, v) => ~ Before(Plain(v), Plain(w))
  <1>1. list \in Seq(Seq(Byte)) /\ \A x : Times(list, x) = TimesIn(u, x)
    BY DEF AllListed
  <1>2. PICK n \in Nat, m \in Nat : n = Len(list) /\ m = Len(done)
    BY <1>1, LenProperties DEF PrintedSo
  <1>. DEFINE In(x)   == { i \in 1..n : Full(list[i]) = x }
              Done(x) == { i \in 1..m : Full(list[i]) = x }
  <1>3. ASSUME NEW x
        PROVE  /\ TimesListed(done, x) = Cardinality(Done(x))
               /\ TimesIn(u, x) = Cardinality(In(x)) /\ IsFiniteSet(In(x))
    <2>1. /\ TimesListed(done, x) = Cardinality({ i \in 1..Len(done) : Full(list[i]) = x })
          /\ Times(list, x) = Cardinality({ i \in 1..Len(list) : Full(list[i]) = x })
          /\ IsFiniteSet({ i \in 1..Len(list) : Full(list[i]) = x })
      BY <1>1, TimesOfBoth
    <2>2. Times(list, x) = TimesIn(u, x)
      BY <1>1
    <2>. QED BY <1>2, <2>1, <2>2
  <1>4. m < n /\ m + 1 \in 1..n
    BY <1>2
  <1>5. TimesListed(done, w) < TimesIn(u, w)
    <2>1. Done(w) \subseteq In(w)
      BY <1>4
    <2>2. m + 1 \in In(w) /\ m + 1 \notin Done(w)
      BY <1>2, <1>4
    <2>3. IsFiniteSet(In(w))
      BY <1>3
    <2>. HIDE DEF In, Done
    <2>4. Cardinality(Done(w)) < Cardinality(In(w))
      <3>1. Done(w) \in SUBSET In(w) /\ Done(w) # In(w)
        BY <2>1, <2>2
      <3>2. /\ Cardinality(Done(w)) <= Cardinality(In(w)) /\ IsFiniteSet(Done(w))
            /\ Cardinality(Done(w)) # Cardinality(In(w))
        BY <2>3, <3>1, FS_Subset
      <3>3. Cardinality(Done(w)) \in Nat /\ Cardinality(In(w)) \in Nat
        BY <2>3, <3>2, FS_CardinalityType
      <3>. QED BY <3>2, <3>3
    <2>5. TimesListed(done, w) = Cardinality(Done(w)) /\ TimesIn(u, w) = Cardinality(In(w))
      BY <1>3
    <2>. QED BY <2>4, <2>5
  <1>6. w \in WordsOf(u)
    <2>1. TimesIn(u, w) # 0
      <3>1. In(w) # {}
        BY <1>2, <1>4
      <3>2. IsFiniteSet(In(w)) /\ TimesIn(u, w) = Cardinality(In(w))
        BY <1>3
      <3>. HIDE DEF In
      <3>. QED BY <3>1, <3>2, FS_EmptySet
    <2>. QED BY <2>1, InWordsOf
  <1>7. ASSUME NEW v, TimesListed(done, v) < TimesIn(u, v), Before(Plain(v), Plain(w))
        PROVE  FALSE
    <2>1. PICK i \in In(v) : i \notin Done(v)
      <3>. SUFFICES ASSUME In(v) \subseteq Done(v)  PROVE FALSE
        OBVIOUS
      <3>1. In(v) = Done(v)
        BY <1>4
      <3>2. TimesListed(done, v) = TimesIn(u, v) /\ TimesIn(u, v) = Cardinality(In(v)) /\ IsFiniteSet(In(v))
        BY <1>3, <3>1
      <3>. HIDE DEF In, Done
      <3>3. TimesIn(u, v) \in Nat
        BY <3>2, FS_CardinalityType
      <3>. QED BY <1>7, <3>2, <3>3
    <2>2. i \in 1..n /\ Full(list[i]) = v /\ i > m
      BY <2>1, <1>4
    <2>3. list[i] \in Seq(Byte) /\ list[m + 1] \in Seq(Byte)
      BY <1>1, <1>2, <1>4, <2>2, ElementOfSeq
    <2>4. Before(Plain(Full(list[i])), Plain(Full(list[m + 1])))
      BY <1>2, <1>7, <2>2
    <2>5. Below(list[i], list[m + 1])
      BY <2>3, <2>4, BeforeIsBelow
    <2>6. CASE i = m + 1
      BY <2>3, <2>5, <2>6, NotBelowItself
    <2>7. CASE i # m + 1
      <3>1. m + 1 < i
        BY <2>2, <2>7
      <3>. QED BY <1>2, <1>4, <2>2, <2>5, <3>1 DEF Ordered
    <2>. QED BY <2>6, <2>7
  <1>. QED BY <1>5, <1>6, <1>7

(* Once all are printed, no word is left.                                   *)
LEMMA NothingLeft ==
  ASSUME NEW u, NEW list, NEW done, AllListed(u, list), PrintedSo(list, done), Len(done) = Len(list)
  PROVE  \A w : ~ TimesListed(done, w) < TimesIn(u, w)
  <1>1. \A w : TimesListed(done, w) = TimesIn(u, w)
    BY PrintsAll
  <1>2. ASSUME NEW w  PROVE TimesIn(u, w) \in Nat
    <2>1. list \in Seq(Seq(Byte)) /\ Times(list, w) = TimesIn(u, w)
      BY DEF AllListed
    <2>2. /\ Times(list, w) = Cardinality({ i \in 1..Len(list) : Full(list[i]) = w })
          /\ IsFiniteSet({ i \in 1..Len(list) : Full(list[i]) = w })
      BY <2>1, TimesOfBoth
    <2>. QED BY <2>1, <2>2, FS_CardinalityType
  <1>3. ASSUME NEW w  PROVE ~ TimesListed(done, w) < TimesIn(u, w)
    BY <1>1, <1>2
  <1>. QED BY <1>3
------------------------------------------------------------------------------
(* The words of SortedWords are those of Frobnication.                      *)
LEMMA WordsOfPromise ==
  /\ \A u : Promise!WordsOf(u) = WordsOf(u)
  /\ \A u, w : Promise!TimesIn(u, w) = TimesIn(u, w)
  /\ \A list, w : Promise!TimesListed(list, w) = TimesListed(list, w)
  /\ \A v, w : Promise!Before(Promise!Plain(v), Promise!Plain(w)) = Before(Plain(v), Plain(w))
  <1>0. \A S : Promise!Cardinality(S) = Cardinality(S)
    BY DEF Promise!Cardinality, Cardinality
  <1>1. Promise!Space = Space
    BY DEF Promise!Space, Space
  <1>2. \A u : Promise!Pieces(u) = Pieces(u)
    BY <1>1 DEF Promise!Pieces, Pieces
  <1>3. \A u, p : Promise!Piece(u, p) = Piece(u, p)
    BY <1>1 DEF Promise!Piece, Piece
  <1>4. \A u : Promise!StartsEmpty(u) = StartsEmpty(u)
    BY <1>1 DEF Promise!StartsEmpty, StartsEmpty
  <1>5. \A u : Promise!WordsOf(u) = WordsOf(u)
    BY <1>1, <1>2, <1>3, <1>4 DEF Promise!WordsOf, WordsOf
  <1>6. \A u, w : Promise!TimesIn(u, w) = TimesIn(u, w)
    BY <1>0, <1>1, <1>2, <1>3, <1>4 DEF Promise!TimesIn, TimesIn
  <1>7. \A list, w : Promise!TimesListed(list, w) = TimesListed(list, w)
    BY <1>0 DEF Promise!TimesListed, TimesListed
  <1>8. \A ch : Promise!Signed(Promise!Xor42(ch)) = Signed(Xor42(ch))
    BY DEF Promise!Signed, Signed, Promise!Xor42, Xor42, Promise!Flip, Flip
  <1>9. \A w : Promise!Plain(w) = Plain(w)
    BY <1>8 DEF Promise!Plain, Plain
  <1>10. \A s, t : Promise!Before(s, t) = Before(s, t)
    BY DEF Promise!Before, Before
  <1>. QED BY <1>5, <1>6, <1>7, <1>9, <1>10

(***************************************************************************)
(* The steps of SortedWords, of an implementation in which nothing but     *)
(* what is printed changes, or nothing but how it ends.                    *)
(***************************************************************************)
LEMMA PromisesNext ==
  ASSUME PromisedStatus = "working", UNCHANGED <<PromisedInput, PromisedStatus>>,
         NEW w, PromisedPrinted' = Append(PromisedPrinted, w),
         w \in WordsOf(PromisedInput), TimesListed(PromisedPrinted, w) < TimesIn(PromisedInput, w),
         \A v : TimesListed(PromisedPrinted, v) < TimesIn(PromisedInput, v)
                  => ~ Before(Plain(v), Plain(w))
  PROVE  Promise!PrintNext
  <1>1. w \in Promise!Remaining
    BY WordsOfPromise DEF Promise!Remaining
  <1>2. \A v \in Promise!Remaining : ~ Promise!Before(Promise!Plain(v), Promise!Plain(w))
    BY WordsOfPromise DEF Promise!Remaining
  <1>. QED BY <1>1, <1>2 DEF Promise!PrintNext

(* Success                                                                  *)
LEMMA PromisesSuccess ==
  ASSUME PromisedStatus = "working", PromisedStatus' = "done",
         UNCHANGED <<PromisedInput, PromisedPrinted>>,
         \A v : ~ TimesListed(PromisedPrinted, v) < TimesIn(PromisedInput, v)
  PROVE  Promise!Succeed
  <1>1. Promise!Remaining = {}
    BY WordsOfPromise DEF Promise!Remaining
  <1>. QED BY <1>1 DEF Promise!Succeed

(* A step that fails, or does nothing that was promised                     *)
LEMMA PromisesNoMore ==
  ASSUME UNCHANGED <<PromisedInput, PromisedPrinted>>,
         PromisedStatus' = PromisedStatus \/ (PromisedStatus = "working" /\ PromisedStatus' = "failed")
  PROVE  [Promise!PrintNext \/ Promise!Succeed \/ Promise!Fail]_(Promise!vars)
  BY DEF Promise!Fail, Promise!vars
------------------------------------------------------------------------------
(* A list of whole words can be sorted safely.                              *)
LEMMA WholeIsFine ==
  ASSUME NEW list \in Seq(Seq(Byte)), Whole(list)
  PROVE  Fine(list)
  <1>1. ASSUME NEW i \in 1..Len(list)
        PROVE  list[i] # <<>> /\ ~ Contains(list[i], Nul) /\ HasSpace(list[i])
    <2>1. HasSpace(list[i]) /\ ~ Contains(list[i], Nul)
      BY DEF Whole
    <2>2. ~ HasSpace(<<>>)
      BY EmptySeq DEF HasSpace, Contains
    <2>. QED BY <2>1, <2>2
  <1>. QED BY <1>1 DEF Fine

(* What sfrob prints is in order where its input is fit for it.             *)
SfrobOrder ==
  /\ text \in Seq(Byte)
  /\ pc \in {"print", "done"} /\ FitFor(A!Input) => Ordered(wordList)

(* It holds at the start                                                    *)
LEMMA SfrobOrderStarts == A!Init => SfrobOrder
  BY BytesAssumption DEF A!Init, SfrobOrder

(* and in every step, since qsort makes it so.                              *)
LEMMA SfrobOrderGoesOn ==
  ASSUME SfrobInv, SfrobOrder, A!Steps \/ A!Errors
  PROVE  SfrobOrder'
  <1>1. text' = text
    BY DEF A!Steps, A!EndOfFile, A!AddChar, A!SkipSpace, A!NewWord, A!Sort, A!PrintWord, A!Finish,
           A!Errors, A!ReadError, A!UncheckedRealloc, A!PrintError
  <1>2. A!Input' = A!Input
    BY <1>1 DEF A!Input
  <1>3. CASE A!Sort
    <2>. SUFFICES ASSUME pc' = "print", FitFor(A!Input)  PROVE Ordered(wordList')
      BY <1>1, <1>2, <1>3 DEF SfrobOrder, A!Sort
    <2>1. wordList' \in Sorted(wordList, FALSE)
      BY <1>3, ComparisonOfSfrob DEF A!Sort
    <2>2. wordList \in Seq(Seq(Byte)) /\ Whole(wordList)
      BY <1>3 DEF A!Sort, SfrobInv, SortsSo, AllListed
    <2>3. Fine(wordList)
      BY <2>2, WholeIsFine
    <2>. QED BY <2>1, <2>2, <2>3, SortOrders
  <1>4. CASE A!PrintWord \/ A!Finish
    <2>1. pc = "print" /\ wordList' = wordList
      BY <1>4 DEF A!PrintWord, A!Finish
    <2>. QED BY <1>1, <1>2, <2>1 DEF SfrobOrder
  <1>5. CASE ~ (A!Sort \/ A!PrintWord \/ A!Finish)
    <2>1. pc' \notin {"print", "done"}
      BY <1>5 DEF A!Steps, A!EndOfFile, A!AddChar, A!SkipSpace, A!NewWord,
                  A!Errors, A!ReadError, A!UncheckedRealloc, A!PrintError
    <2>. QED BY <1>1, <2>1 DEF SfrobOrder
  <1>. QED BY <1>3, <1>4, <1>5

(* While nothing moves, it stays.                                           *)
LEMMA SfrobOrderStays ==
  ASSUME UNCHANGED <<pc, sortvars>>, SfrobOrder
  PROVE  SfrobOrder'
  <1>1. pc' = pc /\ text' = text /\ wordList' = wordList
    BY DEF sortvars
  <1>2. A!Input' = A!Input
    BY <1>1 DEF A!Input
  <1>. QED BY <1>1, <1>2 DEF SfrobOrder

(* A fit text is read to its end, and fit to be sorted.                     *)
LEMMA FitIsRead ==
  ASSUME text \in Seq(Byte), A!Fit
  PROVE  A!Input = text /\ FitFor(text)
  <1>1. PICK n \in Nat : n = Len(text) /\ DOMAIN text = 1..n
    BY LenProperties
  <1>2. \A i \in DOMAIN text : text[i] # A!Nul /\ text[i] # 255
    <2>1. \A i \in DOMAIN text : text[i] \in A!Range(text)
      BY DEF A!Range
    <2>. QED BY <2>1 DEF A!Fit
  <1>3. A!Input = text
    BY <1>2 DEF A!Input
  <1>4. ~ Contains(text, Nul)
    BY <1>1, <1>2, WordsOfSfrob DEF Contains
  <1>5. ~ MayLackItsSpace(text)
    BY WordsOfSfrob DEF A!Fit
  <1>. QED BY <1>3, <1>4, <1>5 DEF FitFor

(***************************************************************************)
(* A step of sfrob does what SortedWords allows, or nothing it sees.       *)
(***************************************************************************)
LEMMA SfrobPromises ==
  ASSUME program = "sfrob", program' = "sfrob", SfrobInv, SfrobOrder, A!Steps \/ A!Errors
  PROVE  [Promise!PrintNext \/ Promise!Succeed \/ Promise!Fail]_(Promise!vars)
  <1>1. text' = text
    BY DEF A!Steps, A!EndOfFile, A!AddChar, A!SkipSpace, A!NewWord, A!Sort, A!PrintWord, A!Finish,
           A!Errors, A!ReadError, A!UncheckedRealloc, A!PrintError
  <1>2. A!Fit' <=> A!Fit
    BY <1>1 DEF A!Fit
  <1>3. PromisedInput = text /\ PromisedInput' = text
    BY <1>1 DEF PromisedInput
  <1>4. /\ PromisedPrinted = IF A!Fit THEN printed ELSE <<>>
        /\ PromisedPrinted' = IF A!Fit THEN printed' ELSE <<>>
    BY <1>2 DEF PromisedPrinted, A!PrintedIfFit
  <1>5. /\ PromisedStatus = IF A!Fit /\ pc = "done" THEN "done"
                            ELSE IF A!Fit /\ pc \in {"done", "exit 1", "crash", "overrun"} THEN "failed"
                            ELSE "working"
        /\ PromisedStatus' = IF A!Fit /\ pc' = "done" THEN "done"
                             ELSE IF A!Fit /\ pc' \in {"done", "exit 1", "crash", "overrun"} THEN "failed"
                             ELSE "working"
    BY <1>2 DEF PromisedStatus, A!StatusIfFit, A!Ended
  <1>6. pc \in {"read", "sort", "print"}
    BY DEF A!Steps, A!EndOfFile, A!AddChar, A!SkipSpace, A!NewWord, A!Sort, A!PrintWord, A!Finish,
           A!Errors, A!ReadError, A!UncheckedRealloc, A!PrintError
  <1>7. PromisedStatus = "working"
    BY <1>5, <1>6
  <1>8. CASE ~ A!Fit
    <2>1. PromisedInput' = PromisedInput /\ PromisedPrinted' = PromisedPrinted /\ PromisedStatus' = PromisedStatus
      BY <1>3, <1>4, <1>5, <1>8
    <2>. QED BY <2>1, PromisesNoMore
  <1>9. CASE A!Fit /\ printed' = printed /\ pc' # "done"
    <2>1. PromisedInput' = PromisedInput /\ PromisedPrinted' = PromisedPrinted
      BY <1>3, <1>4, <1>9
    <2>2. PromisedStatus' = PromisedStatus \/ PromisedStatus' = "failed"
      BY <1>5, <1>6, <1>9
    <2>. QED BY <1>7, <2>1, <2>2, PromisesNoMore
  <1>10. CASE A!Fit /\ A!PrintWord /\ printed' # printed
    <2>1. /\ pc = "print" /\ pc' = "print" /\ Len(printed) < Len(wordList)
          /\ AllListed(text, wordList) /\ PrintedSo(wordList, printed) /\ Ordered(wordList)
      <3>1. A!Input = text /\ FitFor(text)
        BY <1>10, FitIsRead DEF SfrobOrder
      <3>2. pc = "print" /\ Len(printed) < Len(wordList)
        BY <1>10 DEF A!PrintWord
      <3>3. pc' = pc
        BY <1>10 DEF A!PrintWord
      <3>. QED BY <3>1, <3>2, <3>3 DEF SfrobInv, SfrobOrder, SortsSo
    <2>2. PICK w : w = wordList[Len(printed) + 1]
      OBVIOUS
    <2>3. Contains(w, Space) /\ printed' = Append(printed, UpToSpace(w))
      BY <1>10, <2>2, WordsOfSfrob DEF A!PrintWord, WithPrinted
    <2>4. PICK x : x = Full(w) /\ printed' = Append(printed, x)
      BY <2>3 DEF Full, HasSpace
    <2>5. /\ x \in WordsOf(text) /\ TimesListed(printed, x) < TimesIn(text, x)
          /\ \A v : TimesListed(printed, v) < TimesIn(text, v) => ~ Before(Plain(v), Plain(x))
      BY <2>1, <2>2, <2>4, NextInOrder
    <2>6. PromisedPrinted = printed /\ PromisedPrinted' = Append(PromisedPrinted, x)
      BY <1>4, <1>10, <2>4
    <2>7. PromisedStatus' = PromisedStatus /\ PromisedInput' = PromisedInput
      BY <1>3, <1>5, <2>1
    <2>8. Promise!PrintNext
      BY <1>3, <1>7, <2>5, <2>6, <2>7, PromisesNext
    <2>. QED BY <2>8
  <1>11. CASE A!Fit /\ A!Finish
    <2>1. pc = "print" /\ pc' = "done" /\ printed' = printed /\ Len(printed) = Len(wordList)
      BY <1>11 DEF A!Finish
    <2>2. A!Input = text
      BY <1>11, FitIsRead DEF SfrobOrder
    <2>3. AllListed(text, wordList) /\ PrintedSo(wordList, printed)
      BY <2>1, <2>2 DEF SfrobInv, SortsSo
    <2>4. \A v : ~ TimesListed(printed, v) < TimesIn(text, v)
      BY <2>1, <2>3, NothingLeft
    <2>5. PromisedPrinted = printed /\ PromisedPrinted' = PromisedPrinted /\ PromisedStatus' = "done"
      BY <1>4, <1>5, <1>11, <2>1
    <2>6. Promise!Succeed
      BY <1>3, <1>7, <2>4, <2>5, PromisesSuccess
    <2>. QED BY <2>6
  <1>12. (A!PrintWord /\ printed' # printed) \/ A!Finish \/ (printed' = printed /\ pc' # "done")
    <2>1. CASE A!PrintWord
      <3>1. pc' # "done"
        BY <2>1 DEF A!PrintWord
      <3>. QED BY <2>1, <3>1
    <2>2. CASE A!Finish
      BY <2>2
    <2>3. CASE ~ A!PrintWord /\ ~ A!Finish
      BY <2>3 DEF A!Steps, A!EndOfFile, A!AddChar, A!SkipSpace, A!NewWord, A!Sort,
                  A!Errors, A!ReadError, A!UncheckedRealloc, A!PrintError
    <2>. QED BY <2>1, <2>2, <2>3
  <1>. QED BY <1>8, <1>9, <1>10, <1>11, <1>12
------------------------------------------------------------------------------
(***************************************************************************)
(* The lengths where a text may start with two spaces: its first word then *)
(* holds both, and the word that follows is measured by that.              *)
(***************************************************************************)
LengthsKept(v, list, word, prev) ==
  \/ LengthsSo(v, word, prev)
  \/ word = <<Space, Space>> /\ list = <<>>
  \/ ~ HasSpace(word) /\ word # <<>> /\ list = <<<<Space, Space>>>>

(* Two spaces, as the first word                                            *)
LEMMA TwoSpaces ==
  /\ <<Space, Space>> \in Seq(Byte) /\ Len(<<Space, Space>>) = 2
  /\ HasSpace(<<Space, Space>>) /\ ~ Contains(<<Space, Space>>, Nul) /\ <<Space, Space>>[1] = Space
  BY SpaceByte DEF HasSpace, Contains, Space, Nul

(* They follow the reading, too.                                            *)
LEMMA KeptLengthsFollow ==
  ASSUME NEW u, NEW list, NEW word, ReadSo(u, list, word), NEW prev, LengthsKept(u, list, word, prev)
  PROVE  /\ \A ch \in Byte : ~ HasSpace(word) => LengthsKept(Append(u, ch), list, Append(word, ch), prev)
         /\ HasSpace(word) => LengthsKept(Append(u, Space), list, word, prev)
         /\ \A ch \in Byte \ {Space} :
              HasSpace(word) => LengthsKept(Append(u, ch), Append(list, word), <<ch>>, Len(word))
  <1>0. u \in Seq(Byte) /\ word \in Seq(Byte) /\ list \in Seq(Seq(Byte))
    BY DEF ReadSo
  <1>1. ASSUME NEW ch \in Byte, ~ HasSpace(word)
        PROVE  LengthsKept(Append(u, ch), list, Append(word, ch), prev)
    <2>1. CASE LengthsSo(u, word, prev)
      BY <1>1, <2>1, LengthsFollow DEF LengthsKept
    <2>2. CASE word # <<>> /\ list = <<<<Space, Space>>>>
      <3>1. CASE ch = Space
        <4>1. HasSpace(Append(word, Space)) /\ Len(Append(word, Space)) = Len(word) + 1
          BY <1>0, <1>1, SpaceOfFull, SpaceByte, AppendProperties
        <4>2. IsOpen(u, word)
          BY <1>1 DEF ReadSo
        <4>3. FromWord(Append(u, Space), Len(word) + 1)
          BY <1>0, <4>2, FromThisWord
        <4>4. LengthsSo(Append(u, Space), Append(word, Space), prev)
          BY <4>1, <4>3 DEF LengthsSo
        <4>. QED BY <3>1, <4>4 DEF LengthsKept
      <3>2. CASE ch # Space
        <4>1. ~ HasSpace(Append(word, ch))
          BY <1>0, <1>1, <3>2, SpaceOfFull
        <4>2. Append(word, ch) # <<>>
          BY <1>0, AppendProperties
        <4>. QED BY <2>2, <4>1, <4>2 DEF LengthsKept
      <3>. QED BY <3>1, <3>2
    <2>. QED BY <1>1, <2>1, <2>2, TwoSpaces DEF LengthsKept
  <1>2. ASSUME HasSpace(word)  PROVE LengthsKept(Append(u, Space), list, word, prev)
    BY <1>2, LengthsFollow DEF LengthsKept
  <1>3. ASSUME NEW ch \in Byte \ {Space}, HasSpace(word)
        PROVE  LengthsKept(Append(u, ch), Append(list, word), <<ch>>, Len(word))
    <2>1. CASE LengthsSo(u, word, prev)
      BY <1>3, <2>1, LengthsFollow DEF LengthsKept
    <2>2. CASE word = <<Space, Space>> /\ list = <<>>
      <3>1. Append(list, word) = <<<<Space, Space>>>>
        BY <2>2
      <3>2. ~ HasSpace(<<ch>>) /\ <<ch>> # <<>>
        BY <1>3 DEF HasSpace, Contains
      <3>. QED BY <3>1, <3>2 DEF LengthsKept
    <2>. QED BY <1>3, <2>1, <2>2 DEF LengthsKept
  <1>. QED BY <1>1, <1>2, <1>3

(* So the list can be sorted safely at the end of a fit text.               *)
LEMMA FineAtEnd ==
  ASSUME NEW u, NEW list, NEW word, ReadSo(u, list, word), NEW prev, LengthsKept(u, list, word, prev),
         Clean(list, word), ~ Contains(u, Nul), ~ MayLackItsSpace(u), NEW stale
  PROVE  Fine(Append(list, LastWord(word, prev, stale)))
  <1>0. u \in Seq(Byte) /\ word \in Seq(Byte) /\ list \in Seq(Seq(Byte))
    BY DEF ReadSo
  <1>1. PICK e : e = LastWord(word, prev, stale)
    OBVIOUS
  <1>2. e \in {word, Append(word, Space)}
    BY <1>1 DEF LastWord
  <1>3. /\ e \in Seq(Byte) /\ ~ Contains(e, Nul)
        /\ HasSpace(word) => HasSpace(e)
        /\ word # <<>> => e # <<>>
    <2>1. CASE e = word
      BY <1>0, <2>1 DEF Clean
    <2>2. CASE e = Append(word, Space)
      <3>1. e \in Seq(Byte) /\ e # <<>>
        BY <1>0, <2>2, SpaceByte, AppendProperties
      <3>2. ~ Contains(e, Nul)
        <4>1. Contains(Append(word, Space), Nul) <=> Contains(word, Nul) \/ Space = Nul
          BY <1>0, SpaceByte, NulOfMore
        <4>. QED BY <2>2, <4>1 DEF Clean, Space, Nul
      <3>3. HasSpace(word) => HasSpace(e)
        BY <1>0, <2>2, SpaceByte, MoreOfFull
      <3>. QED BY <3>1, <3>2, <3>3
    <2>. QED BY <1>2, <2>1, <2>2
  <1>4. CASE LengthsSo(u, word, prev)
    <2>1. FitSo(u, list, word, prev)
      BY <1>4 DEF FitSo
    <2>2. Whole(Append(list, LastWord(word, prev, stale)))
      BY <2>1, WholeAtEnd
    <2>3. Append(list, e) \in Seq(Seq(Byte))
      BY <1>0, <1>3
    <2>. QED BY <1>1, <2>2, <2>3, WholeIsFine
  <1>5. CASE word = <<Space, Space>> /\ list = <<>>
    <2>1. Append(list, e) = <<e>> /\ Len(<<e>>) = 1 /\ <<e>>[1] = e
      BY <1>5
    <2>2. HasSpace(e) /\ e # <<>>
      BY <1>3, <1>5, TwoSpaces
    <2>3. Fine(<<e>>)
      BY <1>3, <2>1, <2>2 DEF Fine
    <2>. QED BY <1>1, <2>1, <2>3
  <1>6. CASE word # <<>> /\ list = <<<<Space, Space>>>>
    <2>1. PICK two : two = <<Space, Space>>
      OBVIOUS
    <2>2. PICK both : both = Append(list, e)
      OBVIOUS
    <2>6. Len(both) = 2 /\ both[1] = two /\ both[2] = e
      <3>1. Len(list) = 1 /\ list[1] = two
        BY <1>6, <2>1
      <3>2. /\ Len(Append(list, e)) = Len(list) + 1
            /\ \A i \in 1..Len(list) : Append(list, e)[i] = list[i]
            /\ Append(list, e)[Len(list) + 1] = e
        BY <1>0, <1>3, AppendProperties
      <3>3. 1 \in 1..1 /\ 1 + 1 = 2
        OBVIOUS
      <3>. QED BY <2>2, <3>1, <3>2, <3>3
    <2>3. HasSpace(two) /\ two # <<>> /\ ~ Contains(two, Nul) /\ two[1] = Space
      BY <2>1, TwoSpaces
    <2>4. e # <<>> /\ ~ Contains(e, Nul)
      BY <1>3, <1>6
    <2>5. Fine(both)
      <3>1. \A i \in 1..2 : i = 1 \/ i = 2
        OBVIOUS
      <3>. QED BY <2>6, <2>3, <2>4, <3>1 DEF Fine
    <2>. QED BY <1>1, <2>2, <2>5
  <1>. QED BY <1>4, <1>5, <1>6 DEF LengthsKept

(* One more character that is no NUL leaves the words clean.                *)
LEMMA CleanFollows ==
  ASSUME NEW list \in Seq(Seq(Byte)), NEW word \in Seq(Byte), Clean(list, word),
         NEW ch \in Byte, ch # Nul
  PROVE  /\ Clean(list, Append(word, ch))
         /\ Clean(Append(list, word), <<ch>>)
  <1>1. Clean(list, Append(word, ch))
    BY NulOfMore DEF Clean
  <1>2. ~ Contains(<<ch>>, Nul)
    BY DEF Contains
  <1>3. PICK n \in Nat : n = Len(list)
    BY LenProperties
  <1>4. Len(Append(list, word)) = n + 1 /\ Append(list, word)[n + 1] = word
        /\ \A i \in 1..n : Append(list, word)[i] = list[i]
    BY <1>3, AppendProperties
  <1>5. ASSUME NEW i \in 1..(n + 1)  PROVE ~ Contains(Append(list, word)[i], Nul)
    <2>1. i \in 1..n \/ i = n + 1
      OBVIOUS
    <2>. QED BY <1>3, <1>4, <2>1 DEF Clean
  <1>. QED BY <1>1, <1>2, <1>4, <1>5 DEF Clean
------------------------------------------------------------------------------
(***************************************************************************)
(* sfrobu has read v of a text that is fit and has not changed.            *)
(***************************************************************************)
KeptReads(v) ==
  /\ v \in Seq(Byte) /\ buffer \in Seq(Byte) /\ text = v \o buffer /\ (v = <<>> => text = <<>>)
  /\ ReadSo(v, wordList, myWord) /\ Clean(wordList, myWord)
  /\ LengthsKept(v, wordList, myWord, prevNumChars)
  /\ IF v = <<Space>> THEN ~ endOfWord /\ myWord = <<Space>> /\ wordList = <<>>
                      ELSE endOfWord <=> HasSpace(myWord)

Unread == myWord = <<>> /\ wordList = <<>> /\ endOfWord = FALSE /\ prevNumChars = -1

(* What is so while it has not changed                                      *)
KeptSo ==
  /\ text = original /\ text \in Seq(Byte) /\ ignore_case = FALSE
  /\ pc \in {"start", "stat", "fill"} => rest = text /\ buffer = <<>>
  /\ pc \in {"start", "stat", "fill", "first"} => Unread
  /\ pc = "fill" => maxBuffSize = Len(text)
  /\ pc = "first" => buffer = text
  /\ pc \in {"first", "read", "skip"} => rest = <<>>
  /\ pc \in {"read", "skip"} => \E v : KeptReads(v)
  /\ pc = "skip" => endOfWord
  /\ pc = "sort" => AllListed(text, wordList) /\ Fine(wordList)
  /\ pc \in {"print", "done"} =>
       AllListed(text, wordList) /\ Ordered(wordList) /\ PrintedSo(wordList, printed)
  /\ pc \in {"start", "stat", "fill", "first", "read", "skip", "sort"} => printed = <<>>

SfrobuOrder == U!Kept => KeptSo

(* A text that is kept has no NUL and no space that comes first alone, and  *)
(* its last word keeps its space.                                           *)
LEMMA KeptFacts ==
  ASSUME U!Kept
  PROVE  /\ argument = "none" /\ mode = "regular" /\ changes = <<>>
         /\ ~ Contains(original, Nul) /\ ~ MayLackItsSpace(original)
         /\ ~ (Len(original) > 1 /\ original[1] = Space /\ original[2] # Space)
  BY WordsOfSfrobu DEF U!Kept, U!Fit

(* Where the file does not change, it is kept or not, as before.            *)
LEMMA KeptOn ==
  ASSUME argument' = argument, mode' = mode, original' = original, changes' = changes
  PROVE  (U!Kept' <=> U!Kept) /\ (U!Fit' <=> U!Fit)
  BY DEF U!Kept, U!Fit

(* It holds at the start,                                                   *)
LEMMA SfrobuOrderStarts == U!Init => SfrobuOrder
  BY BytesAssumption DEF U!Init, SfrobuOrder, KeptSo, Unread

(* as long as nothing moves,                                                *)
LEMMA SfrobuOrderStays ==
  ASSUME UNCHANGED <<pc, rest, sortvars, filevars>>, SfrobuOrder
  PROVE  SfrobuOrder'
  <1>1. /\ pc' = pc /\ rest' = rest /\ text' = text /\ myWord' = myWord /\ wordList' = wordList
        /\ endOfWord' = endOfWord /\ prevNumChars' = prevNumChars /\ printed' = printed
        /\ mode' = mode /\ changes' = changes /\ maxBuffSize' = maxBuffSize /\ buffer' = buffer
        /\ argument' = argument /\ original' = original /\ ignore_case' = ignore_case
    BY DEF sortvars, filevars
  <1>2. U!Kept' <=> U!Kept
    BY <1>1, KeptOn
  <1>3. \A v : KeptReads(v)' <=> KeptReads(v)
    BY <1>1 DEF KeptReads
  <1>. QED BY <1>1, <1>2, <1>3 DEF SfrobuOrder, KeptSo, Unread
------------------------------------------------------------------------------
(* The program itself leaves the file as it is.                             *)
LEMMA FileStays ==
  ASSUME U!Steps \/ U!Errors
  PROVE  /\ argument' = argument /\ mode' = mode /\ original' = original
         /\ text' = text /\ changes' = changes
  BY DEF U!Steps, U!Start, U!WrongArgument, U!Stat, U!Fill, U!FirstOfBuffer, U!FirstOverPointer,
         U!AddChar, U!SkipSpace, U!SpinAtEnd, U!NewWord, U!EndOfFile, U!Sort, U!PrintWord, U!Finish,
         U!Errors, U!Fail, U!UncheckedRealloc, U!PrintError, U!file, U!vars

(***************************************************************************)
(* While the file is kept, KeptSo stays: when it is opened and read,       *)
(***************************************************************************)
LEMMA KeptOpens ==
  ASSUME U!Kept, KeptSo, U!Start \/ U!Stat \/ U!Fill
  PROVE  KeptSo'
  <1>1. /\ pc \in {"start", "stat", "fill"}
        /\ original' = original /\ text' = text /\ myWord' = myWord
        /\ wordList' = wordList /\ endOfWord' = endOfWord /\ prevNumChars' = prevNumChars
        /\ printed' = printed
    BY DEF U!Start, U!Stat, U!Fill, U!file
  <1>2. /\ text = original /\ text \in Seq(Byte) /\ ignore_case = FALSE /\ printed = <<>>
        /\ rest = text /\ buffer = <<>> /\ Unread
    BY <1>1 DEF KeptSo
  <1>3. Unread'
    BY <1>1, <1>2 DEF Unread
  <1>4. CASE U!Start
    <2>1. ignore_case' = FALSE
      BY <1>4, KeptFacts DEF U!Start
    <2>2. pc' = "stat" /\ rest' = rest /\ buffer' = buffer
      BY <1>4 DEF U!Start
    <2>. QED BY <1>1, <1>2, <1>3, <2>1, <2>2 DEF KeptSo
  <1>5. CASE U!Stat
    <2>1. pc' = "fill" /\ maxBuffSize' = Len(rest)
      BY <1>5, KeptFacts DEF U!Stat, U!st_size
    <2>2. rest' = rest /\ buffer' = buffer /\ ignore_case' = ignore_case
      BY <1>5 DEF U!Stat
    <2>. QED BY <1>1, <1>2, <1>3, <2>1, <2>2 DEF KeptSo
  <1>6. CASE U!Fill
    <2>1. pc = "fill" /\ pc' = "first" /\ ignore_case' = ignore_case
      BY <1>6 DEF U!Fill
    <2>2. PICK n \in Nat : n = Len(text)
      BY <1>2, LenProperties
    <2>3. maxBuffSize = n /\ Len(rest) = n
      BY <1>2, <2>1, <2>2 DEF KeptSo
    <2>4. U!Min({maxBuffSize, Len(rest)}) = n
      <3>1. {maxBuffSize, Len(rest)} = {n} /\ n <= n
        BY <2>2, <2>3
      <3>2. \A y \in {n} : n <= y
        BY <3>1
      <3>. QED BY <3>1, <3>2 DEF U!Min
    <2>5. PICK unread \in [1..(n - n) -> Heap] :
            buffer' = SubSeq(rest, 1, n) \o unread /\ rest' = SubSeq(rest, n + 1, Len(rest))
      BY <1>6, <2>3, <2>4 DEF U!Fill
    <2>6. unread = <<>>
      <3>1. n - n = 0  BY <2>2
      <3>2. unread \in [1..0 -> Heap]  BY <2>5, <3>1
      <3>3. unread \in Seq(Heap) /\ Len(unread) = 0  BY <3>2
      <3>. QED BY <3>3, EmptySeq
    <2>7. SubSeq(text, 1, n) = text /\ SubSeq(text, n + 1, n) = <<>>
      <3>1. SubSeq(text, 1, n) = text
        BY <1>2, <2>2
      <3>2. Len(SubSeq(text, n + 1, n)) = 0 /\ SubSeq(text, n + 1, n) \in Seq(Byte)
        BY <1>2, <2>2
      <3>. QED BY <3>1, <3>2, EmptySeq
    <2>8. buffer' = text /\ rest' = <<>>
      <3>1. rest' = <<>>
        BY <1>2, <2>3, <2>5, <2>7
      <3>2. buffer' = text \o <<>>
        BY <1>2, <2>5, <2>6, <2>7
      <3>. QED BY <1>2, <3>1, <3>2, ConcatEmptySeq
    <2>. QED BY <1>1, <1>2, <1>3, <2>1, <2>8 DEF KeptSo
  <1>. QED BY <1>4, <1>5, <1>6

(* What is read does not depend on where the program is.                    *)
LEMMA KeptOnRead ==
  ASSUME text' = text, text = original, original' = original, text \in Seq(Byte),
         ignore_case' = FALSE, printed' = <<>>, rest' = <<>>, pc' \in {"read", "skip"},
         NEW x, KeptReads(x)', pc' = "skip" => endOfWord'
  PROVE  KeptSo'
  <1>1. \E v : KeptReads(v)'
    OBVIOUS
  <1>. QED BY <1>1 DEF KeptSo

(* with the first character,                                                *)
LEMMA KeptFirst ==
  ASSUME U!Kept, KeptSo, U!FirstOfBuffer \/ U!FirstOverPointer
  PROVE  KeptSo'
  <1>1. /\ pc = "first" /\ original' = original /\ text' = text /\ ignore_case' = ignore_case
        /\ wordList' = wordList /\ endOfWord' = endOfWord /\ prevNumChars' = prevNumChars
        /\ printed' = printed
    BY DEF U!FirstOfBuffer, U!FirstOverPointer, U!file
  <1>2. /\ text = original /\ text \in Seq(Byte) /\ ignore_case = FALSE /\ printed = <<>>
        /\ rest = <<>> /\ buffer = text
        /\ myWord = <<>> /\ wordList = <<>> /\ endOfWord = FALSE /\ prevNumChars = -1
    BY <1>1 DEF KeptSo, Unread
  <1>3. <<>> \in Seq(Byte) /\ ~ HasSpace(<<>>) /\ <<>> # <<Space>>
    <2>1. <<>> \in Seq(Byte) /\ Len(<<>>) = 0 /\ Len(<<Space>>) = 1
      BY EmptySeq
    <2>. QED BY <2>1 DEF HasSpace, Contains
  <1>4. FitSo(<<>>, <<>>, <<>>, -1) /\ ReadSo(<<>>, <<>>, <<>>) /\ Clean(<<>>, <<>>)
    <2>1. Clean(<<>>, <<>>)
      <3>1. Len(<<>>) = 0 /\ \A i \in 1..0 : FALSE
        BY EmptySeq
      <3>. QED BY <3>1 DEF Clean, Contains
    <2>. QED BY <2>1, FitAtFirst, ReadsNothing
  <1>5. CASE U!FirstOfBuffer
    <2>1. buffer # <<>> /\ pc' = "read" /\ rest' = rest /\ buffer' = Tail(buffer) /\ myWord' = <<Head(buffer)>>
      BY <1>5 DEF U!FirstOfBuffer
    <2>2. PICK ch : ch = Head(buffer)
      OBVIOUS
    <2>3. PICK x : x = Append(<<>>, ch)
      OBVIOUS
    <2>4. ch \in Byte /\ buffer' \in Seq(Byte) /\ x \in Seq(Byte) /\ text = x \o buffer'
      <3>1. /\ Head(buffer) \in Byte /\ Tail(buffer) \in Seq(Byte) /\ Append(<<>>, Head(buffer)) \in Seq(Byte)
            /\ Append(<<>>, Head(buffer)) \o (Tail(buffer) \o <<>>) = <<>> \o (buffer \o <<>>)
        BY <1>2, <1>3, <2>1, FurtherInBuffer
      <3>2. Tail(buffer) \o <<>> = Tail(buffer) /\ buffer \o <<>> = buffer /\ <<>> \o buffer = buffer
        BY <1>2, <3>1, ConcatEmptySeq
      <3>. QED BY <1>2, <2>1, <2>2, <2>3, <3>1, <3>2
    <2>5. x = <<ch>> /\ x # <<>>
      BY <1>3, <2>3, <2>4, AppendProperties
    <2>6. ReadSo(x, <<>>, x) /\ FitSo(x, <<>>, x, -1)
      BY <1>3, <1>4, <2>3, <2>4, ReadsChar, FitFollows
    <2>7. HasSpace(x) <=> ch = Space
      BY <1>3, <2>3, <2>4, SpaceOfFull
    <2>8. ch # Nul
      <3>1. text # <<>> /\ text[1] = x[1] /\ x[1] = ch
        BY <2>4, <2>5, StartsAsRead
      <3>2. 1 \in 1..Len(text)
        <4>1. Len(text) \in Nat /\ (text = <<>> <=> Len(text) = 0)
          BY <1>2, EmptySeq, LenProperties
        <4>. QED BY <3>1, <4>1
      <3>. QED BY <1>2, <3>1, <3>2, KeptFacts DEF Contains
    <2>9. Clean(<<>>, x)
      <3>1. <<>> \in Seq(Seq(Byte))
        BY EmptySeq
      <3>. QED BY <1>3, <1>4, <2>3, <2>4, <2>8, <3>1, CleanFollows
    <2>10. LengthsKept(x, <<>>, x, -1)
      BY <2>6 DEF LengthsKept, FitSo
    <2>11. x = <<Space>> <=> ch = Space
      BY <2>5
    <2>12. KeptReads(x)'
      BY <1>1, <1>2, <2>1, <2>2, <2>4, <2>5, <2>6, <2>7, <2>9, <2>10, <2>11 DEF KeptReads
    <2>. QED BY <1>1, <1>2, <2>1, <2>12, KeptOnRead
  <1>6. CASE U!FirstOverPointer
    <2>1. buffer = <<>> /\ buffer' = buffer /\ myWord' = myWord /\ pc' = "read" /\ rest' = rest
      BY <1>2, <1>6 DEF U!FirstOverPointer
    <2>2. text = <<>> \o buffer
      BY <1>2, ConcatEmptySeq
    <2>3. LengthsKept(<<>>, <<>>, <<>>, -1)
      BY <1>4 DEF LengthsKept, FitSo
    <2>4. KeptReads(<<>>)'
      BY <1>1, <1>2, <1>3, <1>4, <2>1, <2>2, <2>3 DEF KeptReads
    <2>. QED BY <1>1, <1>2, <2>1, <2>4, KeptOnRead
  <1>. QED BY <1>5, <1>6
------------------------------------------------------------------------------
(* What has been read is where it was in the text.                          *)
LEMMA PartOfText ==
  ASSUME NEW x \in Seq(Byte), NEW s \in Seq(Byte)
  PROVE  /\ Len(x \o s) >= Len(x) /\ \A i \in 1..Len(x) : (x \o s)[i] = x[i]
         /\ ~ Contains(x \o s, Nul) => ~ Contains(x, Nul)
  <1>1. PICK m \in Nat, n \in Nat : m = Len(x) /\ n = Len(s)
    <2>1. Len(x) \in Nat /\ Len(s) \in Nat
      BY LenProperties
    <2>. QED BY <2>1
  <1>2. PICK all : all = x \o s
    OBVIOUS
  <1>3. /\ Len(all) = m + n
        /\ \A i \in 1..(m + n) : all[i] = IF i <= m THEN x[i] ELSE s[i - m]
    BY <1>1, <1>2, ConcatProperties
  <1>4. \A i \in 1..m : i \in 1..(m + n) /\ i <= m
    BY <1>1
  <1>5. \A i \in 1..m : all[i] = x[i]
    BY <1>3, <1>4
  <1>6. m + n >= m
    BY <1>1
  <1>7. ~ Contains(all, Nul) => ~ Contains(x, Nul)
    BY <1>1, <1>3, <1>4, <1>5 DEF Contains
  <1>. QED BY <1>1, <1>2, <1>3, <1>5, <1>6, <1>7

(* Two elements, one after the other                                        *)
LEMMA TwoOf ==
  ASSUME NEW S, NEW a \in S, NEW b \in S
  PROVE  Append(<<a>>, b) = <<a, b>>
  <1>1. Append(<<a>>, b) \in Seq(S) /\ Len(Append(<<a>>, b)) = 2
    OBVIOUS
  <1>2. Append(<<a>>, b)[1] = a /\ Append(<<a>>, b)[2] = b
    OBVIOUS
  <1>3. <<a, b>> \in Seq(S) /\ Len(<<a, b>>) = 2 /\ <<a, b>>[1] = a /\ <<a, b>>[2] = b
    OBVIOUS
  <1>4. \A i \in 1..2 : i = 1 \/ i = 2
    OBVIOUS
  <1>. QED BY <1>1, <1>2, <1>3, <1>4, SeqEqual

(* with every other character,                                              *)
LEMMA KeptReadsOn ==
  ASSUME U!Kept, KeptSo, U!AddChar \/ U!SkipSpace \/ U!NewWord
  PROVE  KeptSo'
  <1>1. /\ pc \in {"read", "skip"} /\ pc' \in {"read", "skip"} /\ ~ U!AtEnd /\ U!Advance
        /\ original' = original /\ text' = text /\ ignore_case' = ignore_case /\ printed' = printed
    BY DEF U!AddChar, U!SkipSpace, U!NewWord, U!file
  <1>2. /\ text = original /\ text \in Seq(Byte) /\ ignore_case = FALSE /\ printed = <<>>
        /\ rest = <<>> /\ (pc = "skip" => endOfWord)
    BY <1>1 DEF KeptSo
  <1>3. PICK v : KeptReads(v)
    BY <1>1 DEF KeptSo
  <1>4. /\ v \in Seq(Byte) /\ buffer \in Seq(Byte) /\ text = v \o buffer /\ (v = <<>> => text = <<>>)
        /\ ReadSo(v, wordList, myWord) /\ Clean(wordList, myWord)
        /\ LengthsKept(v, wordList, myWord, prevNumChars)
        /\ IF v = <<Space>> THEN ~ endOfWord /\ myWord = <<Space>> /\ wordList = <<>>
                            ELSE endOfWord <=> HasSpace(myWord)
    BY <1>3 DEF KeptReads
  <1>5. buffer # <<>> /\ buffer' = Tail(buffer) /\ rest' = <<>>
    BY <1>1, <1>2 DEF U!AtEnd, U!Advance
  <1>6. PICK ch : ch = Head(buffer)
    OBVIOUS
  <1>7. U!Char = ch
    BY <1>5, <1>6 DEF U!Char
  <1>8. PICK x : x = Append(v, ch)
    OBVIOUS
  <1>9. ch \in Byte /\ buffer' \in Seq(Byte) /\ x \in Seq(Byte) /\ text = x \o buffer'
    <2>1. <<>> \in Seq(Byte)
      BY EmptySeq
    <2>2. /\ Head(buffer) \in Byte /\ Tail(buffer) \in Seq(Byte) /\ Append(v, Head(buffer)) \in Seq(Byte)
          /\ Append(v, Head(buffer)) \o (Tail(buffer) \o <<>>) = v \o (buffer \o <<>>)
      BY <1>4, <1>5, <2>1, FurtherInBuffer
    <2>3. Tail(buffer) \o <<>> = Tail(buffer) /\ buffer \o <<>> = buffer
      BY <1>4, <2>2, ConcatEmptySeq
    <2>. QED BY <1>4, <1>5, <1>6, <1>8, <2>2, <2>3
  <1>10. PICK n \in Nat : n = Len(v) /\ n # 0
    <2>1. v # <<>>
      <3>1. v = <<>> => v \o buffer = buffer
        BY <1>4, ConcatEmptySeq
      <3>. QED BY <1>4, <1>5, <3>1
    <2>2. Len(v) \in Nat /\ (v = <<>> <=> Len(v) = 0)
      BY <1>4, EmptySeq, LenProperties
    <2>. QED BY <2>1, <2>2
  <1>11. Len(x) = n + 1 /\ x[n + 1] = ch /\ (\A i \in 1..n : x[i] = v[i]) /\ x # <<>>
    BY <1>4, <1>8, <1>9, <1>10, AppendProperties
  <1>12. x # <<Space>>
    <2>1. Len(<<Space>>) = 1
      OBVIOUS
    <2>. QED BY <1>10, <1>11, <2>1
  <1>13. /\ Len(text) >= n + 1 /\ (\A i \in 1..(n + 1) : text[i] = x[i]) /\ ~ Contains(x, Nul)
    <2>1. ~ Contains(text, Nul)
      BY <1>2, KeptFacts
    <2>2. /\ Len(x \o buffer') >= Len(x) /\ \A i \in 1..Len(x) : (x \o buffer')[i] = x[i]
          /\ ~ Contains(x \o buffer', Nul) => ~ Contains(x, Nul)
      BY <1>9, PartOfText
    <2>. QED BY <1>9, <1>11, <2>1, <2>2
  <1>14. ch # Nul
    <2>1. n + 1 \in 1..Len(x)
      BY <1>10, <1>11
    <2>. QED BY <1>11, <1>13, <2>1 DEF Contains
  <1>15. wordList \in Seq(Seq(Byte)) /\ myWord \in Seq(Byte)
    BY <1>4 DEF ReadSo
  <1>16. /\ Clean(wordList, Append(myWord, ch))
         /\ Clean(Append(wordList, myWord), <<ch>>)
    BY <1>4, <1>9, <1>14, <1>15, CleanFollows
  <1>17. ASSUME ReadSo(x, wordList', myWord'), Clean(wordList', myWord'),
                LengthsKept(x, wordList', myWord', prevNumChars'),
                endOfWord' <=> HasSpace(myWord'), pc' = "skip" => endOfWord'
         PROVE  KeptSo'
    <2>1. KeptReads(x)'
      BY <1>1, <1>9, <1>11, <1>12, <1>17 DEF KeptReads
    <2>. QED BY <1>1, <1>2, <1>5, <1>17, <2>1, KeptOnRead
  <1>18. CASE v = <<Space>>
    <2>1. ~ endOfWord /\ myWord = <<Space>> /\ wordList = <<>>
      BY <1>4, <1>18
    <2>2. /\ myWord' = Append(myWord, ch) /\ (endOfWord' <=> ch = Space) /\ wordList' = wordList
          /\ pc' = "read"
      BY <1>2, <1>7, <2>1, WordsOfSfrobu DEF U!AddChar, U!SkipSpace, U!NewWord, EndsWord
    <2>3. ch = Space
      <3>1. n = 1 /\ v[1] = Space
        BY <1>10, <1>18
      <3>2. 1 \in 1..n /\ 1 \in 1..(n + 1) /\ 2 \in 1..(n + 1) /\ n + 1 = 2
        BY <3>1
      <3>3. text[1] = Space /\ text[2] = ch
        BY <1>11, <1>13, <3>1, <3>2
      <3>4. Len(text) > 1
        <4>1. Len(text) \in Nat
          BY <1>2, LenProperties
        <4>. QED BY <1>13, <3>2, <4>1
      <3>. QED BY <1>2, <3>3, <3>4, KeptFacts
    <2>4. HasSpace(<<Space>>)
      <3>1. Len(<<Space>>) = 1 /\ <<Space>>[1] = Space /\ 1 \in 1..1
        OBVIOUS
      <3>. QED BY <3>1 DEF HasSpace, Contains
    <2>5. ReadSo(x, wordList, myWord)
      BY <1>4, <1>8, <2>1, <2>3, <2>4, ReadsSpace
    <2>6. ReadSo(x, wordList, Append(myWord, ch)) /\ HasSpace(Append(myWord, ch))
      BY <1>9, <2>1, <2>4, <2>5, ReadsMuffled
    <2>7. Append(myWord, ch) = <<Space, Space>>
      <3>1. Append(<<Space>>, Space) = <<Space, Space>>
        BY SpaceByte, TwoOf
      <3>. QED BY <2>1, <2>3, <3>1
    <2>8. LengthsKept(x, wordList', myWord', prevNumChars')
      BY <2>1, <2>2, <2>7 DEF LengthsKept
    <2>. QED BY <1>16, <1>17, <2>2, <2>3, <2>6, <2>8
  <1>19. CASE v # <<Space>>
    <2>1. endOfWord <=> HasSpace(myWord)
      BY <1>4, <1>19
    <2>2. /\ ~ HasSpace(myWord) => LengthsKept(Append(v, ch), wordList, Append(myWord, ch), prevNumChars)
          /\ HasSpace(myWord) => LengthsKept(Append(v, Space), wordList, myWord, prevNumChars)
          /\ ch # Space /\ HasSpace(myWord)
               => LengthsKept(Append(v, ch), Append(wordList, myWord), <<ch>>, Len(myWord))
      <3>1. ch # Space => ch \in Byte \ {Space}
        BY <1>9
      <3>. QED BY <1>4, <1>9, <3>1, KeptLengthsFollow
    <2>3. CASE U!AddChar
      <3>1. /\ ~ HasSpace(myWord) /\ myWord' = Append(myWord, ch) /\ (endOfWord' <=> ch = Space)
            /\ wordList' = wordList /\ prevNumChars' = prevNumChars /\ pc' = "read"
        BY <1>7, <2>1, <2>3, WordsOfSfrobu DEF U!AddChar, EndsWord
      <3>2. ReadSo(x, wordList', myWord')
        BY <1>4, <1>8, <1>9, <3>1, ReadsChar
      <3>3. HasSpace(Append(myWord, ch)) <=> ch = Space
        BY <1>9, <1>15, <3>1, SpaceOfFull
      <3>. QED BY <1>8, <1>16, <1>17, <2>2, <3>1, <3>2, <3>3
    <2>4. CASE U!SkipSpace
      <3>1. /\ HasSpace(myWord) /\ myWord' = myWord /\ endOfWord' = endOfWord /\ ch = Space
            /\ wordList' = wordList /\ prevNumChars' = prevNumChars
        BY <1>2, <1>7, <2>1, <2>4, WordsOfSfrobu DEF U!SkipSpace
      <3>2. ReadSo(x, wordList', myWord')
        BY <1>4, <1>8, <3>1, ReadsSpace
      <3>. QED BY <1>4, <1>8, <1>17, <2>1, <2>2, <3>1, <3>2
    <2>5. CASE U!NewWord
      <3>1. /\ HasSpace(myWord) /\ myWord' = <<ch>> /\ endOfWord' = FALSE /\ ch # Space
            /\ wordList' = Append(wordList, myWord) /\ prevNumChars' = Len(myWord) /\ pc' = "read"
        BY <1>2, <1>7, <2>1, <2>5, WordsOfSfrobu DEF U!NewWord
      <3>2. ReadSo(x, wordList', myWord')
        BY <1>4, <1>8, <1>9, <3>1, ReadsWord
      <3>3. ~ HasSpace(<<ch>>)
        BY <3>1 DEF HasSpace, Contains
      <3>. QED BY <1>8, <1>16, <1>17, <2>2, <3>1, <3>2, <3>3
    <2>. QED BY <2>3, <2>4, <2>5
  <1>. QED BY <1>18, <1>19

(* at the end,                                                              *)
LEMMA KeptStopsReading ==
  ASSUME U!Kept, KeptSo, U!EndOfFile
  PROVE  KeptSo'
  <1>1. /\ pc = "read" /\ pc' = "sort" /\ buffer = <<>>
        /\ original' = original /\ text' = text /\ ignore_case' = ignore_case /\ printed' = printed
    BY DEF U!EndOfFile, U!AtEnd, U!file
  <1>2. text = original /\ text \in Seq(Byte) /\ ignore_case = FALSE /\ printed = <<>>
    BY <1>1 DEF KeptSo
  <1>3. PICK v : KeptReads(v)
    BY <1>1 DEF KeptSo
  <1>4. /\ v = text /\ ReadSo(v, wordList, myWord) /\ Clean(wordList, myWord)
        /\ LengthsKept(v, wordList, myWord, prevNumChars)
    <2>1. v \in Seq(Byte) /\ text = v \o <<>>
      BY <1>1, <1>3 DEF KeptReads
    <2>. QED BY <1>3, <2>1, ConcatEmptySeq DEF KeptReads
  <1>5. PICK stale \in BOOLEAN : wordList' = Append(wordList, LastWord(myWord, prevNumChars, stale))
    BY WordsOfSfrobu DEF U!EndOfFile
  <1>6. LastWord(myWord, prevNumChars, stale) \in {myWord, Append(myWord, Space)}
    BY DEF LastWord
  <1>7. AllListed(text, wordList')
    BY <1>4, <1>5, <1>6, ReadsAll
  <1>8. Fine(wordList')
    <2>1. ~ Contains(v, Nul) /\ ~ MayLackItsSpace(v)
      BY <1>2, <1>4, KeptFacts
    <2>. QED BY <1>4, <1>5, <2>1, FineAtEnd
  <1>9. AllListed(text, wordList)' /\ Fine(wordList)'
    BY <1>1, <1>7, <1>8 DEF AllListed, Fine
  <1>. QED BY <1>1, <1>2, <1>9 DEF KeptSo

(* and as the words are sorted and printed.                                 *)
LEMMA KeptSortsAndPrints ==
  ASSUME U!Kept, KeptSo, U!Sort \/ U!PrintWord \/ U!Finish
  PROVE  KeptSo'
  <1>1. /\ pc \in {"sort", "print"}
        /\ original' = original /\ text' = text /\ ignore_case' = ignore_case
    BY DEF U!Sort, U!PrintWord, U!Finish, U!file
  <1>2. text = original /\ text \in Seq(Byte) /\ ignore_case = FALSE
    BY <1>1 DEF KeptSo
  <1>3. ASSUME pc' \in {"print", "done"}, AllListed(text, wordList'), Ordered(wordList'),
               PrintedSo(wordList', printed')
        PROVE  KeptSo'
    <2>1. AllListed(text, wordList)' /\ Ordered(wordList)' /\ PrintedSo(wordList, printed)'
      BY <1>1, <1>3 DEF AllListed, Ordered, PrintedSo
    <2>. QED BY <1>1, <1>2, <1>3, <2>1 DEF KeptSo
  <1>4. ASSUME pc' = "overrun"  PROVE KeptSo'
    BY <1>1, <1>2, <1>4 DEF KeptSo
  <1>5. CASE U!Sort
    <2>1. AllListed(text, wordList) /\ Fine(wordList) /\ printed = <<>> /\ printed' = <<>>
      <3>1. pc = "sort" /\ printed' = printed
        BY <1>5 DEF U!Sort
      <3>. QED BY <3>1 DEF KeptSo
    <2>2. \/ pc' = "print" /\ wordList' \in Sorted(wordList, FALSE)
          \/ pc' = "overrun"
      BY <1>2, <1>5, ComparisonOfSfrobu DEF U!Sort
    <2>3. CASE pc' = "print" /\ wordList' \in Sorted(wordList, FALSE)
      <3>1. PICK ic : ic = FALSE
        OBVIOUS
      <3>2. wordList' \in Sorted(wordList, ic)
        BY <2>3, <3>1
      <3>3. AllListed(text, wordList')
        BY <2>1, <3>2, SortKeepsWords
      <3>4. PrintedSo(wordList', printed')
        BY <2>1, <3>3, PrintsNothing
      <3>5. wordList \in Seq(Seq(Byte))
        BY <2>1 DEF AllListed
      <3>6. Ordered(wordList')
        BY <2>1, <2>3, <3>5, SortOrders
      <3>. QED BY <1>3, <2>3, <3>3, <3>4, <3>6
    <2>. QED BY <1>4, <2>2, <2>3
  <1>6. CASE U!PrintWord
    <2>1. pc = "print" /\ wordList' = wordList /\ Len(printed) < Len(wordList)
      BY <1>6 DEF U!PrintWord
    <2>2. AllListed(text, wordList) /\ Ordered(wordList) /\ PrintedSo(wordList, printed)
      BY <2>1 DEF KeptSo
    <2>3. PICK w : w = wordList[Len(printed) + 1]
      OBVIOUS
    <2>4. IF Contains(w, Space) THEN printed' = Append(printed, UpToSpace(w)) /\ pc' = pc
                                ELSE pc' = "overrun" /\ printed' = printed
      BY <1>6, <2>3, WordsOfSfrobu DEF U!PrintWord, WithPrinted
    <2>5. CASE Contains(w, Space)
      <3>1. HasSpace(wordList[Len(printed) + 1]) /\ wordList \in Seq(Seq(Byte))
        BY <2>2, <2>3, <2>5 DEF HasSpace, AllListed
      <3>2. PrintedSo(wordList, Append(printed, UpToSpace(wordList[Len(printed) + 1])))
        BY <2>1, <2>2, <3>1, PrintsNext
      <3>3. PrintedSo(wordList', printed')
        BY <2>1, <2>3, <2>4, <2>5, <3>2
      <3>. QED BY <1>3, <2>1, <2>2, <2>4, <2>5, <3>3
    <2>6. CASE ~ Contains(w, Space)
      BY <1>4, <2>4, <2>6
    <2>. QED BY <2>5, <2>6
  <1>7. CASE U!Finish
    <2>1. pc = "print" /\ pc' = "done" /\ wordList' = wordList /\ printed' = printed
      BY <1>7 DEF U!Finish
    <2>2. AllListed(text, wordList) /\ Ordered(wordList) /\ PrintedSo(wordList, printed)
      BY <2>1 DEF KeptSo
    <2>. QED BY <1>3, <2>1, <2>2
  <1>. QED BY <1>5, <1>6, <1>7

(* Where it gives up, nothing is left to say.                               *)
LEMMA KeptGivesUp ==
  ASSUME U!Kept, KeptSo, U!WrongArgument \/ U!Errors
  PROVE  KeptSo'
  <1>1. /\ pc' \in {"exit 1", "crash"}
        /\ original' = original /\ text' = text /\ ignore_case' = ignore_case
    BY DEF U!WrongArgument, U!Errors, U!Fail, U!UncheckedRealloc, U!PrintError, U!file
  <1>2. text = original /\ text \in Seq(Byte) /\ ignore_case = FALSE
    BY DEF KeptSo
  <1>. QED BY <1>1, <1>2 DEF KeptSo

(* A file that has changed is not kept any more.                            *)
LEMMA ChangedNotKept ==
  ASSUME SfrobuInv, U!FileShrinks \/ U!FileGrows
  PROVE  /\ argument' = argument /\ mode' = mode /\ original' = original /\ pc' = pc /\ printed' = printed
         /\ pc \in {"fill", "first", "read", "skip"}
         /\ changes' # <<>>
  <1>1. PICK how \in {"shrunk", "grown"} : changes' = Append(changes, <<how, pc>>)
    BY DEF U!FileShrinks, U!FileGrows, U!Change
  <1>2. /\ argument' = argument /\ mode' = mode /\ original' = original /\ pc' = pc /\ printed' = printed
        /\ pc \in {"fill", "first", "read", "skip"}
    BY DEF U!FileShrinks, U!FileGrows, U!Change
  <1>. DEFINE Kinds == {"shrunk", "grown"} \X {"fill", "first", "read", "skip"}
  <1>3. changes \in Seq(Kinds) /\ <<how, pc>> \in Kinds
    BY <1>1, <1>2 DEF SfrobuInv
  <1>. HIDE DEF Kinds
  <1>4. changes' # <<>>
    BY <1>1, <1>3, AppendProperties
  <1>. QED BY <1>2, <1>4

(* So it always holds.                                                      *)
LEMMA SfrobuOrderGoesOn ==
  ASSUME SfrobuInv, SfrobuOrder, U!Steps \/ U!Errors \/ U!FileShrinks \/ U!FileGrows
  PROVE  SfrobuOrder'
  <1>1. CASE U!FileShrinks \/ U!FileGrows
    <2>1. ~ U!Kept'
      BY <1>1, ChangedNotKept DEF U!Kept
    <2>. QED BY <2>1 DEF SfrobuOrder
  <1>2. CASE U!Steps \/ U!Errors
    <2>1. U!Kept' <=> U!Kept
      BY <1>2, FileStays, KeptOn
    <2>. SUFFICES ASSUME U!Kept  PROVE KeptSo'
      BY <2>1 DEF SfrobuOrder
    <2>2. KeptSo
      BY DEF SfrobuOrder
    <2>3. CASE U!SpinAtEnd
      <3>1. UNCHANGED <<pc, rest, sortvars, filevars>>
        BY <2>3 DEF U!SpinAtEnd, U!vars, U!file, sortvars, filevars
      <3>2. SfrobuOrder'
        BY <3>1, SfrobuOrderStays
      <3>. QED BY <2>1, <3>2 DEF SfrobuOrder
    <2>4. \/ U!Start \/ U!Stat \/ U!Fill
          \/ U!FirstOfBuffer \/ U!FirstOverPointer
          \/ U!AddChar \/ U!SkipSpace \/ U!NewWord
          \/ U!EndOfFile
          \/ U!Sort \/ U!PrintWord \/ U!Finish
          \/ U!WrongArgument \/ U!Errors
          \/ U!SpinAtEnd
      BY <1>2 DEF U!Steps
    <2>. QED BY <2>2, <2>3, <2>4, KeptOpens, KeptFirst, KeptReadsOn, KeptStopsReading,
             KeptSortsAndPrints, KeptGivesUp
  <1>. QED BY <1>1, <1>2
------------------------------------------------------------------------------
(***************************************************************************)
(* A step of sfrobu does what SortedWords allows, or nothing it sees.      *)
(***************************************************************************)
LEMMA SfrobuPromises ==
  ASSUME program = "sfrobu", program' = "sfrobu", SfrobuInv, SfrobuOrder,
         U!Steps \/ U!Errors \/ U!FileShrinks \/ U!FileGrows
  PROVE  [Promise!PrintNext \/ Promise!Succeed \/ Promise!Fail]_(Promise!vars)
  <1>1. argument' = argument /\ mode' = mode /\ original' = original
    BY FileStays, ChangedNotKept
  <1>2. U!Fit' <=> U!Fit
    BY <1>1 DEF U!Fit
  <1>3. PromisedInput = original /\ PromisedInput' = original
    BY <1>1 DEF PromisedInput
  <1>4. /\ PromisedPrinted = IF U!Kept THEN printed ELSE <<>>
        /\ PromisedPrinted' = IF U!Kept' THEN printed' ELSE <<>>
    BY DEF PromisedPrinted, U!PrintedIfKept
  <1>5. /\ PromisedStatus = IF U!Kept /\ pc = "done" THEN "done"
                            ELSE IF U!Fit /\ (changes # <<>> \/ pc \in {"done", "exit 1", "crash", "overrun"})
                                 THEN "failed"
                            ELSE "working"
        /\ PromisedStatus' = IF U!Kept' /\ pc' = "done" THEN "done"
                             ELSE IF U!Fit /\ (changes' # <<>> \/ pc' \in {"done", "exit 1", "crash", "overrun"})
                                  THEN "failed"
                             ELSE "working"
    BY <1>2 DEF PromisedStatus, U!StatusIfKept, U!Ended
  <1>6. CASE U!FileShrinks \/ U!FileGrows
    <2>1. pc' = pc /\ pc \in {"fill", "first", "read", "skip"} /\ changes' # <<>>
      BY <1>6, ChangedNotKept
    <2>2. ~ U!Kept'
      BY <2>1 DEF U!Kept
    <2>3. U!Kept <=> U!Fit /\ changes = <<>>
      BY DEF U!Kept
    <2>4. U!Kept => printed = <<>>
      BY <2>1 DEF SfrobuOrder, KeptSo
    <2>5. PromisedPrinted = <<>> /\ PromisedPrinted' = <<>>
      BY <1>4, <2>2, <2>4
    <2>6. PromisedStatus' = PromisedStatus \/ (PromisedStatus = "working" /\ PromisedStatus' = "failed")
      BY <1>5, <2>1, <2>2, <2>3
    <2>. QED BY <1>3, <2>5, <2>6, PromisesNoMore
  <1>7. CASE (U!Steps \/ U!Errors) /\ ~ U!Kept
    <2>1. changes' = changes /\ ~ U!Kept'
      BY <1>7, FileStays, KeptOn
    <2>2. U!Fit => changes # <<>>
      BY <1>7 DEF U!Kept
    <2>3. PromisedPrinted' = PromisedPrinted /\ PromisedStatus' = PromisedStatus
      BY <1>4, <1>5, <1>7, <2>1, <2>2
    <2>. QED BY <1>3, <2>3, PromisesNoMore
  <1>8. CASE (U!Steps \/ U!Errors) /\ U!Kept
    <2>1. changes' = <<>> /\ changes = <<>> /\ U!Kept' /\ U!Fit
      <3>1. changes' = changes /\ (U!Kept' <=> U!Kept)
        BY <1>8, FileStays, KeptOn
      <3>. QED BY <1>8, <3>1 DEF U!Kept
    <2>2. KeptSo
      BY <1>8 DEF SfrobuOrder
    <2>3. PromisedPrinted = printed /\ PromisedPrinted' = printed'
      BY <1>4, <1>8, <2>1
    <2>4. pc \notin {"done", "exit 1", "crash", "overrun"}
      BY <1>8 DEF U!Steps, U!Start, U!WrongArgument, U!Stat, U!Fill, U!FirstOfBuffer, U!FirstOverPointer,
         U!AddChar, U!SkipSpace, U!SpinAtEnd, U!NewWord, U!EndOfFile, U!Sort, U!PrintWord, U!Finish,
         U!Errors, U!Fail, U!UncheckedRealloc, U!PrintError
    <2>5. PromisedStatus = "working"
      BY <1>5, <2>1, <2>4
    <2>6. PromisedStatus' = IF pc' = "done" THEN "done"
                            ELSE IF pc' \in {"exit 1", "crash", "overrun"} THEN "failed" ELSE "working"
      BY <1>5, <2>1
    <2>7. text = original
      BY <2>2 DEF KeptSo
    <2>8. CASE printed' = printed /\ pc' # "done"
      <3>1. PromisedStatus' = "working" \/ PromisedStatus' = "failed"
        BY <2>6, <2>8
      <3>. QED BY <1>3, <2>3, <2>5, <2>8, <3>1, PromisesNoMore
    <2>9. CASE U!PrintWord /\ printed' # printed
      <3>1. pc = "print" /\ pc' = "print" /\ Len(printed) < Len(wordList)
        BY <2>9 DEF U!PrintWord
      <3>2. AllListed(text, wordList) /\ PrintedSo(wordList, printed) /\ Ordered(wordList)
        BY <2>2, <3>1 DEF KeptSo
      <3>3. PICK w : w = wordList[Len(printed) + 1]
        OBVIOUS
      <3>4. Contains(w, Space) /\ printed' = Append(printed, UpToSpace(w))
        BY <2>9, <3>3, WordsOfSfrobu DEF U!PrintWord, WithPrinted
      <3>5. PICK x : x = Full(w) /\ printed' = Append(printed, x)
        BY <3>4 DEF Full, HasSpace
      <3>6. /\ x \in WordsOf(text) /\ TimesListed(printed, x) < TimesIn(text, x)
            /\ \A v : TimesListed(printed, v) < TimesIn(text, v) => ~ Before(Plain(v), Plain(x))
        BY <3>1, <3>2, <3>3, <3>5, NextInOrder
      <3>7. PromisedPrinted' = Append(PromisedPrinted, x) /\ PromisedStatus' = PromisedStatus
        BY <2>3, <2>5, <2>6, <3>1, <3>5
      <3>8. PromisedInput = text /\ PromisedInput' = PromisedInput
        BY <1>3, <2>7
      <3>9. Promise!PrintNext
        BY <2>3, <2>5, <3>6, <3>7, <3>8, PromisesNext
      <3>. QED BY <3>9
    <2>10. CASE U!Finish
      <3>1. pc = "print" /\ pc' = "done" /\ printed' = printed /\ Len(printed) = Len(wordList)
        BY <2>10 DEF U!Finish
      <3>2. AllListed(text, wordList) /\ PrintedSo(wordList, printed)
        BY <2>2, <3>1 DEF KeptSo
      <3>3. \A v : ~ TimesListed(printed, v) < TimesIn(text, v)
        BY <3>1, <3>2, NothingLeft
      <3>4. /\ PromisedPrinted = printed /\ PromisedPrinted' = PromisedPrinted /\ PromisedStatus' = "done"
            /\ PromisedInput = text /\ PromisedInput' = PromisedInput
        BY <1>3, <2>3, <2>6, <2>7, <3>1
      <3>5. Promise!Succeed
        BY <2>5, <3>3, <3>4, PromisesSuccess
      <3>. QED BY <3>5
    <2>11. (U!PrintWord /\ printed' # printed) \/ U!Finish \/ (printed' = printed /\ pc' # "done")
      <3>1. CASE U!PrintWord
        <4>1. pc' # "done"
          BY <3>1 DEF U!PrintWord
        <4>. QED BY <3>1, <4>1
      <3>2. CASE U!SpinAtEnd
        BY <3>2 DEF U!SpinAtEnd, U!vars
      <3>3. CASE ~ U!PrintWord /\ ~ U!Finish /\ ~ U!SpinAtEnd
        BY <1>8, <3>3 DEF U!Steps, U!Start, U!WrongArgument, U!Stat, U!Fill, U!FirstOfBuffer,
           U!FirstOverPointer, U!AddChar, U!SkipSpace, U!NewWord, U!EndOfFile, U!Sort,
           U!Errors, U!Fail, U!UncheckedRealloc, U!PrintError
      <3>. QED BY <3>1, <3>2, <3>3
    <2>. QED BY <2>8, <2>9, <2>10, <2>11
  <1>. QED BY <1>6, <1>7, <1>8

------------------------------------------------------------------------------
(***************************************************************************)
(* Whichever of the two runs, what it prints is in order.                  *)
(***************************************************************************)
OrderedInv ==
  /\ program = "sfrob"  => SfrobOrder
  /\ program = "sfrobu" => SfrobuOrder

(* What a step of either is                                                 *)
LEMMA StepsOfPrograms ==
  ASSUME [MCNext]_MCVars
  PROVE  /\ program' = program
         /\ program = "sfrob" =>
              A!Steps \/ A!Errors \/ UNCHANGED <<pc, rest, tr2vars, sortvars, filevars>>
         /\ program = "sfrobu" =>
              \/ U!Steps \/ U!Errors \/ U!FileShrinks \/ U!FileGrows
              \/ UNCHANGED <<pc, rest, tr2vars, sortvars, filevars>>
         /\ program \notin {"sfrob", "sfrobu"} => UNCHANGED <<sortvars, filevars>>
  BY DEF MCNext, MCVars, SfrobSteps, SfrobuSteps

(* It holds throughout.                                                     *)
LEMMA OrderedInvHolds == MCSpec => []OrderedInv
  <1>1. MCInit => OrderedInv
    BY SfrobOrderStarts, SfrobuOrderStarts DEF MCInit, OrderedInv
  <1>2. WordsInv /\ OrderedInv /\ [MCNext]_MCVars => OrderedInv'
    <2>. SUFFICES ASSUME WordsInv, OrderedInv, [MCNext]_MCVars  PROVE OrderedInv'
      OBVIOUS
    <2>1. program' = program
      BY StepsOfPrograms
    <2>2. ASSUME program = "sfrob"  PROVE SfrobOrder'
      <3>1. SfrobInv /\ SfrobOrder
        BY <2>2 DEF WordsInv, OrderedInv
      <3>2. A!Steps \/ A!Errors \/ UNCHANGED <<pc, sortvars>>
        BY <2>2, StepsOfPrograms
      <3>. QED BY <3>1, <3>2, SfrobOrderGoesOn, SfrobOrderStays
    <2>3. ASSUME program = "sfrobu"  PROVE SfrobuOrder'
      <3>1. SfrobuInv /\ SfrobuOrder
        BY <2>3 DEF WordsInv, OrderedInv
      <3>2. U!Steps \/ U!Errors \/ U!FileShrinks \/ U!FileGrows
            \/ UNCHANGED <<pc, rest, sortvars, filevars>>
        BY <2>3, StepsOfPrograms
      <3>. QED BY <3>1, <3>2, SfrobuOrderGoesOn, SfrobuOrderStays
    <2>. QED BY <2>1, <2>2, <2>3 DEF OrderedInv
  <1>. QED BY <1>1, <1>2, WordsInvHolds, PTL DEF MCSpec

(* At the start nothing is promised yet.                                    *)
LEMMA PromiseStarts == MCInit => Promise!Init
  <1>. SUFFICES ASSUME MCInit  PROVE Promise!Init
    OBVIOUS
  <1>1. CASE program \in {"tr2b", "tr2u"} /\ SortIdle /\ FileIdle
    BY <1>1 DEF SortIdle, Promise!Init, PromisedInput, PromisedPrinted, PromisedStatus
  <1>2. CASE program = "sfrob" /\ A!Init
    BY <1>2 DEF A!Init, Promise!Init, PromisedInput, PromisedPrinted, PromisedStatus,
                A!PrintedIfFit, A!StatusIfFit, A!Ended
  <1>3. CASE program = "sfrobu" /\ U!Init
    BY <1>3 DEF U!Init, Promise!Init, PromisedInput, PromisedPrinted, PromisedStatus,
                U!PrintedIfKept, U!StatusIfKept, U!Ended
  <1>. QED BY <1>1, <1>2, <1>3 DEF MCInit

(* What is promised does not change where nothing does.                     *)
LEMMA PromiseStays ==
  ASSUME program' = program, UNCHANGED <<sortvars, filevars>>,
         program \in {"sfrob", "sfrobu"} => pc' = pc
  PROVE  UNCHANGED <<PromisedInput, PromisedPrinted, PromisedStatus>>
  <1>1. /\ text' = text /\ printed' = printed /\ argument' = argument /\ mode' = mode
        /\ original' = original /\ changes' = changes
    BY DEF sortvars, filevars
  <1>2. PromisedInput' = PromisedInput
    BY <1>1 DEF PromisedInput
  <1>3. CASE program = "sfrob"
    <2>1. A!Fit' <=> A!Fit
      BY <1>1 DEF A!Fit
    <2>. QED BY <1>1, <1>2, <1>3, <2>1 DEF PromisedPrinted, PromisedStatus, A!PrintedIfFit, A!StatusIfFit
  <1>4. CASE program = "sfrobu"
    <2>1. (U!Fit' <=> U!Fit) /\ (U!Kept' <=> U!Kept)
      BY <1>1, KeptOn
    <2>. QED BY <1>1, <1>2, <1>4, <2>1 DEF PromisedPrinted, PromisedStatus, U!PrintedIfKept, U!StatusIfKept
  <1>5. CASE program \notin {"sfrob", "sfrobu"}
    BY <1>2, <1>5 DEF PromisedPrinted, PromisedStatus
  <1>. QED BY <1>3, <1>4, <1>5

(* sfrob and sfrobu, without -f and on input that is fit for them, print    *)
(* the words of the input in the order of their plain text, every one as    *)
(* often as it is there, and say that they have succeeded only when none is *)
(* left: main, frobcmp and the calls of qsort in sfrob.c:27-149 and         *)
(* sfrobu.c:27-234 implement SortedWords.                                   *)
THEOREM AlwaysImplementsSortedWords == MCSpec => ImplementsSortedWords
  <1>1. MCInit => Promise!Init
    BY PromiseStarts
  <1>2. WordsInv /\ OrderedInv /\ [MCNext]_MCVars
          => [Promise!PrintNext \/ Promise!Succeed \/ Promise!Fail]_(Promise!vars)
    <2>. SUFFICES ASSUME WordsInv, OrderedInv, [MCNext]_MCVars
                  PROVE  [Promise!PrintNext \/ Promise!Succeed \/ Promise!Fail]_(Promise!vars)
      OBVIOUS
    <2>1. program' = program
      BY StepsOfPrograms
    <2>2. ASSUME UNCHANGED <<sortvars, filevars>>, program \in {"sfrob", "sfrobu"} => pc' = pc
          PROVE  [Promise!PrintNext \/ Promise!Succeed \/ Promise!Fail]_(Promise!vars)
      <3>1. UNCHANGED <<PromisedInput, PromisedPrinted, PromisedStatus>>
        BY <2>1, <2>2, PromiseStays
      <3>. QED BY <3>1, PromisesNoMore
    <2>3. CASE program = "sfrob"
      <3>1. SfrobInv /\ SfrobOrder
        BY <2>3 DEF WordsInv, OrderedInv
      <3>2. A!Steps \/ A!Errors \/ UNCHANGED <<pc, sortvars, filevars>>
        BY <2>3, StepsOfPrograms
      <3>. QED BY <2>1, <2>2, <2>3, <3>1, <3>2, SfrobPromises
    <2>4. CASE program = "sfrobu"
      <3>1. SfrobuInv /\ SfrobuOrder
        BY <2>4 DEF WordsInv, OrderedInv
      <3>2. U!Steps \/ U!Errors \/ U!FileShrinks \/ U!FileGrows \/ UNCHANGED <<pc, sortvars, filevars>>
        BY <2>4, StepsOfPrograms
      <3>. QED BY <2>1, <2>2, <2>4, <3>1, <3>2, SfrobuPromises
    <2>5. CASE program \notin {"sfrob", "sfrobu"}
      <3>1. UNCHANGED <<sortvars, filevars>>
        BY <2>5, StepsOfPrograms
      <3>. QED BY <2>2, <2>5, <3>1
    <2>. QED BY <2>3, <2>4, <2>5
  <1>. QED BY <1>1, <1>2, WordsInvHolds, OrderedInvHolds, PTL DEF MCSpec, ImplementsSortedWords, Promise!Spec
------------------------------------------------------------------------------
(* A run that is at one of these will remove the file, or has been killed   *)
(* before it could.                                                         *)
Answering == {"open", "append", "sed", "rename", "sort", "rm", "killed"}

Fields == {"pc", "args", "cwd", "filter", "appending", "edited", "printed", "alone"}
IsRuns(f) == DOMAIN f = Runs /\ \A r \in Runs : DOMAIN f[r] = Fields

(* While there is a file, there is a run that answers for it.               *)
Answered ==
  /\ IsRuns(run)
  /\ home # NoFile => \E r \in Runs : run[r].pc \in Answering

(* What a step does to the pc of its own run and of the others.             *)
Moves(r, p) ==
  /\ IsRuns(run')
  /\ run'[r].pc = p
  /\ \A q \in Runs \ {r} : run'[q].pc = run[q].pc

(* Goto changes the pc of one run and nothing else.                         *)
LEMMA GotoMoves ==
  ASSUME NEW r \in Runs, NEW p, IsRuns(run), Goto(r, p)
  PROVE  Moves(r, p)
  BY DEF Moves, IsRuns, Fields, Goto

(* Detaching the file moves no run.                                         *)
LEMMA DetachedRuns ==
  ASSUME IsRuns(run)
  PROVE  IsRuns(Detached) /\ \A q \in Runs : Detached[q].pc = run[q].pc
  BY DEF IsRuns, Fields, Detached

(* Start moves its run to the checks.                                       *)
LEMMA StartMoves ==
  ASSUME NEW r \in Runs, IsRuns(run), Start(r)
  PROVE  Moves(r, "check")
  BY DEF Moves, IsRuns, Fields, Start

(* Enter moves its run to touch.                                            *)
LEMMA EnterMoves ==
  ASSUME NEW r \in Runs, IsRuns(run), Enter(r)
  PROVE  Moves(r, "touch")
  BY DEF Moves, IsRuns, Fields, Enter

(* Open moves its run to its filter.                                        *)
LEMMA OpenMoves ==
  ASSUME NEW r \in Runs, IsRuns(run), Open(r)
  PROVE  Moves(r, "append")
  BY DEF Moves, IsRuns, Fields, Open

(* A filter that has written is followed by another or by sed.              *)
LEMMA AppendMoves ==
  ASSUME NEW r \in Runs, IsRuns(run), AppendListed(r)
  PROVE  Moves(r, "open") \/ Moves(r, "sed")
  BY DEF Moves, IsRuns, Fields, AppendListed

(* sed goes on to its rename, or to sort if there is no file.               *)
LEMMA SedReadsMoves ==
  ASSUME NEW r \in Runs, IsRuns(run), SedReads(r)
  PROVE  Moves(r, "sort") \/ Moves(r, "rename")
  <1>1. CASE Goto(r, "sort")
    BY <1>1, GotoMoves
  <1>2. CASE ~ Goto(r, "sort")
    BY <1>2 DEF Moves, IsRuns, Fields, SedReads
  <1> QED BY <1>1, <1>2

(* After sed comes sort,                                                    *)
LEMMA SedRenamesMoves ==
  ASSUME NEW r \in Runs, IsRuns(run), SedRenames(r)
  PROVE  Moves(r, "sort")
  BY DetachedRuns DEF Moves, IsRuns, Fields, SedRenames

(* after sort comes rm,                                                     *)
LEMMA SortMoves ==
  ASSUME NEW r \in Runs, IsRuns(run), Sort(r)
  PROVE  Moves(r, "rm")
  BY DEF Moves, IsRuns, Fields, Sort

(* and after rm the run is done.                                            *)
LEMMA RemoveMoves ==
  ASSUME NEW r \in Runs, IsRuns(run), RemoveFile(r)
  PROVE  Moves(r, "done")
  BY DetachedRuns DEF Moves, IsRuns, Fields, RemoveFile

(* A killed run stays where it was killed.                                  *)
LEMMA KillMoves ==
  ASSUME NEW r \in Runs, IsRuns(run), Kill(r)
  PROVE  Moves(r, "killed")
  BY DEF Moves, IsRuns, Fields, Kill

(* A step that ends at a run's own answering answers, whatever it does to   *)
(* the file.                                                                *)
LEMMA MovesToAnswer ==
  ASSUME NEW r \in Runs, NEW p \in Answering, Moves(r, p)
  PROVE  Answered'
  BY DEF Moves, Answered, IsRuns

(* A step of a run that does not answer, and leaves the file, changes       *)
(* nothing for the others.                                                  *)
LEMMA MovesAside ==
  ASSUME NEW r \in Runs, NEW p, Answered, Moves(r, p), home' = home,
         run[r].pc \notin Answering
  PROVE  Answered'
  BY DEF Moves, Answered, IsRuns

(* While there is a file, there is a run that will remove it or was killed. *)
THEOREM AlwaysAnswered == Spec => []Answered
  <1>1. Init => Answered
    BY DEF Init, Answered, IsRuns, Fields
  <1>2. Answered /\ [Next]_vars => Answered'
    <2> SUFFICES ASSUME Answered, [Next]_vars PROVE Answered'
      OBVIOUS
    <2> USE DEF Answering
    <2>1. IsRuns(run)
      BY DEF Answered
    <2>2. ASSUME NEW r \in Runs, Start(r) PROVE Answered'
      <3>1. run[r].pc = "idle" /\ home' = home
        BY <2>2 DEF Start, At
      <3> QED BY <2>1, <2>2, <3>1, StartMoves, MovesAside
    <2>3. ASSUME NEW r \in Runs, Reject(r) PROVE Answered'
      <3>1. run[r].pc = "check" /\ home' = home /\ Goto(r, "failed")
        BY <2>3 DEF Reject, At
      <3> QED BY <2>1, <3>1, GotoMoves, MovesAside
    <2>4. ASSUME NEW r \in Runs, Enter(r) PROVE Answered'
      <3>1. run[r].pc = "check" /\ home' = home
        BY <2>4 DEF Enter, At
      <3> QED BY <2>1, <2>4, <3>1, EnterMoves, MovesAside
    <2>5. ASSUME NEW r \in Runs, Touch(r) PROVE Answered'
      <3>1. Goto(r, "open")
        BY <2>5 DEF Touch
      <3> QED BY <2>1, <3>1, GotoMoves, MovesToAnswer
    <2>6. ASSUME NEW r \in Runs, Open(r) PROVE Answered'
      BY <2>1, <2>6, OpenMoves, MovesToAnswer
    <2>7. ASSUME NEW r \in Runs, AppendListed(r) PROVE Answered'
      BY <2>1, <2>7, AppendMoves, MovesToAnswer
    <2>8. ASSUME NEW r \in Runs, SedReads(r) PROVE Answered'
      BY <2>1, <2>8, SedReadsMoves, MovesToAnswer
    <2>9. ASSUME NEW r \in Runs, SedRenames(r) PROVE Answered'
      BY <2>1, <2>9, SedRenamesMoves, MovesToAnswer
    <2>10. ASSUME NEW r \in Runs, Sort(r) PROVE Answered'
      BY <2>1, <2>10, SortMoves, MovesToAnswer
    <2>11. ASSUME NEW r \in Runs, RemoveFile(r) PROVE Answered'
      <3>1. home' = NoFile /\ Moves(r, "done")
        BY <2>1, <2>11, RemoveMoves DEF RemoveFile, Removed
      <3> QED BY <3>1 DEF Answered, Moves
    <2>12. ASSUME NEW r \in Runs, Kill(r) PROVE Answered'
      BY <2>1, <2>12, KillMoves, MovesToAnswer
    <2>13. CASE UNCHANGED vars
      BY <2>13 DEF Answered, IsRuns, vars
    <2> QED
      BY <2>2, <2>3, <2>4, <2>5, <2>6, <2>7, <2>8, <2>9, <2>10, <2>11, <2>12, <2>13
      DEF Next, Step
  <1> QED BY <1>1, <1>2, PTL DEF Spec

(* When all runs have ended, and none was killed, no file is left.          *)
THEOREM AlwaysLeavesNoFile == Spec => []LeavesNoFile
  <1>1. Answered => LeavesNoFile
    BY DEF Answered, LeavesNoFile, Answering
  <1> QED BY <1>1, AlwaysAnswered, PTL
------------------------------------------------------------------------------
(***************************************************************************)
(* What is printed.  A line comes from a run that has gone to a directory, *)
(* in which the name on it is a poor one.                                  *)
(***************************************************************************)
Arrived(r) == run[r].pc \notin {"idle", "check"}

PoorLine(line) ==
  /\ DOMAIN line = {"under", "name"}
  /\ \E q \in Runs :
       /\ Arrived(q)
       /\ line.name \in Listing[run[q].cwd] /\ Breaks(line.name, Listing[run[q].cwd]) # {}

(* All lines there are, also those that sed or a filter is about to write,  *)
(* are of that kind.                                                        *)
HasPoorLines ==
  /\ IsRuns(run)
  /\ home # NoFile \/ (\E r \in Runs : run[r].appending) => \A line \in DOMAIN home : PoorLine(line)
  /\ \A r \in Runs :
       /\ run[r].pc \in {"idle", "check", "touch", "open", "append"} => run[r].filter \in 1 .. LastFilter
       /\ run[r].pc \in {"idle", "check", "touch"} => ~run[r].appending
       /\ run[r].pc = "rename" => \A line \in DOMAIN run[r].edited : PoorLine(line)
       /\ \A line \in run[r].printed : PoorLine(line)

(* A filter lists nothing but names that break a guideline.                 *)
LEMMA ListedBreak ==
  ASSUME NEW i \in 1 .. LastFilter, NEW names, NEW n \in Listed(i, names)
  PROVE  n \in names /\ Breaks(n, names) # {}
  <1>0. i \in {1, 2, 3, 4, 5, 6}  BY DEF LastFilter
  <1>1. CASE i = 1
    <2>1. n \in names /\ n.odd  BY <1>1 DEF Listed
    <2>2. "characters" \in Breaks(n, names)  BY <2>1 DEF Breaks
    <2>. QED BY <2>1, <2>2
  <1>2. CASE i = 2
    <2>1. n \in names /\ n.start = "-"  BY <1>2 DEF Listed
    <2>2. "dash" \in Breaks(n, names)  BY <2>1 DEF Breaks
    <2>. QED BY <2>1, <2>2
  <1>3. CASE i \in {3, 4}
    <2>1. n \in names /\ n.start \in {".x", "..x"}  BY <1>3 DEF Listed
    <2>2. "dot" \in Breaks(n, names)  BY <2>1 DEF Breaks
    <2>. QED BY <2>1, <2>2
  <1>4. CASE i = 5
    <2>1. n \in names /\ n.long  BY <1>4 DEF Listed, TooLong
    <2>2. "length" \in Breaks(n, names)  BY <2>1 DEF Breaks
    <2>. QED BY <2>1, <2>2
  <1>5. CASE i = 6
    <2>1. n \in names /\ \E m \in names : m # n /\ m.lower = n.lower  BY <1>5 DEF Listed
    <2>2. "case" \in Breaks(n, names)  BY <2>1 DEF Breaks
    <2>. QED BY <2>1, <2>2
  <1>. QED BY <1>0, <1>1, <1>2, <1>3, <1>4, <1>5

(* A run that has arrived stays where it is.                                *)
Settled == \A q \in Runs : Arrived(q) => Arrived(q)' /\ run'[q].cwd = run[q].cwd

(* and then a line that names a poor file goes on naming one.               *)
LEMMA PoorStays ==
  ASSUME Settled, NEW line, PoorLine(line)
  PROVE  PoorLine(line)'
  BY DEF Settled, PoorLine

(* A step that changes at most where its run is, and perhaps what becomes   *)
(* of the file.                                                             *)
LEMMA GoesOn ==
  ASSUME HasPoorLines, NEW r \in Runs, NEW p, Goto(r, p),
         p \notin {"idle", "check", "touch", "rename"},
         p \in {"open", "append"} => run[r].filter \in 1 .. LastFilter,
         home' = home \/ (home' = Created /\ \A q \in Runs : run'[q].appending => run[q].appending)
  PROVE  HasPoorLines'
  <1>1. /\ IsRuns(run') /\ run'[r].pc = p
        /\ \A q \in Runs : q # r => run'[q].pc = run[q].pc
        /\ \A q \in Runs : /\ run'[q].cwd = run[q].cwd /\ run'[q].filter = run[q].filter
                           /\ run'[q].appending = run[q].appending
                           /\ run'[q].edited = run[q].edited /\ run'[q].printed = run[q].printed
    BY DEF HasPoorLines, IsRuns, Fields, Goto
  <1>2. Settled  BY <1>1 DEF Settled, Arrived
  <1>3. ASSUME home' # NoFile \/ \E q \in Runs : run'[q].appending, NEW line \in DOMAIN home'
        PROVE  PoorLine(line)'
    <2>1. CASE home' = home  BY <1>1, <1>2, <1>3, <2>1, PoorStays DEF HasPoorLines
    <2>2. CASE home' = Created /\ home = NoFile
      BY <1>3, <2>2 DEF Created, EmptyBag, SetToBag
    <2>3. CASE home' = Created /\ home # NoFile
      BY <1>2, <1>3, <2>3, PoorStays DEF Created, HasPoorLines
    <2>. QED BY <2>1, <2>2, <2>3
  <1>4. ASSUME NEW q \in Runs
        PROVE  /\ run'[q].pc \in {"idle", "check", "touch", "open", "append"} => run'[q].filter \in 1 .. LastFilter
               /\ run'[q].pc \in {"idle", "check", "touch"} => ~run'[q].appending
               /\ run'[q].pc = "rename" => \A line \in DOMAIN run'[q].edited : PoorLine(line)'
               /\ \A line \in run'[q].printed : PoorLine(line)'
    <2>1. CASE q = r  BY <1>1, <1>2, <2>1, PoorStays DEF HasPoorLines
    <2>2. CASE q # r  BY <1>1, <1>2, <2>2, PoorStays DEF HasPoorLines
    <2>. QED BY <2>1, <2>2
  <1>. QED BY <1>1, <1>3, <1>4 DEF HasPoorLines

(* A step after which each line is one of before, or a poor one.            *)
LEMMA NothingElse ==
  ASSUME HasPoorLines, IsRuns(run'), Settled,
         home' # NoFile \/ (\E q \in Runs : run'[q].appending)
           => \A line \in DOMAIN home' : PoorLine(line)',
         \A q \in Runs :
           /\ run'[q].pc \in {"idle", "check", "touch", "open", "append"} => run'[q].filter \in 1 .. LastFilter
           /\ run'[q].pc \in {"idle", "check", "touch"} => ~run'[q].appending
           /\ run'[q].pc = "rename" => \A line \in DOMAIN run'[q].edited : PoorLine(line) \/ PoorLine(line)'
           /\ \A line \in run'[q].printed : PoorLine(line) \/ PoorLine(line)'
  PROVE  HasPoorLines'
  BY PoorStays DEF HasPoorLines

(* Start moves its run on, and changes the history of the others.           *)
LEMMA StartShows ==
  ASSUME HasPoorLines, NEW r \in Runs, Start(r)
  PROVE  HasPoorLines'
  <1>1. /\ IsRuns(run') /\ run[r].pc = "idle" /\ run'[r].pc = "check" /\ home' = home
        /\ \A q \in Runs : q # r => run'[q].pc = run[q].pc
        /\ \A q \in Runs : /\ run'[q].cwd = run[q].cwd /\ run'[q].filter = run[q].filter
                           /\ run'[q].appending = run[q].appending
                           /\ run'[q].edited = run[q].edited /\ run'[q].printed = run[q].printed
    BY DEF HasPoorLines, IsRuns, Fields, Start, At
  <1>2. Settled  BY <1>1 DEF Settled, Arrived
  <1>3. \A q \in Runs :
           /\ run'[q].pc \in {"idle", "check", "touch", "open", "append"} => run'[q].filter \in 1 .. LastFilter
           /\ run'[q].pc \in {"idle", "check", "touch"} => ~run'[q].appending
           /\ run'[q].pc = "rename" => \A line \in DOMAIN run'[q].edited : PoorLine(line)
           /\ \A line \in run'[q].printed : PoorLine(line)
    BY <1>1 DEF HasPoorLines
  <1>4. home' # NoFile \/ (\E q \in Runs : run'[q].appending) => \A line \in DOMAIN home' : PoorLine(line)
    BY <1>1 DEF HasPoorLines
  <1>. QED BY <1>1, <1>2, <1>3, <1>4, PoorStays, NothingElse

(* Enter is what makes a run arrive.                                        *)
LEMMA EnterShows ==
  ASSUME HasPoorLines, NEW r \in Runs, Enter(r)
  PROVE  HasPoorLines'
  <1>1. /\ IsRuns(run') /\ run[r].pc = "check" /\ run'[r].pc = "touch" /\ home' = home
        /\ \A q \in Runs : q # r => run'[q].pc = run[q].pc /\ run'[q].cwd = run[q].cwd
        /\ \A q \in Runs : /\ run'[q].filter = run[q].filter
                           /\ run'[q].appending = run[q].appending
                           /\ run'[q].edited = run[q].edited /\ run'[q].printed = run[q].printed
    BY DEF HasPoorLines, IsRuns, Fields, Enter, At
  <1>2. Settled  BY <1>1 DEF Settled, Arrived
  <1>3. \A q \in Runs :
           /\ run'[q].pc \in {"idle", "check", "touch", "open", "append"} => run'[q].filter \in 1 .. LastFilter
           /\ run'[q].pc \in {"idle", "check", "touch"} => ~run'[q].appending
           /\ run'[q].pc = "rename" => \A line \in DOMAIN run'[q].edited : PoorLine(line)
           /\ \A line \in run'[q].printed : PoorLine(line)
    BY <1>1 DEF HasPoorLines
  <1>4. home' # NoFile \/ (\E q \in Runs : run'[q].appending) => \A line \in DOMAIN home' : PoorLine(line)
    BY <1>1 DEF HasPoorLines
  <1>. QED BY <1>1, <1>2, <1>3, <1>4, PoorStays, NothingElse

(* Open makes the file, or takes the one that is there.                     *)
LEMMA OpenShows ==
  ASSUME HasPoorLines, NEW r \in Runs, Open(r)
  PROVE  HasPoorLines'
  <1>1. /\ IsRuns(run') /\ run[r].pc = "open" /\ run'[r].pc = "append" /\ home' = Created
        /\ \A q \in Runs : q # r => run'[q].pc = run[q].pc /\ run'[q].appending = run[q].appending
        /\ \A q \in Runs : /\ run'[q].cwd = run[q].cwd /\ run'[q].filter = run[q].filter
                           /\ run'[q].edited = run[q].edited /\ run'[q].printed = run[q].printed
    BY DEF HasPoorLines, IsRuns, Fields, Open, At
  <1>2. Settled  BY <1>1 DEF Settled, Arrived
  <1>3. \A q \in Runs :
           /\ run'[q].pc \in {"idle", "check", "touch", "open", "append"} => run'[q].filter \in 1 .. LastFilter
           /\ run'[q].pc \in {"idle", "check", "touch"} => ~run'[q].appending
           /\ run'[q].pc = "rename" => \A line \in DOMAIN run'[q].edited : PoorLine(line)
           /\ \A line \in run'[q].printed : PoorLine(line)
    BY <1>1 DEF HasPoorLines
  <1>4. \A line \in DOMAIN home' : PoorLine(line)
    <2>1. CASE home = NoFile  BY <1>1, <2>1 DEF Created, EmptyBag, SetToBag
    <2>2. CASE home # NoFile  BY <1>1, <2>2 DEF Created, HasPoorLines
    <2>. QED BY <2>1, <2>2
  <1>. QED BY <1>1, <1>2, <1>3, <1>4, PoorStays, NothingElse

(* A filter writes what it lists in the directory of its run.               *)
LEMMA AppendShows ==
  ASSUME HasPoorLines, NEW r \in Runs, AppendListed(r)
  PROVE  HasPoorLines'
  <1>. DEFINE names == IF run[r].cwd \in readable THEN Listing[run[r].cwd] ELSE {}
              listed == { Line(n) : n \in Listed(run[r].filter, names) }
  <1>1. /\ IsRuns(run') /\ run[r].pc = "append" /\ run'[r].appending = FALSE
        /\ run'[r].filter = run[r].filter + 1
        /\ run'[r].pc = IF run[r].filter < LastFilter THEN "open" ELSE "sed"
        /\ \A q \in Runs : q # r => /\ run'[q].pc = run[q].pc /\ run'[q].appending = run[q].appending
                                    /\ run'[q].filter = run[q].filter
        /\ \A q \in Runs : /\ run'[q].cwd = run[q].cwd
                           /\ run'[q].edited = run[q].edited /\ run'[q].printed = run[q].printed
        /\ home' = IF run[r].appending THEN home (+) SetToBag(listed) ELSE home
    BY DEF HasPoorLines, IsRuns, Fields, AppendListed, At
  <1>2. Settled  BY <1>1 DEF Settled, Arrived
  <1>3. ASSUME NEW line \in listed  PROVE PoorLine(line)
    <2>1. PICK n \in Listed(run[r].filter, names) : line = Line(n)  BY <1>3
    <2>2. n \in names /\ Breaks(n, names) # {}
      BY <1>1, ListedBreak DEF HasPoorLines
    <2>3. names = Listing[run[r].cwd]  BY <2>2
    <2>4. line.name = n /\ DOMAIN line = {"under", "name"}  BY <2>1 DEF Line
    <2>. QED BY <1>1, <2>2, <2>3, <2>4 DEF PoorLine, Arrived
  <1>. HIDE DEF listed
  <1>4. ASSUME home' # NoFile \/ \E q \in Runs : run'[q].appending, NEW line \in DOMAIN home'
        PROVE  PoorLine(line)
    <2>1. CASE run[r].appending
      <3>1. DOMAIN home' = DOMAIN home \cup listed  BY <1>1, <2>1 DEF (+), SetToBag
      <3>. QED BY <1>3, <1>4, <2>1, <3>1 DEF HasPoorLines
    <2>2. CASE ~run[r].appending
      BY <1>1, <1>4, <2>2 DEF HasPoorLines
    <2>. QED BY <2>1, <2>2
  <1>5. run'[r].pc = "open" => run'[r].filter \in 1 .. LastFilter
    <2>1. run[r].filter \in 1 .. LastFilter  BY <1>1 DEF HasPoorLines
    <2>. QED BY <1>1, <2>1 DEF LastFilter
  <1>6. \A q \in Runs :
           /\ run'[q].pc \in {"idle", "check", "touch", "open", "append"} => run'[q].filter \in 1 .. LastFilter
           /\ run'[q].pc \in {"idle", "check", "touch"} => ~run'[q].appending
           /\ run'[q].pc = "rename" => \A line \in DOMAIN run'[q].edited : PoorLine(line)
           /\ \A line \in run'[q].printed : PoorLine(line)
    BY <1>1, <1>5 DEF HasPoorLines
  <1>. QED BY <1>1, <1>2, <1>4, <1>6, PoorStays, NothingElse

(* sed puts the operand before each line of the file.                       *)
LEMMA SedReadsShows ==
  ASSUME HasPoorLines, NEW r \in Runs, SedReads(r)
  PROVE  HasPoorLines'
  <1>0. CASE home = NoFile
    <2>1. Goto(r, "sort") /\ home' = home  BY <1>0 DEF SedReads
    <2>. QED BY <2>1, GoesOn
  <1>1. CASE home # NoFile
    <2>1. /\ IsRuns(run') /\ run[r].pc = "sed" /\ run'[r].pc = "rename" /\ home' = home
          /\ \A q \in Runs : q # r => run'[q].pc = run[q].pc /\ run'[q].edited = run[q].edited
          /\ \A q \in Runs : /\ run'[q].cwd = run[q].cwd /\ run'[q].appending = run[q].appending
                             /\ run'[q].filter = run[q].filter /\ run'[q].printed = run[q].printed
          /\ DOMAIN run'[r].edited = { Under(Path(r), line) : line \in DOMAIN home }
      BY <1>1 DEF HasPoorLines, IsRuns, Fields, SedReads, At, Prefixed, BagToSet
    <2>2. Settled  BY <2>1 DEF Settled, Arrived
    <2>3. ASSUME NEW line \in DOMAIN run'[r].edited  PROVE PoorLine(line)
      <3>1. PICK l \in DOMAIN home : line = Under(Path(r), l)  BY <2>1, <2>3
      <3>2. PoorLine(l)  BY <1>1 DEF HasPoorLines
      <3>3. DOMAIN line = DOMAIN l /\ line.name = l.name  BY <3>1, <3>2 DEF Under, PoorLine
      <3>. QED BY <3>2, <3>3 DEF PoorLine
    <2>4. \A q \in Runs :
             /\ run'[q].pc \in {"idle", "check", "touch", "open", "append"} => run'[q].filter \in 1 .. LastFilter
             /\ run'[q].pc \in {"idle", "check", "touch"} => ~run'[q].appending
             /\ run'[q].pc = "rename" => \A line \in DOMAIN run'[q].edited : PoorLine(line)
             /\ \A line \in run'[q].printed : PoorLine(line)
      BY <2>1, <2>3 DEF HasPoorLines
    <2>5. home' # NoFile \/ (\E q \in Runs : run'[q].appending) => \A line \in DOMAIN home' : PoorLine(line)
      BY <2>1 DEF HasPoorLines
    <2>. QED BY <2>1, <2>2, <2>4, <2>5, PoorStays, NothingElse
  <1>. QED BY <1>0, <1>1

(* What it has made becomes the file; whoever had the old one open writes   *)
(* to nowhere.                                                              *)
LEMMA SedRenamesShows ==
  ASSUME HasPoorLines, NEW r \in Runs, SedRenames(r)
  PROVE  HasPoorLines'
  <1>1. /\ IsRuns(run') /\ run[r].pc = "rename" /\ run'[r].pc = "sort" /\ home' = run[r].edited
        /\ \A q \in Runs : q # r => run'[q].pc = run[q].pc /\ run'[q].edited = run[q].edited
        /\ \A q \in Runs : /\ run'[q].cwd = run[q].cwd /\ run'[q].appending = FALSE
                           /\ run'[q].filter = run[q].filter /\ run'[q].printed = run[q].printed
    BY DEF HasPoorLines, IsRuns, Fields, SedRenames, Detached, At
  <1>2. Settled  BY <1>1 DEF Settled, Arrived
  <1>3. \A q \in Runs :
           /\ run'[q].pc \in {"idle", "check", "touch", "open", "append"} => run'[q].filter \in 1 .. LastFilter
           /\ run'[q].pc \in {"idle", "check", "touch"} => ~run'[q].appending
           /\ run'[q].pc = "rename" => \A line \in DOMAIN run'[q].edited : PoorLine(line)
           /\ \A line \in run'[q].printed : PoorLine(line)
    BY <1>1 DEF HasPoorLines
  <1>4. \A line \in DOMAIN home' : PoorLine(line)  BY <1>1 DEF HasPoorLines
  <1>. QED BY <1>1, <1>2, <1>3, <1>4, PoorStays, NothingElse

(* What sort and uniq print are lines of the file.                          *)
LEMMA SortShows ==
  ASSUME HasPoorLines, NEW r \in Runs, Sort(r)
  PROVE  HasPoorLines'
  <1>1. /\ IsRuns(run') /\ run[r].pc = "sort" /\ run'[r].pc = "rm" /\ home' = home
        /\ run'[r].printed = IF home = NoFile THEN {} ELSE { l \in DOMAIN home : home[l] = 1 }
        /\ \A q \in Runs : q # r => run'[q].pc = run[q].pc /\ run'[q].printed = run[q].printed
        /\ \A q \in Runs : /\ run'[q].cwd = run[q].cwd /\ run'[q].appending = run[q].appending
                           /\ run'[q].filter = run[q].filter /\ run'[q].edited = run[q].edited
    BY DEF HasPoorLines, IsRuns, Fields, Sort, At, BagToSet
  <1>2. Settled  BY <1>1 DEF Settled, Arrived
  <1>3. \A q \in Runs :
           /\ run'[q].pc \in {"idle", "check", "touch", "open", "append"} => run'[q].filter \in 1 .. LastFilter
           /\ run'[q].pc \in {"idle", "check", "touch"} => ~run'[q].appending
           /\ run'[q].pc = "rename" => \A line \in DOMAIN run'[q].edited : PoorLine(line)
           /\ \A line \in run'[q].printed : PoorLine(line)
    BY <1>1 DEF HasPoorLines
  <1>4. home' # NoFile \/ (\E q \in Runs : run'[q].appending) => \A line \in DOMAIN home' : PoorLine(line)
    BY <1>1 DEF HasPoorLines
  <1>. QED BY <1>1, <1>2, <1>3, <1>4, PoorStays, NothingElse

(* Without the file there are the lines of the other runs.                  *)
LEMMA RemoveShows ==
  ASSUME HasPoorLines, NEW r \in Runs, RemoveFile(r)
  PROVE  HasPoorLines'
  <1>1. /\ IsRuns(run') /\ run[r].pc = "rm" /\ run'[r].pc = "done" /\ home' = NoFile
        /\ \A q \in Runs : q # r => run'[q].pc = run[q].pc
        /\ \A q \in Runs : /\ run'[q].cwd = run[q].cwd /\ run'[q].appending = FALSE
                           /\ run'[q].filter = run[q].filter /\ run'[q].edited = run[q].edited
                           /\ run'[q].printed = run[q].printed
    BY DEF HasPoorLines, IsRuns, Fields, RemoveFile, Removed, Detached, At
  <1>2. Settled  BY <1>1 DEF Settled, Arrived
  <1>3. \A q \in Runs :
           /\ run'[q].pc \in {"idle", "check", "touch", "open", "append"} => run'[q].filter \in 1 .. LastFilter
           /\ run'[q].pc \in {"idle", "check", "touch"} => ~run'[q].appending
           /\ run'[q].pc = "rename" => \A line \in DOMAIN run'[q].edited : PoorLine(line)
           /\ \A line \in run'[q].printed : PoorLine(line)
    BY <1>1 DEF HasPoorLines
  <1>. QED BY <1>1, <1>2, <1>3, PoorStays, NothingElse

(* A run that is killed has its file open no longer.                        *)
LEMMA KillShows ==
  ASSUME HasPoorLines, NEW r \in Runs, Kill(r)
  PROVE  HasPoorLines'
  <1>1. /\ IsRuns(run') /\ run'[r].pc = "killed" /\ home' = home /\ run'[r].appending = FALSE
        /\ \A q \in Runs : q # r => run'[q].pc = run[q].pc /\ run'[q].appending = run[q].appending
        /\ \A q \in Runs : /\ run'[q].cwd = run[q].cwd /\ run'[q].filter = run[q].filter
                           /\ run'[q].edited = run[q].edited /\ run'[q].printed = run[q].printed
    BY DEF HasPoorLines, IsRuns, Fields, Kill
  <1>2. Settled  BY <1>1 DEF Settled, Arrived
  <1>3. \A q \in Runs :
           /\ run'[q].pc \in {"idle", "check", "touch", "open", "append"} => run'[q].filter \in 1 .. LastFilter
           /\ run'[q].pc \in {"idle", "check", "touch"} => ~run'[q].appending
           /\ run'[q].pc = "rename" => \A line \in DOMAIN run'[q].edited : PoorLine(line)
           /\ \A line \in run'[q].printed : PoorLine(line)
    BY <1>1 DEF HasPoorLines
  <1>4. home' # NoFile \/ (\E q \in Runs : run'[q].appending) => \A line \in DOMAIN home' : PoorLine(line)
    BY <1>1 DEF HasPoorLines
  <1>. QED BY <1>1, <1>2, <1>3, <1>4, PoorStays, NothingElse

(* Every line anywhere names a poor file of a directory a run has gone to.  *)
THEOREM AlwaysPoorLines == Spec => []HasPoorLines
  <1>1. Init => HasPoorLines
    <2>. SUFFICES ASSUME Init  PROVE HasPoorLines
      OBVIOUS
    <2>1. home = NoFile /\ IsRuns(run)
          /\ \A r \in Runs : /\ run[r].pc = "idle" /\ run[r].filter = 1 /\ run[r].appending = FALSE
                             /\ run[r].printed = {}
      BY DEF Init, IsRuns, Fields
    <2>2. 1 \in 1 .. LastFilter  BY DEF LastFilter
    <2>. QED BY <2>1, <2>2 DEF HasPoorLines
  <1>2. HasPoorLines /\ [Next]_vars => HasPoorLines'
    <2>. SUFFICES ASSUME HasPoorLines, [Next]_vars  PROVE HasPoorLines'
      OBVIOUS
    <2>1. ASSUME NEW r \in Runs, Reject(r)  PROVE HasPoorLines'
      <3>1. Goto(r, "failed") /\ home' = home  BY <2>1 DEF Reject
      <3>. QED BY <3>1, GoesOn
    <2>2. ASSUME NEW r \in Runs, Touch(r)  PROVE HasPoorLines'
      <3>1. /\ Goto(r, "open") /\ home' = Created /\ run[r].filter \in 1 .. LastFilter
            /\ \A q \in Runs : run'[q].appending = run[q].appending
        BY <2>2 DEF Touch, At, Goto, HasPoorLines, IsRuns, Fields
      <3>. QED BY <3>1, GoesOn
    <2>3. CASE UNCHANGED vars
      <3>1. home' = home /\ run' = run  BY <2>3 DEF vars
      <3>2. IsRuns(run')  BY <3>1 DEF HasPoorLines
      <3>3. Settled  BY <3>1 DEF Settled, Arrived
      <3>4. \A q \in Runs :
               /\ run'[q].pc \in {"idle", "check", "touch", "open", "append"} => run'[q].filter \in 1 .. LastFilter
               /\ run'[q].pc \in {"idle", "check", "touch"} => ~run'[q].appending
               /\ run'[q].pc = "rename" => \A line \in DOMAIN run'[q].edited : PoorLine(line)
               /\ \A line \in run'[q].printed : PoorLine(line)
        BY <3>1 DEF HasPoorLines
      <3>5. home' # NoFile \/ (\E q \in Runs : run'[q].appending) => \A line \in DOMAIN home' : PoorLine(line)
        BY <3>1 DEF HasPoorLines
      <3>. QED BY <3>2, <3>3, <3>4, <3>5, PoorStays, NothingElse
    <2>. QED BY <2>1, <2>2, <2>3, StartShows, EnterShows, OpenShows, AppendShows, SedReadsShows,
                SedRenamesShows, SortShows, RemoveShows, KillShows DEF Next, Step
  <1>. QED BY <1>1, <1>2, PTL DEF Spec

(* However runs overlap or are killed, what is printed is the name of a     *)
(* file that breaks a guideline in the directory of some run.               *)
THEOREM AlwaysPrintsOnlyPoorNames == Spec => []PrintsOnlyPoorNames
  <1>1. HasPoorLines => PrintsOnlyPoorNames
    BY DEF HasPoorLines, PrintsOnlyPoorNames, PoorLine
  <1>. QED BY <1>1, AlwaysPoorLines, PTL
------------------------------------------------------------------------------
(***************************************************************************)
(* What a run prints that has ~/output.txt for itself.  Of a name counts   *)
(* how many of the filters before number k list it.                        *)
(***************************************************************************)
Hits(n, k, names) == { i \in 1 .. LastFilter : i < k /\ n \in Listed(i, names) }

(* The names that one of the filters before number k lists                  *)
HitNames(k, names) == { n \in names : Hits(n, k, names) # {} }

(* What these filters have put into the file                                *)
Collected(k, names) ==
  [ l \in { Line(n) : n \in HitNames(k, names) } |->
      Cardinality(Hits(l.name, k, names)) ]

NamesOf(r) == IF run[r].cwd \in readable THEN Listing[run[r].cwd] ELSE {}

Wanted(r) ==
  { Under(Path(r), Line(n)) : n \in { m \in NamesOf(r) : Cardinality(Hits(m, LastFilter + 1, NamesOf(r))) = 1 } }

All(r) == Collected(LastFilter + 1, NamesOf(r))

(* How far a run has come that has the file for itself                      *)
OnItsWay(r) ==
  /\ run[r].pc \in {"check", "touch"} => home = NoFile /\ run[r].filter = 1
  /\ run[r].pc \in {"open", "append"} =>
       run[r].filter \in 1 .. LastFilter /\ home = Collected(run[r].filter, NamesOf(r))
  /\ run[r].pc = "append" => run[r].appending
  /\ run[r].pc = "sed" => home = All(r)
  /\ run[r].pc = "rename" => run[r].edited = Prefixed(Path(r), All(r))
  /\ run[r].pc = "sort" => home = Prefixed(Path(r), All(r))
  /\ run[r].pc = "rm" => run[r].printed = Wanted(r)

Undisturbed(r) ==
  /\ \A q \in Runs \ {r} : ~ Active(q)
  /\ OnItsWay(r)

(* That is a run that no other was beside.                                  *)
HasItAlone ==
  /\ IsRuns(run)
  /\ \A r \in Runs :
       /\ run[r].pc = "idle" => run[r].filter = 1 /\ ~ run[r].alone
       /\ run[r].alone /\ Active(r) => Undisturbed(r)

(* Filters are few.                                                         *)
LEMMA HitsFinite ==
  ASSUME NEW n, NEW k \in Nat, NEW names
  PROVE  /\ IsFiniteSet(Hits(n, k, names))
         /\ Cardinality(Hits(n, k, names)) \in Nat
         /\ Cardinality(Hits(n, k, names)) = 0 <=> Hits(n, k, names) = {}
  <1>1. IsFiniteSet(1 .. LastFilter)
    <2>1. PICK a \in Int, b \in Int : a = 1 /\ b = LastFilter  BY DEF LastFilter
    <2>2. IsFiniteSet(a .. b)  BY FS_Interval
    <2>. QED BY <2>1, <2>2
  <1>2. Hits(n, k, names) \subseteq 1 .. LastFilter  BY DEF Hits
  <1>3. IsFiniteSet(Hits(n, k, names))  BY <1>1, <1>2, FS_Subset
  <1>. QED BY <1>3, FS_CardinalityType, FS_EmptySet

(* The next filter counts for the names that it lists.                      *)
LEMMA NextFilterHits ==
  ASSUME NEW n, NEW k \in 1 .. LastFilter, NEW names
  PROVE  /\ n \in Listed(k, names) =>
              Cardinality(Hits(n, k + 1, names)) = Cardinality(Hits(n, k, names)) + 1
         /\ n \notin Listed(k, names) => Hits(n, k + 1, names) = Hits(n, k, names)
  <1>0. k \in Nat  BY DEF LastFilter
  <1>1. \A i \in 1 .. LastFilter : i < k + 1 <=> i < k \/ i = k
    BY <1>0 DEF LastFilter
  <1>2. ASSUME n \in Listed(k, names)
        PROVE  Cardinality(Hits(n, k + 1, names)) = Cardinality(Hits(n, k, names)) + 1
    <2>1. Hits(n, k + 1, names) = Hits(n, k, names) \cup {k}  BY <1>1, <1>2 DEF Hits
    <2>2. k \notin Hits(n, k, names)  BY <1>0 DEF Hits
    <2>. QED BY <1>0, <2>1, <2>2, HitsFinite, FS_AddElement
  <1>3. ASSUME n \notin Listed(k, names)
        PROVE  Hits(n, k + 1, names) = Hits(n, k, names)
    BY <1>1, <1>3 DEF Hits
  <1>. QED BY <1>2, <1>3

(* Lines of different names differ, with and without a path.                *)
LEMMA LinesDiffer ==
  ASSUME NEW n, NEW path
  PROVE  Line(n).name = n /\ Under(path, Line(n)).name = n
  BY DEF Line, Under

(* A filter lists some of the names, and takes the file one filter on.      *)
LEMMA FilterCollects ==
  ASSUME NEW k \in 1 .. LastFilter, NEW names
  PROVE  Collected(k, names) (+) SetToBag({ Line(n) : n \in Listed(k, names) })
           = Collected(k + 1, names)
  <1>. DEFINE old == { Line(n) : n \in HitNames(k, names) }
              new == { Line(n) : n \in Listed(k, names) }
              both == { Line(n) : n \in HitNames(k + 1, names) }
  <1>0. k \in Nat /\ k + 1 \in Nat  BY DEF LastFilter
  <1>1. Listed(k, names) \subseteq names  BY ListedBreak
  <1>2. \A n : Hits(n, k + 1, names) # {} <=> Hits(n, k, names) # {} \/ n \in Listed(k, names)
    <2>. TAKE n
    <2>1. CASE n \in Listed(k, names)
      <3>1. Cardinality(Hits(n, k + 1, names)) # 0  BY <1>0, <2>1, NextFilterHits, HitsFinite
      <3>. QED BY <1>0, <2>1, <3>1, HitsFinite
    <2>2. CASE n \notin Listed(k, names)  BY <2>2, NextFilterHits
    <2>. QED BY <2>1, <2>2
  <1>3. both = old \cup new  BY <1>1, <1>2 DEF HitNames
  <1>4. ASSUME NEW l \in both
        PROVE  Cardinality(Hits(l.name, k + 1, names)) =
                 (IF l \in old THEN Cardinality(Hits(l.name, k, names)) ELSE 0) + (IF l \in new THEN 1 ELSE 0)
    <2>1. PICK n \in names : l = Line(n)  BY <1>4 DEF HitNames
    <2>2. l.name = n  BY <2>1, LinesDiffer
    <2>3. l \in old <=> Hits(n, k, names) # {}  BY <2>1, <2>2, LinesDiffer DEF HitNames
    <2>4. l \in new <=> n \in Listed(k, names)  BY <2>1, <2>2, LinesDiffer
    <2>5. (IF l \in old THEN Cardinality(Hits(n, k, names)) ELSE 0) = Cardinality(Hits(n, k, names))
      BY <1>0, <2>3, HitsFinite
    <2>6. Cardinality(Hits(n, k, names)) \in Nat  BY <1>0, HitsFinite
    <2>7. Cardinality(Hits(n, k + 1, names)) = Cardinality(Hits(n, k, names)) + (IF n \in Listed(k, names) THEN 1 ELSE 0)
      <3>1. CASE n \in Listed(k, names)  BY <3>1, NextFilterHits
      <3>2. CASE n \notin Listed(k, names)
        <4>1. Cardinality(Hits(n, k + 1, names)) = Cardinality(Hits(n, k, names))  BY <3>2, NextFilterHits
        <4>. QED BY <2>6, <3>2, <4>1
      <3>. QED BY <3>1, <3>2
    <2>. QED BY <2>2, <2>4, <2>5, <2>7
  <1>5. Collected(k, names) = [ l \in old |-> Cardinality(Hits(l.name, k, names)) ]  BY DEF Collected
  <1>6. Collected(k + 1, names) = [ l \in both |-> Cardinality(Hits(l.name, k + 1, names)) ]  BY DEF Collected
  <1>. HIDE DEF old, new, both
  <1>7. Collected(k, names) (+) SetToBag(new)
          = [ l \in old \cup new |-> (IF l \in old THEN Cardinality(Hits(l.name, k, names)) ELSE 0)
                                      + (IF l \in new THEN 1 ELSE 0) ]
    BY <1>5 DEF (+), SetToBag
  <1>8. Collected(k, names) (+) SetToBag(new) = Collected(k + 1, names)
    BY <1>3, <1>4, <1>6, <1>7
  <1>. QED BY <1>8 DEF new

(* Before the first filter there is nothing in the file.                    *)
LEMMA NothingCollected == \A names : Collected(1, names) = EmptyBag
  <1>. TAKE names
  <1>1. \A n : Hits(n, 1, names) = {}  BY DEF Hits, LastFilter
  <1>2. { Line(n) : n \in HitNames(1, names) } = {}  BY <1>1 DEF HitNames
  <1>. QED BY <1>2 DEF Collected, EmptyBag, SetToBag

(* What they have put there is a file.                                      *)
LEMMA CollectedBag ==
  ASSUME NEW k \in Nat, NEW names
  PROVE  IsABag(Collected(k, names))
  <1>1. ASSUME NEW l \in DOMAIN Collected(k, names)
        PROVE  Collected(k, names)[l] \in Nat /\ Collected(k, names)[l] > 0
    <2>1. PICK n \in names : Hits(n, k, names) # {} /\ l = Line(n)  BY <1>1 DEF Collected, HitNames
    <2>2. l.name = n  BY <2>1, LinesDiffer
    <2>3. Collected(k, names)[l] = Cardinality(Hits(n, k, names))  BY <1>1, <2>2 DEF Collected
    <2>. QED BY <2>1, <2>3, HitsFinite
  <1>2. Collected(k, names) = [ l \in DOMAIN Collected(k, names) |-> Collected(k, names)[l] ]  BY DEF Collected
  <1>. QED BY <1>1, <1>2 DEF IsABag

(* A path before the lines of a file changes no count, if no two of its     *)
(* lines have the same name.                                                *)
LEMMA PrefixedCollected ==
  ASSUME NEW path, NEW k \in Nat, NEW names
  PROVE  /\ DOMAIN Prefixed(path, Collected(k, names)) =
              { Under(path, Line(n)) : n \in HitNames(k, names) }
         /\ \A n \in HitNames(k, names) :
              Prefixed(path, Collected(k, names))[Under(path, Line(n))] = Cardinality(Hits(n, k, names))
         /\ IsABag(Prefixed(path, Collected(k, names)))
  <1>. DEFINE file == Collected(k, names)
              hit == HitNames(k, names)
  <1>1. DOMAIN file = { Line(n) : n \in hit }  BY DEF Collected
  <1>2. Prefixed(path, file) = [ l \in { Under(path, line) : line \in DOMAIN file } |->
                                   file[CHOOSE line \in DOMAIN file : Under(path, line) = l] ]
    BY DEF Prefixed, BagToSet
  <1>3. { Under(path, line) : line \in DOMAIN file } = { Under(path, Line(n)) : n \in hit }  BY <1>1
  <1>4. ASSUME NEW n \in hit
        PROVE  Prefixed(path, file)[Under(path, Line(n))] = Cardinality(Hits(n, k, names))
    <2>1. Line(n) \in DOMAIN file  BY <1>1
    <2>2. \A line \in DOMAIN file : Under(path, line) = Under(path, Line(n)) => line = Line(n)
      <3>. TAKE line \in DOMAIN file
      <3>1. PICK m \in hit : line = Line(m)  BY <1>1
      <3>. QED BY <3>1, LinesDiffer
    <2>3. (CHOOSE line \in DOMAIN file : Under(path, line) = Under(path, Line(n))) = Line(n)
      BY <2>1, <2>2
    <2>4. file[Line(n)] = Cardinality(Hits(n, k, names))  BY <2>1, LinesDiffer DEF Collected
    <2>5. Under(path, Line(n)) \in { Under(path, line) : line \in DOMAIN file }  BY <2>1
    <2>. HIDE DEF file
    <2>. QED BY <1>2, <2>3, <2>4, <2>5
  <1>5. DOMAIN Prefixed(path, file) = { Under(path, Line(n)) : n \in hit }
    <2>. HIDE DEF file, hit
    <2>. QED BY <1>2, <1>3
  <1>6. ASSUME NEW l \in DOMAIN Prefixed(path, file)
        PROVE  Prefixed(path, file)[l] \in Nat /\ Prefixed(path, file)[l] > 0
    <2>1. PICK n \in hit : l = Under(path, Line(n))  BY <1>5
    <2>2. Prefixed(path, file)[l] = Cardinality(Hits(n, k, names))  BY <1>4, <2>1
    <2>. QED BY <2>2, HitsFinite DEF HitNames
  <1>7. IsABag(Prefixed(path, file))
    <2>1. Prefixed(path, file) = [ l \in DOMAIN Prefixed(path, file) |-> Prefixed(path, file)[l] ]
      BY <1>2
    <2>. QED BY <1>6, <2>1 DEF IsABag
  <1>. QED BY <1>4, <1>5, <1>7

(* The lines that occur once are of the names that one filter lists.        *)
LEMMA PrintsWanted ==
  ASSUME NEW path, NEW names
  PROVE  { l \in DOMAIN Prefixed(path, Collected(LastFilter + 1, names)) :
             Prefixed(path, Collected(LastFilter + 1, names))[l] = 1 }
           = { Under(path, Line(n)) : n \in { m \in names : Cardinality(Hits(m, LastFilter + 1, names)) = 1 } }
  <1>. DEFINE file == Prefixed(path, Collected(LastFilter + 1, names))
              hit == HitNames(LastFilter + 1, names)
  <1>0. PICK k \in Nat : k = LastFilter + 1  BY DEF LastFilter
  <1>1. DOMAIN file = { Under(path, Line(n)) : n \in hit }
    <2>1. DOMAIN Prefixed(path, Collected(k, names)) = { Under(path, Line(n)) : n \in HitNames(k, names) }
      BY PrefixedCollected
    <2>. QED BY <1>0, <2>1
  <1>2. \A n \in hit : file[Under(path, Line(n))] = Cardinality(Hits(n, LastFilter + 1, names))
    <2>1. \A n \in HitNames(k, names) :
            Prefixed(path, Collected(k, names))[Under(path, Line(n))] = Cardinality(Hits(n, k, names))
      BY PrefixedCollected
    <2>. QED BY <1>0, <2>1
  <1>3. \A n \in names : Cardinality(Hits(n, LastFilter + 1, names)) = 1 => n \in hit
    BY <1>0, HitsFinite DEF HitNames
  <1>5. hit \subseteq names  BY DEF HitNames
  <1>. HIDE DEF file, hit
  <1>4. { l \in DOMAIN file : file[l] = 1 }
          = { Under(path, Line(n)) : n \in { m \in names : Cardinality(Hits(m, LastFilter + 1, names)) = 1 } }
    BY <1>1, <1>2, <1>3, <1>5
  <1>. QED BY <1>4 DEF file
(* A step of a run that is under way concerns no other that is alone.       *)
LEMMA OthersAside ==
  ASSUME HasItAlone, NEW r \in Runs, Active(r), IsRuns(run'),
         run'[r].pc # "idle", run'[r].alone = run[r].alone,
         \A q \in Runs : q # r => /\ run'[q].pc = run[q].pc /\ run'[q].filter = run[q].filter
                                  /\ run'[q].alone = run[q].alone,
         run[r].alone /\ Active(r)' => OnItsWay(r)'
  PROVE  HasItAlone'
  <1>1. ASSUME NEW q \in Runs, run'[q].alone, Active(q)'  PROVE Undisturbed(q)'
    <2>1. CASE q = r
      <3>1. \A p \in Runs \ {r} : ~ Active(p)  BY <1>1, <2>1 DEF HasItAlone, Undisturbed
      <3>. QED BY <1>1, <2>1, <3>1 DEF Undisturbed, Active
    <2>2. CASE q # r
      <3>1. run[q].alone /\ Active(q)  BY <1>1, <2>2 DEF Active
      <3>2. ~ Active(r)  BY <2>2, <3>1 DEF HasItAlone, Undisturbed
      <3>. QED BY <3>2
    <2>. QED BY <2>1, <2>2
  <1>2. ASSUME NEW q \in Runs, run'[q].pc = "idle"  PROVE run'[q].filter = 1 /\ ~ run'[q].alone
    BY <1>2 DEF HasItAlone
  <1>. QED BY <1>1, <1>2 DEF HasItAlone

(* What is of a run that is alone and at p                                  *)
LEMMA AloneAt ==
  ASSUME HasItAlone, NEW r \in Runs, Active(r), run[r].alone
  PROVE  OnItsWay(r)
  BY DEF HasItAlone, Undisturbed

(* A run that starts beside another, or on a file, is not alone, nor is the *)
(* other any longer.                                                        *)
LEMMA StartAlone ==
  ASSUME HasItAlone, NEW r \in Runs, Start(r)
  PROVE  HasItAlone'
  <1>1. /\ IsRuns(run') /\ run[r].pc = "idle" /\ run'[r].pc = "check" /\ home' = home
        /\ run'[r].filter = run[r].filter
        /\ \A q \in Runs : q # r => run'[q].pc = run[q].pc /\ run'[q].filter = run[q].filter
    BY DEF HasItAlone, IsRuns, Fields, Start, At
  <1>2. run'[r].alone => home = NoFile /\ \A p \in Runs : ~ Active(p)
    BY DEF HasItAlone, IsRuns, Fields, Start
  <1>3. \A q \in Runs : q # r => (run'[q].alone => run[q].alone /\ ~ Active(q))
    BY DEF HasItAlone, IsRuns, Fields, Start
  <1>4. ASSUME NEW q \in Runs, run'[q].alone, Active(q)'  PROVE Undisturbed(q)'
    <2>1. q = r  BY <1>1, <1>3, <1>4 DEF Active
    <2>2. \A p \in Runs \ {r} : ~ Active(p)'  BY <1>1, <1>2, <1>4, <2>1 DEF Active
    <2>3. OnItsWay(r)'  BY <1>1, <1>2, <1>4, <2>1 DEF OnItsWay, HasItAlone
    <2>. QED BY <2>1, <2>2, <2>3 DEF Undisturbed
  <1>5. ASSUME NEW q \in Runs, run'[q].pc = "idle"  PROVE run'[q].filter = 1 /\ ~ run'[q].alone
    BY <1>1, <1>3, <1>5 DEF HasItAlone
  <1>. QED BY <1>1, <1>4, <1>5 DEF HasItAlone

(* What a step of a run leaves as it is                                     *)
StaysOf(r) ==
  /\ IsRuns(run')
  /\ run'[r].alone = run[r].alone /\ run'[r].args = run[r].args
  /\ \A q \in Runs : q # r => /\ run'[q].pc = run[q].pc /\ run'[q].filter = run[q].filter
                              /\ run'[q].alone = run[q].alone

(* A run that ends, by itself or not, has nothing left to keep.             *)
LEMMA EndsAlone ==
  ASSUME HasItAlone, NEW r \in Runs, Reject(r) \/ RemoveFile(r) \/ Kill(r)
  PROVE  HasItAlone'
  <1>1. /\ Active(r) /\ StaysOf(r) /\ run'[r].pc \in Ended
    <2>1. CASE Reject(r)
      BY <2>1 DEF HasItAlone, IsRuns, Fields, StaysOf, Reject, Goto, At, Active, Ended
    <2>2. CASE RemoveFile(r)
      BY <2>2 DEF HasItAlone, IsRuns, Fields, StaysOf, RemoveFile, Detached, At, Active, Ended
    <2>3. CASE Kill(r)
      BY <2>3 DEF HasItAlone, IsRuns, Fields, StaysOf, Kill, Active, Ended
    <2>. QED BY <2>1, <2>2, <2>3
  <1>. QED BY <1>1, OthersAside DEF StaysOf, Active, Ended

(* cd leaves the file, which is not there.                                  *)
LEMMA EnterAlone ==
  ASSUME HasItAlone, NEW r \in Runs, Enter(r)
  PROVE  HasItAlone'
  <1>1. /\ StaysOf(r) /\ run[r].pc = "check" /\ run'[r].pc = "touch" /\ home' = home
        /\ run'[r].filter = run[r].filter
    BY DEF HasItAlone, IsRuns, Fields, StaysOf, Enter, At
  <1>2. Active(r)  BY <1>1 DEF Active, Ended
  <1>3. run[r].alone => OnItsWay(r)'  BY <1>1, <1>2, AloneAt DEF OnItsWay
  <1>. QED BY <1>1, <1>2, <1>3, OthersAside DEF StaysOf

(* touch makes an empty file.                                               *)
LEMMA TouchAlone ==
  ASSUME HasItAlone, NEW r \in Runs, Touch(r)
  PROVE  HasItAlone'
  <1>1. /\ StaysOf(r) /\ run[r].pc = "touch" /\ run'[r].pc = "open" /\ home' = Created
        /\ run'[r].filter = run[r].filter
    BY DEF HasItAlone, IsRuns, Fields, StaysOf, Touch, Goto, At
  <1>2. Active(r)  BY <1>1 DEF Active, Ended
  <1>3. ASSUME run[r].alone  PROVE OnItsWay(r)'
    <2>1. home = NoFile /\ run[r].filter = 1  BY <1>1, <1>2, <1>3, AloneAt DEF OnItsWay
    <2>2. home' = Collected(1, NamesOf(r)')  BY <1>1, <2>1, NothingCollected DEF Created
    <2>3. 1 \in 1 .. LastFilter  BY DEF LastFilter
    <2>. QED BY <1>1, <2>1, <2>2, <2>3 DEF OnItsWay
  <1>. QED BY <1>1, <1>2, <1>3, OthersAside DEF StaysOf

(* The shell opens the file that is there.                                  *)
LEMMA OpenAlone ==
  ASSUME ~ IsABag(NoFile), HasItAlone, NEW r \in Runs, Open(r)
  PROVE  HasItAlone'
  <1>1. /\ StaysOf(r) /\ run[r].pc = "open" /\ run'[r].pc = "append" /\ home' = Created
        /\ run'[r].filter = run[r].filter /\ run'[r].appending
        /\ run'[r].cwd = run[r].cwd /\ readable' = readable
    BY DEF HasItAlone, IsRuns, Fields, StaysOf, Open, At
  <1>2. Active(r)  BY <1>1 DEF Active, Ended
  <1>3. ASSUME run[r].alone  PROVE OnItsWay(r)'
    <2>1. run[r].filter \in 1 .. LastFilter /\ home = Collected(run[r].filter, NamesOf(r))
      BY <1>1, <1>2, <1>3, AloneAt DEF OnItsWay
    <2>2. home # NoFile
      <3>1. run[r].filter \in Nat  BY <2>1 DEF LastFilter
      <3>. QED BY <2>1, <3>1, CollectedBag
    <2>3. home' = home /\ NamesOf(r)' = NamesOf(r)  BY <1>1, <2>2 DEF Created, NamesOf
    <2>. QED BY <1>1, <2>1, <2>3 DEF OnItsWay
  <1>. QED BY <1>1, <1>2, <1>3, OthersAside DEF StaysOf

(* A filter adds what it lists.                                             *)
LEMMA AppendAlone ==
  ASSUME HasItAlone, NEW r \in Runs, AppendListed(r)
  PROVE  HasItAlone'
  <1>1. /\ StaysOf(r) /\ run[r].pc = "append"
        /\ run'[r].pc = IF run[r].filter < LastFilter THEN "open" ELSE "sed"
        /\ run'[r].filter = run[r].filter + 1
        /\ run'[r].cwd = run[r].cwd /\ readable' = readable
        /\ run[r].appending =>
             home' = home (+) SetToBag({ Line(n) : n \in Listed(run[r].filter, NamesOf(r)) })
    BY DEF HasItAlone, IsRuns, Fields, StaysOf, AppendListed, NamesOf, At
  <1>2. Active(r)  BY <1>1 DEF Active, Ended
  <1>3. ASSUME run[r].alone  PROVE OnItsWay(r)'
    <2>1. run[r].filter \in 1 .. LastFilter /\ home = Collected(run[r].filter, NamesOf(r)) /\ run[r].appending
      BY <1>1, <1>2, <1>3, AloneAt DEF OnItsWay
    <2>2. home' = Collected(run[r].filter + 1, NamesOf(r))  BY <1>1, <2>1, FilterCollects
    <2>3. NamesOf(r)' = NamesOf(r)  BY <1>1 DEF NamesOf
    <2>4. CASE run[r].filter < LastFilter
      <3>1. run[r].filter + 1 \in 1 .. LastFilter  BY <2>1, <2>4 DEF LastFilter
      <3>. QED BY <1>1, <2>2, <2>3, <2>4, <3>1 DEF OnItsWay
    <2>5. CASE ~ (run[r].filter < LastFilter)
      <3>1. run[r].filter = LastFilter  BY <2>1, <2>5 DEF LastFilter
      <3>. QED BY <1>1, <2>2, <2>3, <2>5, <3>1 DEF OnItsWay, All
    <2>. QED BY <2>4, <2>5
  <1>. QED BY <1>1, <1>2, <1>3, OthersAside DEF StaysOf

(* sed finds a file, and writes what is in it under the path.               *)
LEMMA SedReadsAlone ==
  ASSUME ~ IsABag(NoFile), HasItAlone, NEW r \in Runs, SedReads(r)
  PROVE  HasItAlone'
  <1>1. /\ StaysOf(r) /\ run[r].pc = "sed" /\ run'[r].pc \in {"rename", "sort"} /\ home' = home
        /\ run'[r].cwd = run[r].cwd /\ readable' = readable
        /\ home # NoFile => run'[r].pc = "rename" /\ run'[r].edited = Prefixed(Path(r), home)
    <2>1. CASE home = NoFile
      BY <2>1 DEF HasItAlone, IsRuns, Fields, StaysOf, SedReads, Goto, At
    <2>2. CASE home # NoFile
      BY <2>2 DEF HasItAlone, IsRuns, Fields, StaysOf, SedReads, At
    <2>. QED BY <2>1, <2>2
  <1>2. Active(r)  BY <1>1 DEF Active, Ended
  <1>3. ASSUME run[r].alone  PROVE OnItsWay(r)'
    <2>1. home = All(r)  BY <1>1, <1>2, <1>3, AloneAt DEF OnItsWay
    <2>2. home # NoFile
      <3>1. LastFilter + 1 \in Nat  BY DEF LastFilter
      <3>. QED BY <2>1, <3>1, CollectedBag DEF All
    <2>3. Path(r)' = Path(r) /\ All(r)' = All(r)  BY <1>1 DEF StaysOf, Path, All, NamesOf
    <2>. QED BY <1>1, <2>1, <2>2, <2>3 DEF OnItsWay
  <1>. QED BY <1>1, <1>2, <1>3, OthersAside DEF StaysOf

(* and it puts that in its place.                                           *)
LEMMA SedRenamesAlone ==
  ASSUME HasItAlone, NEW r \in Runs, SedRenames(r)
  PROVE  HasItAlone'
  <1>1. /\ StaysOf(r) /\ run[r].pc = "rename" /\ run'[r].pc = "sort" /\ home' = run[r].edited
        /\ run'[r].cwd = run[r].cwd /\ readable' = readable
    BY DEF HasItAlone, IsRuns, Fields, StaysOf, SedRenames, Detached, At
  <1>2. Active(r)  BY <1>1 DEF Active, Ended
  <1>3. ASSUME run[r].alone  PROVE OnItsWay(r)'
    <2>1. run[r].edited = Prefixed(Path(r), All(r))  BY <1>1, <1>2, <1>3, AloneAt DEF OnItsWay
    <2>2. Path(r)' = Path(r) /\ All(r)' = All(r)  BY <1>1 DEF StaysOf, Path, All, NamesOf
    <2>. QED BY <1>1, <2>1, <2>2 DEF OnItsWay
  <1>. QED BY <1>1, <1>2, <1>3, OthersAside DEF StaysOf

(* sort and uniq find the lines of all filters.                             *)
LEMMA SortAlone ==
  ASSUME ~ IsABag(NoFile), HasItAlone, NEW r \in Runs, Sort(r)
  PROVE  HasItAlone'
  <1>1. /\ StaysOf(r) /\ run[r].pc = "sort" /\ run'[r].pc = "rm"
        /\ run'[r].printed = IF home = NoFile THEN {} ELSE { l \in DOMAIN home : home[l] = 1 }
        /\ run'[r].cwd = run[r].cwd /\ readable' = readable
    BY DEF HasItAlone, IsRuns, Fields, StaysOf, Sort, BagToSet, At
  <1>2. Active(r)  BY <1>1 DEF Active, Ended
  <1>3. ASSUME run[r].alone  PROVE OnItsWay(r)'
    <2>1. home = Prefixed(Path(r), All(r))  BY <1>1, <1>2, <1>3, AloneAt DEF OnItsWay
    <2>2. home # NoFile
      <3>1. LastFilter + 1 \in Nat  BY DEF LastFilter
      <3>. QED BY <2>1, <3>1, PrefixedCollected DEF All
    <2>3. { l \in DOMAIN home : home[l] = 1 } = Wanted(r)  BY <2>1, PrintsWanted DEF All, Wanted
    <2>4. Wanted(r)' = Wanted(r)  BY <1>1 DEF StaysOf, Path, Wanted, NamesOf
    <2>. QED BY <1>1, <2>2, <2>3, <2>4 DEF OnItsWay
  <1>. QED BY <1>1, <1>2, <1>3, OthersAside DEF StaysOf

(* A run with no other beside it has the file for itself, at each step, if  *)
(* that there is no file can be told from a file.                           *)
THEOREM AlwaysHasItAlone == ~ IsABag(NoFile) => (Spec => []HasItAlone)
  <1>. SUFFICES ASSUME ~ IsABag(NoFile)  PROVE Spec => []HasItAlone
    OBVIOUS
  <1>1. Init => HasItAlone
    BY DEF Init, HasItAlone, IsRuns, Fields, Active
  <1>2. HasItAlone /\ [Next]_vars => HasItAlone'
    <2>. SUFFICES ASSUME HasItAlone, [Next]_vars  PROVE HasItAlone'
      OBVIOUS
    <2>1. CASE UNCHANGED vars
      <3>1. home' = home /\ run' = run /\ readable' = readable  BY <2>1 DEF vars
      <3>. QED BY <3>1 DEF HasItAlone, IsRuns, Active, Undisturbed, OnItsWay, NamesOf, All, Path, Wanted
    <2>. QED BY <2>1, StartAlone, EndsAlone, EnterAlone, TouchAlone, OpenAlone, AppendAlone,
                SedReadsAlone, SedRenamesAlone, SortAlone DEF Next, Step
  <1>. QED BY <1>1, <1>2, PTL DEF Spec

(* What a run that starts without a file and has no other run beside it     *)
(* has printed when it comes to rm is, of the directory it is in, the names *)
(* that exactly one filter lists, under its operand.                        *)
THEOREM AlwaysPrintsWhatOneFilterLists ==
  ~ IsABag(NoFile) => (Spec => []PrintsWhatOneFilterLists)
  <1>. SUFFICES ASSUME ~ IsABag(NoFile)  PROVE Spec => []PrintsWhatOneFilterLists
    OBVIOUS
  <1>1. HasItAlone => PrintsWhatOneFilterLists
    <2>. SUFFICES ASSUME HasItAlone, NEW r \in Runs, At(r, "rm"), run[r].alone
                  PROVE  run[r].printed =
                           { Under(Path(r), Line(n)) :
                               n \in { m \in Listing[run[r].cwd] : run[r].cwd \in readable
                                                               /\ Faults(m, Listing[run[r].cwd]) = 1 } }
      BY DEF PrintsWhatOneFilterLists
    <2>1. run[r].printed = Wanted(r)  BY AloneAt DEF At, Active, Ended, OnItsWay
    <2>2. \A n, names : Hits(n, LastFilter + 1, names) = { i \in 1 .. 6 : n \in Listed(i, names) }
      BY DEF Hits, LastFilter
    <2>3. \A n, names : Cardinality(Hits(n, LastFilter + 1, names)) = Faults(n, names)
      BY <2>2 DEF Faults
    <2>4. CASE run[r].cwd \in readable  BY <2>1, <2>3, <2>4 DEF Wanted, NamesOf
    <2>5. CASE run[r].cwd \notin readable  BY <2>1, <2>5 DEF Wanted, NamesOf
    <2>. QED BY <2>4, <2>5
  <1>2. Spec => []HasItAlone  BY AlwaysHasItAlone
  <1>. QED BY <1>1, <1>2, PTL
==============================================================================
