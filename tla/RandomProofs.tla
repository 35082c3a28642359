----------------------------- MODULE RandomProofs -----------------------------
(***************************************************************************)
(* What holds of the programs with random output for every size of word    *)
(* and buffer, every argument, file, range and count.                      *)
(***************************************************************************)
EXTENDS MCRandom, SequenceTheorems, FiniteSetTheorems, TLAPS

(* What holds before the loop and after it                                  *)
Quiet ==
  /\ argument \in Int /\ supported \in BOOLEAN
  /\ pc \notin {"library", "word", "digits", "newline", "close", "abort"} => buffer = <<>>
  /\ pc = "library" => buffer = <<>> /\ argument > 0
  /\ pc = "start" => ~ loaded
  /\ ~ loaded => stream # "open"
  /\ pc \in {"exit 0", "exit 1"} => ~ loaded
  /\ stream # "none" => ~ supported /\ argument > 0

(* argument stays what it was                                               *)
LEMMA LoopKeeps ==
  ASSUME Loop PROVE argument' = argument
  BY DEF Loop, StartWord, PutDigit, PutNewline, PutError, CloseOk, CloseError

(* The loop goes on at one of its own places, or has ended with an empty    *)
(* buffer.                                                                  *)
LEMMA LoopStays ==
  ASSUME Loop
  PROVE  pc' \in {"word", "digits", "newline", "close"} \/ (pc' = "report" /\ buffer' = <<>>)
  BY DEF Loop, StartWord, PutDigit, PutNewline, PutError, AfterFailure, CloseOk, CloseError

(* Outside the loop the buffer is empty; a stream that is open belongs to a *)
(* loaded library.                                                          *)
LEMMA QuietStays ==
  ASSUME Quiet, [Next]_vars PROVE Quiet'
  <1> USE DEF Quiet
  <1>1. CASE Check
    BY <1>1 DEF Check, CheckArgument
  <1>2. CASE OpenLibrary
    BY <1>2 DEF OpenLibrary, loopVars
  <1>3. CASE FindSymbol
    BY <1>3 DEF FindSymbol, Goto
  <1>4. CASE RunLoop
    BY <1>4, LoopKeeps, LoopStays DEF RunLoop
  <1>5. CASE Report
    BY <1>5 DEF Report, Goto, Unload, Status
  <1>6. CASE ConstructorAborts
    BY <1>6 DEF ConstructorAborts, Goto
  <1>7. CASE NoLibrary
    BY <1>7 DEF NoLibrary, Goto
  <1>8. CASE NoSymbol
    BY <1>8 DEF NoSymbol, Goto, Unload
  <1>9. CASE ReadAborts
    BY <1>9 DEF ReadAborts, Goto
  <1>10. CASE UNCHANGED vars
    BY <1>10 DEF vars, loopVars
  <1> QED
    BY <1>1, <1>2, <1>3, <1>4, <1>5, <1>6, <1>7, <1>8, <1>9, <1>10
    DEF Next, Steps, Errors

(* So it is in every run of randmain.                                       *)
THEOREM AlwaysQuiet == Spec => []Quiet
  <1>1. Init => Quiet
    BY SizeAssumption DEF Init, LoopInit, Quiet
  <1> QED BY <1>1, QuietStays, PTL DEF Spec

(* /dev/urandom is opened only if rdrand is missing and there is work to    *)
(* do; on every way out but abort it is closed, and the buffer is empty.    *)
THEOREM AlwaysLeavesNothingOpen == Spec => []LeavesNothingOpen
  <1>1. Quiet => LeavesNothingOpen
    BY DEF Quiet, LeavesNothingOpen
  <1> QED BY <1>1, AlwaysQuiet, PTL
------------------------------------------------------------------------------
(* randall's loop is randmain's.                                            *)
LEMMA SameLoop == All!Loop <=> Loop
  BY DEF All!Loop, Loop, All!StartWord, StartWord, All!PutDigit, PutDigit, All!PutNewline,
         PutNewline, All!PutError, PutError, All!CloseOk, CloseOk, All!CloseError, CloseError,
         All!PutOk, PutOk, All!PutFails, PutFails, All!Outbytes, Outbytes, All!Errno, Errno,
         All!AfterFailure, AfterFailure, All!KeptErrno, KeptErrno, All!CloseErrno, CloseErrno,
         All!Min, Min

(* randall opens /dev/urandom before the loop and closes it after it.       *)
AllQuiet ==
  /\ argument \in Int /\ supported \in BOOLEAN /\ ~ loaded
  /\ pc \notin {"word", "digits", "newline", "close", "abort"} => buffer = <<>>
  /\ pc = "library" => argument > 0
  /\ pc \in {"start", "library"} => stream = "none"
  /\ pc \in {"exit 0", "exit 1"} => stream # "open"
  /\ stream # "none" => ~ supported /\ argument > 0
  /\ ~ supported /\ pc \in {"word", "digits", "newline", "close", "report"} => argument > 0

(* So it goes on.                                                           *)
LEMMA AllQuietStays ==
  ASSUME AllQuiet, All!Next, loaded' = loaded PROVE AllQuiet'
  <1> USE DEF AllQuiet
  <1>1. CASE All!Check
    BY <1>1 DEF All!Check, All!CheckArgument
  <1>2. CASE All!Initialize
    BY <1>2 DEF All!Initialize, All!Goto
  <1>5. CASE All!InitializeAborts \/ All!ReadAborts
    <2>1. /\ pc' = "abort" /\ argument' = argument /\ supported' = supported
          /\ stream' = stream
      BY <1>5 DEF All!InitializeAborts, All!ReadAborts, All!Goto
    <2> QED BY <2>1
  <1>3. CASE All!RunLoop
    <2>1. Loop /\ UNCHANGED <<supported, stream>>
      BY <1>3, SameLoop DEF All!RunLoop
    <2>2. pc \in {"word", "digits", "newline", "close"}
      BY <2>1 DEF Loop, StartWord, PutDigit, PutNewline, PutError, CloseOk, CloseError
    <2> QED BY <2>1, <2>2, LoopKeeps, LoopStays
  <1>4. CASE All!Report
    BY <1>4 DEF All!Report, All!Goto, All!Status, All!Finalized
  <1> QED BY <1>1, <1>2, <1>3, <1>4, <1>5 DEF All!Next, All!Steps, All!Errors

(* shuf is never where they end.                                            *)
LEMMA ShufEndsElsewhere ==
  ASSUME pc \notin Ended, S!Steps \/ S!FileChanges PROVE pc' \notin Ended
  <1>1. pc' \in {"length", "count", "read", "choose", "done", "error", "traceback"}
        \/ pc' = pc
    BY DEF S!Steps, S!FileChanges, S!Open, S!NoFile, S!GetRange, S!NoRange, S!GetCount,
           S!NoCount, S!RangeTooSmall, S!Read, S!FileGone, S!Choose, S!ChooseError,
           S!EndRound, S!Finish, S!Stop
  <1> QED BY <1>1 DEF Ended

(* What is known of the one that runs                                       *)
MCQuiet ==
  /\ program = "randmain" => Quiet
  /\ program = "randall" => AllQuiet
  /\ program = "shuf" => stream = "none" /\ pc \notin Ended
  /\ program \in {"randmain", "randall", "shuf"}

(* And it goes on, whichever it is.                                         *)
LEMMA MCQuietStays ==
  ASSUME MCQuiet, [MCNext]_MCVars PROVE MCQuiet'
  <1> USE DEF MCQuiet
  <1>1. CASE RandMainSteps \/ RandMainErrors
    BY <1>1, QuietStays DEF RandMainSteps, RandMainErrors, Next
  <1>2. CASE RandAllSteps \/ RandAllErrors
    BY <1>2, AllQuietStays DEF RandAllSteps, RandAllErrors, All!Next
  <1>3. CASE ShufSteps \/ FileChanges
    BY <1>3, ShufEndsElsewhere DEF ShufSteps, FileChanges, randvars
  <1>4. CASE UNCHANGED MCVars
    <2>1. UNCHANGED vars /\ program' = program
      BY <1>4 DEF MCVars
    <2>2. program = "randmain" => Quiet'
      BY <2>1, QuietStays
    <2>3. program = "randall" => AllQuiet'
      BY <2>1 DEF vars, loopVars, AllQuiet
    <2> QED BY <2>1, <2>2, <2>3 DEF vars, loopVars
  <1> QED BY <1>1, <1>2, <1>3, <1>4 DEF MCNext, AllSteps

(* Whichever of the programs runs, nothing is left open or unwritten.       *)
THEOREM AllLeaveNothingOpen == MCSpec => []LeavesNothingOpen
  <1>1. MCInit => MCQuiet
    BY SizeAssumption
    DEF MCInit, Init, LoopInit, S!Init, RandIdle, MCQuiet, Quiet, AllQuiet, Ended
  <1>2. MCQuiet => LeavesNothingOpen
    BY DEF MCQuiet, Quiet, AllQuiet, LeavesNothingOpen, Ended
  <1> QED BY <1>1, <1>2, MCQuietStays, PTL DEF MCSpec
------------------------------------------------------------------------------
(***************************************************************************)
(* How far the loop has come: so many words are done, the next is begun.   *)
(***************************************************************************)
Characters == {"digit", "newline"}
Line == 2 * WordSize + 1
Goal == Promise!Wanted(Promise!Size(argument))
Put  == Len(device) + Len(buffer)

LoopTypes ==
  /\ argument \in Int /\ nbytes \in Int /\ ndigits \in Nat
  /\ output_errno \in {0, Errno}
  /\ device \in Seq(Characters)
  /\ buffer \in Seq(Characters) /\ Len(buffer) <= BufferSize

(* Where a sequence is found in another, after its first characters         *)
Begins(s, from, g) ==
  from + Len(s) <= Len(g) /\ \A i \in 1..Len(s) : s[i] = g[from + i]

(* What is out and what stdio holds are the beginning of what is wanted.    *)
OutSoFar == Begins(device, 0, Goal) /\ Begins(buffer, Len(device), Goal)

WordsDone(w) ==
  /\ nbytes > 0
  /\ argument = w * WordSize + nbytes
  /\ Put = w * Line + (IF pc = "word" THEN 0 ELSE 2 * Outbytes - ndigits)

LoopPlace ==
  /\ pc \in {"start", "library"} => device = <<>> /\ buffer = <<>> /\ output_errno = 0
  /\ pc = "library" => nbytes = argument /\ argument > 0
  /\ pc \in {"word", "digits", "newline"} => output_errno = 0 /\ \E w \in Nat : WordsDone(w)
  /\ pc = "digits" => ndigits \in 1..(2 * Outbytes)
  /\ pc = "newline" => ndigits = 0
  /\ pc \in {"close", "report"} => (output_errno = 0 => argument > 0 /\ Put = Len(Goal))
  /\ pc = "report" => buffer = <<>>
------------------------------------------------------------------------------
(* What is out of the wanted n bytes: their words, and all characters.      *)
Words(n) == (n + WordSize - 1) \div WordSize
Whole(n) == 2 * n + Words(n)
Due(n, i) == IF i % Line = 0 \/ i = Whole(n) THEN "newline" ELSE "digit"

(* Multiplication is monotone.                                              *)
LEMMA Monotone ==
  ASSUME NEW u \in Int, NEW v \in Int, NEW c \in Nat, u <= v
  PROVE  u * c <= v * c /\ u * c \in Int /\ v * c \in Int
  OBVIOUS

(* Quotient and remainder are the only ones.                                *)
LEMMA Quotient ==
  ASSUME NEW q \in Int, NEW d \in Nat \ {0}, NEW r \in 0..(d - 1)
  PROVE  (q * d + r) \div d = q /\ (q * d + r) % d = r
  <1>1. PICK a \in Int : a = q * d + r
    OBVIOUS
  <1>2. PICK k \in Int, m \in 0..(d - 1) : a \div d = k /\ a % d = m /\ a = k * d + m
    BY <1>1
  <1>3. k * d - q * d = r - m /\ k * d \in Int /\ q * d \in Int
    BY <1>1, <1>2
  <1>4. ~ k >= q + 1
    <2>1. SUFFICES ASSUME k >= q + 1 PROVE FALSE
      OBVIOUS
    <2>2. (q + 1) * d <= k * d
      BY <2>1, Monotone
    <2>3. (q + 1) * d = q * d + d
      OBVIOUS
    <2> QED BY <1>2, <1>3, <2>2, <2>3
  <1>5. ~ q >= k + 1
    <2>1. SUFFICES ASSUME q >= k + 1 PROVE FALSE
      OBVIOUS
    <2>2. (k + 1) * d <= q * d
      BY <2>1, Monotone
    <2>3. (k + 1) * d = k * d + d
      OBVIOUS
    <2> QED BY <1>2, <1>3, <2>2, <2>3
  <1>6. k = q
    BY <1>4, <1>5
  <1> QED BY <1>1, <1>2, <1>3, <1>6

(* With w words done and nb bytes left there are more than w words, and the *)
(* next is the last one if it takes all of them.                            *)
LEMMA WordsLeft ==
  ASSUME NEW w \in Nat, NEW nb \in Nat \ {0}
  PROVE  /\ Words(w * WordSize + nb) \in Int
         /\ Words(w * WordSize + nb) >= w + 1
         /\ nb <= WordSize => Words(w * WordSize + nb) = w + 1
  <1> USE SizeAssumption
  <1>1. PICK q \in Nat, r \in 0..(WordSize - 1) : nb - 1 = q * WordSize + r
    <2>1. nb - 1 = ((nb - 1) \div WordSize) * WordSize + ((nb - 1) % WordSize)
      OBVIOUS
    <2> QED BY <2>1
  <1>2. w * WordSize + nb + WordSize - 1 = (w + q + 1) * WordSize + r
    BY <1>1
  <1>3. Words(w * WordSize + nb) = w + q + 1
    BY <1>2, Quotient DEF Words
  <1>4. nb <= WordSize => q = 0
    <2>1. SUFFICES ASSUME nb <= WordSize, q >= 1 PROVE FALSE
      OBVIOUS
    <2>2. 1 * WordSize <= q * WordSize
      BY <2>1, Monotone
    <2> QED BY <1>1, <2>1, <2>2
  <1> QED BY <1>3, <1>4

(* What is wanted, character by character                                   *)
LEMMA WantedIs ==
  ASSUME NEW n \in Nat
  PROVE  /\ Promise!Wanted(n) = [i \in 1..Whole(n) |-> Due(n, i)]
         /\ Whole(n) \in Nat
         /\ Promise!Wanted(n) \in Seq(Characters)
         /\ Len(Promise!Wanted(n)) = Whole(n)
  <1>1. Promise!Wanted(n) = [i \in 1..Whole(n) |-> Due(n, i)]
    BY DEF Promise!Wanted, Whole, Words, Due, Line
  <1>2. Words(n) \in Nat
    BY SizeAssumption DEF Words
  <1>3. Whole(n) \in Nat
    BY <1>2 DEF Whole
  <1>4. \A i : Due(n, i) \in Characters
    BY DEF Due, Characters
  <1> QED BY <1>1, <1>3, <1>4

(* The least of two numbers                                                 *)
LEMMA OutbytesIs ==
  ASSUME nbytes \in Int
  PROVE  Outbytes = IF nbytes <= WordSize THEN nbytes ELSE WordSize
  BY SizeAssumption DEF Outbytes, Min

(* A digit is due in the middle of a word.                                  *)
LEMMA DigitDue ==
  ASSUME NEW w \in Nat, NEW nb \in Nat \ {0}, NEW r \in Nat \ {0},
         r <= 2 * nb, r <= 2 * WordSize
  PROVE  /\ w * Line + r < Whole(w * WordSize + nb)
         /\ Due(w * WordSize + nb, w * Line + r) = "digit"
  <1>1. (w * Line + r) % Line = r
    BY Quotient, SizeAssumption DEF Line
  <1>2. w * Line = 2 * (w * WordSize) + w
    BY SizeAssumption DEF Line
  <1>3. w * WordSize \in Int
    BY SizeAssumption
  <1>4. w * Line + r < Whole(w * WordSize + nb)
    BY <1>2, <1>3, WordsLeft DEF Whole
  <1> QED BY <1>1, <1>4, <1>2, <1>3 DEF Due

(* A newline is due at the end of one.                                      *)
LEMMA NewlineDue ==
  ASSUME NEW w \in Nat, NEW nb \in Nat \ {0}
  PROVE  /\ nb > WordSize =>
              /\ (w + 1) * Line < Whole(w * WordSize + nb)
              /\ Due(w * WordSize + nb, (w + 1) * Line) = "newline"
         /\ nb <= WordSize =>
              /\ w * Line + 2 * nb + 1 = Whole(w * WordSize + nb)
              /\ Due(w * WordSize + nb, w * Line + 2 * nb + 1) = "newline"
  <1>1. ((w + 1) * Line) % Line = 0
    <2>1. PICK zero \in 0..(Line - 1) : zero = 0
      BY SizeAssumption DEF Line
    <2>2. ((w + 1) * Line + zero) % Line = zero
      BY Quotient, SizeAssumption DEF Line
    <2>3. (w + 1) * Line + zero = (w + 1) * Line
      BY <2>1, SizeAssumption DEF Line
    <2> QED BY <2>1, <2>2, <2>3
  <1>2. w * Line = 2 * (w * WordSize) + w /\ (w + 1) * Line = w * Line + 2 * WordSize + 1
    BY SizeAssumption DEF Line
  <1>3. w * WordSize \in Int
    BY SizeAssumption
  <1>4. nb > WordSize => (w + 1) * Line < Whole(w * WordSize + nb)
    <2>1. Words(w * WordSize + nb) \in Int /\ Words(w * WordSize + nb) >= w + 1
      BY WordsLeft
    <2>2. nb > WordSize => 2 * nb > 2 * WordSize
      BY SizeAssumption
    <2>3. Whole(w * WordSize + nb) = 2 * (w * WordSize) + 2 * nb + Words(w * WordSize + nb)
      BY <1>3, <2>1 DEF Whole
    <2>4. (w + 1) * Line = 2 * (w * WordSize) + w + 2 * WordSize + 1
      BY <1>2, <1>3, SizeAssumption DEF Line
    <2> QED BY <1>3, <2>1, <2>2, <2>3, <2>4, SizeAssumption
  <1>5. nb <= WordSize => w * Line + 2 * nb + 1 = Whole(w * WordSize + nb)
    BY <1>2, <1>3, WordsLeft DEF Whole
  <1> QED BY <1>1, <1>4, <1>5 DEF Due
------------------------------------------------------------------------------
(* The first characters of a sequence                                       *)
LEMMA FirstOf ==
  ASSUME NEW s \in Seq(Characters), NEW n \in 0..Len(s)
  PROVE  /\ SubSeq(s, 1, n) \in Seq(Characters) /\ Len(SubSeq(s, 1, n)) = n
         /\ \A i \in 1..n : SubSeq(s, 1, n)[i] = s[i]
  <1>1. PICK one \in Int : one = 1
    OBVIOUS
  <1>2. n \in Int /\ \A i \in one..n : s[i] \in Characters
    BY <1>1, ElementOfSeq
  <1>3. /\ SubSeq(s, one, n) \in Seq(Characters)
        /\ Len(SubSeq(s, one, n)) = IF one <= n THEN n - one + 1 ELSE 0
        /\ \A i \in 1..(n - one + 1) : SubSeq(s, one, n)[i] = s[one + i - 1]
    BY <1>2, SubSeqProperties
  <1>4. n \in Nat /\ n - one + 1 = n /\ \A i \in 1..n : one + i - 1 = i
    BY <1>1, <1>2
  <1> QED BY <1>1, <1>3, <1>4

(* What stdio holds follows what is out; the first part of it goes out.     *)
LEMMA SomeOut ==
  ASSUME NEW d \in Seq(Characters), NEW b \in Seq(Characters), NEW g \in Seq(Characters),
         Begins(d, 0, g), Begins(b, Len(d), g), NEW n \in 0..Len(b)
  PROVE  /\ d \o SubSeq(b, 1, n) \in Seq(Characters)
         /\ Len(d \o SubSeq(b, 1, n)) = Len(d) + n
         /\ Begins(d \o SubSeq(b, 1, n), 0, g)
  <1>1. PICK t \in Seq(Characters) :
          t = SubSeq(b, 1, n) /\ Len(t) = n /\ \A i \in 1..n : t[i] = b[i]
    BY FirstOf
  <1>2. /\ d \o t \in Seq(Characters) /\ Len(d \o t) = Len(d) + n
        /\ \A i \in 1..(Len(d) + n) : (d \o t)[i] = IF i <= Len(d) THEN d[i] ELSE t[i - Len(d)]
    <2>1. /\ d \o t \in Seq(Characters) /\ Len(d \o t) = Len(d) + Len(t)
          /\ \A i \in 1..(Len(d) + Len(t)) :
               (d \o t)[i] = IF i <= Len(d) THEN d[i] ELSE t[i - Len(d)]
      BY ConcatProperties
    <2> QED BY <1>1, <2>1
  <1>3. Len(d) \in Nat /\ Len(b) \in Nat /\ Len(g) \in Nat /\ n \in Nat /\ n <= Len(b)
    OBVIOUS
  <1>4. ASSUME NEW i \in 1..(Len(d) + n) PROVE (d \o t)[i] = g[0 + i]
    <2>1. CASE i <= Len(d)
      <3>1. i \in 1..Len(d) /\ d[i] = g[0 + i]
        BY <1>3, <2>1 DEF Begins
      <3> QED BY <1>2, <2>1, <3>1
    <2>2. CASE i > Len(d)
      <3>1. i - Len(d) \in 1..n /\ Len(d) + (i - Len(d)) = i /\ i - Len(d) \in 1..Len(b)
        BY <1>3, <2>2
      <3>2. t[i - Len(d)] = g[Len(d) + (i - Len(d))]
        BY <1>1, <3>1 DEF Begins
      <3>3. (d \o t)[i] = t[i - Len(d)] /\ 0 + i = i
        BY <1>2, <1>3, <2>2
      <3> QED BY <3>1, <3>2, <3>3
    <2>3. i <= Len(d) \/ i > Len(d)
      BY <1>3
    <2> QED BY <2>1, <2>2, <2>3
  <1>5. 0 + Len(d \o t) <= Len(g)
    BY <1>2, <1>3 DEF Begins
  <1> QED BY <1>1, <1>2, <1>4, <1>5 DEF Begins

(* All of it goes out.                                                      *)
LEMMA AllOut ==
  ASSUME NEW d \in Seq(Characters), NEW b \in Seq(Characters), NEW g \in Seq(Characters),
         Begins(d, 0, g), Begins(b, Len(d), g)
  PROVE  /\ d \o b \in Seq(Characters)
         /\ Len(d \o b) = Len(d) + Len(b)
         /\ Begins(d \o b, 0, g)
  <1>1. PICK n \in 0..Len(b) : n = Len(b)
    OBVIOUS
  <1>2. SubSeq(b, 1, n) = b
    BY <1>1, SubSeqFull
  <1>3. /\ d \o SubSeq(b, 1, n) \in Seq(Characters)
        /\ Len(d \o SubSeq(b, 1, n)) = Len(d) + n
        /\ Begins(d \o SubSeq(b, 1, n), 0, g)
    BY SomeOut
  <1> QED BY <1>1, <1>2, <1>3

(* Of two beginnings the shorter one is a beginning of the longer one.      *)
LEMMA SameBeginning ==
  ASSUME NEW d \in Seq(Characters), NEW e \in Seq(Characters), NEW g \in Seq(Characters),
         Begins(d, 0, g), Begins(e, 0, g), Len(d) <= Len(e)
  PROVE  d = e \/ \E n \in 1..Len(g) : n > Len(d) /\ e = SubSeq(g, 1, n)
  <1>1. \A i \in 1..Len(d) : d[i] = g[i]
    BY DEF Begins
  <1>2. \A i \in 1..Len(e) : e[i] = g[i]
    BY DEF Begins
  <1>3. CASE Len(d) = Len(e)
    BY <1>1, <1>2, <1>3, SeqEqual
  <1>4. CASE Len(d) # Len(e)
    <2>1. Len(e) \in 1..Len(g) /\ Len(e) > Len(d)
      BY <1>4 DEF Begins
    <2>2. SubSeq(g, 1, Len(e)) \in Seq(Characters) /\ Len(SubSeq(g, 1, Len(e))) = Len(e)
          /\ \A i \in 1..Len(e) : SubSeq(g, 1, Len(e))[i] = g[i]
      BY <2>1, FirstOf
    <2>3. e = SubSeq(g, 1, Len(e))
      BY <1>2, <2>2, SeqEqual
    <2> QED BY <2>1, <2>3
  <1> QED BY <1>3, <1>4
------------------------------------------------------------------------------
(* What is wanted does not change, and is a sequence of characters.         *)
LEMMA GoalIs ==
  ASSUME argument \in Int
  PROVE  /\ Goal \in Seq(Characters)
         /\ Goal = Promise!Wanted(IF argument > 0 THEN argument ELSE 0)
         /\ argument > 0 => /\ Len(Goal) = Whole(argument)
                            /\ \A i \in 1..Len(Goal) : Goal[i] = Due(argument, i)
  <1>1. PICK n \in Nat : n = Promise!Size(argument)
    BY DEF Promise!Size
  <1>2. Goal = Promise!Wanted(n) /\ n = IF argument > 0 THEN argument ELSE 0
    BY <1>1 DEF Goal, Promise!Size
  <1> QED BY <1>1, <1>2, WantedIs

(* It stays what it is as long as the argument does.                        *)
LEMMA GoalStays ==
  ASSUME argument' = argument PROVE Goal' = Goal
  BY DEF Goal

(* More of the beginning is out, or nothing has happened.                   *)
LEMMA Progress ==
  ASSUME LoopTypes, OutSoFar, argument' = argument, device' \in Seq(Characters),
         Begins(device', 0, Goal), Len(device) <= Len(device'),
         pc \notin Ended, pc' \notin Ended
  PROVE  Promise!Write \/ UNCHANGED Promise!vars
  <1>1. device \in Seq(Characters) /\ Goal \in Seq(Characters) /\ Begins(device, 0, Goal)
    BY GoalIs DEF LoopTypes, OutSoFar
  <1>2. device = device' \/ \E n \in 1..Len(Goal) : n > Len(device) /\ device' = SubSeq(Goal, 1, n)
    BY <1>1, SameBeginning
  <1> QED BY <1>2 DEF Promise!Write, Promise!vars, Goal

(* putchar of the character that is due                                     *)
LEMMA PutIsRight ==
  ASSUME LoopTypes, OutSoFar, NEW c \in Characters, PutOk(c), argument' = argument,
         Put < Len(Goal), Goal[Put + 1] = c
  PROVE  /\ device' \in Seq(Characters) /\ Len(device) <= Len(device')
         /\ buffer' \in Seq(Characters) /\ Len(buffer') <= BufferSize
         /\ OutSoFar' /\ Begins(device', 0, Goal)
         /\ Put' = Put + 1
  <1>1. /\ device \in Seq(Characters) /\ buffer \in Seq(Characters) /\ Len(buffer) <= BufferSize
        /\ Goal \in Seq(Characters) /\ Goal' = Goal
        /\ Len(device) \in Nat /\ Len(buffer) \in Nat /\ Len(Goal) \in Nat
        /\ Begins(device, 0, Goal) /\ Begins(buffer, Len(device), Goal)
    BY GoalIs, GoalStays DEF LoopTypes, OutSoFar
  <1>2. CASE Len(buffer) < BufferSize
    <2>1. buffer' = Append(buffer, c) /\ device' = device
      BY <1>2 DEF PutOk
    <2>2. /\ buffer' \in Seq(Characters) /\ Len(buffer') = Len(buffer) + 1
          /\ \A i \in 1..Len(buffer) : buffer'[i] = buffer[i]
          /\ buffer'[Len(buffer) + 1] = c
      BY <1>1, <2>1, AppendProperties
    <2>3. Begins(buffer', Len(device'), Goal)
      <3>1. Len(device') + Len(buffer') <= Len(Goal)
        BY <1>1, <2>1, <2>2 DEF Put
      <3>2. ASSUME NEW i \in 1..Len(buffer') PROVE buffer'[i] = Goal[Len(device') + i]
        <4>1. CASE i \in 1..Len(buffer)
          BY <1>1, <2>1, <2>2, <4>1 DEF Begins
        <4>2. CASE i = Len(buffer) + 1
          <5>1. Len(device) + (Len(buffer) + 1) = Put + 1
            BY <1>1 DEF Put
          <5> QED BY <2>1, <2>2, <4>2, <5>1
        <4> QED BY <1>1, <2>2, <4>1, <4>2
      <3> QED BY <3>1, <3>2 DEF Begins
    <2>4. Put' = Put + 1
      BY <1>1, <2>1, <2>2 DEF Put
    <2>5. Len(buffer') <= BufferSize
      BY <1>1, <1>2, <2>2, SizeAssumption
    <2> QED BY <1>1, <2>1, <2>2, <2>3, <2>4, <2>5 DEF OutSoFar
  <1>3. CASE ~ Len(buffer) < BufferSize
    <2>1. buffer' = <<c>> /\ device' = device \o buffer
      BY <1>3 DEF PutOk
    <2>2. device' \in Seq(Characters) /\ Len(device') = Len(device) + Len(buffer)
          /\ Begins(device', 0, Goal)
      BY <1>1, <2>1, AllOut
    <2>3. buffer' \in Seq(Characters) /\ Len(buffer') = 1 /\ buffer'[1] = c
      BY <2>1
    <2>4. Put' = Put + 1
      BY <1>1, <2>2, <2>3 DEF Put
    <2>5. Begins(buffer', Len(device'), Goal)
      BY <1>1, <2>2, <2>3 DEF Begins, Put
    <2>6. Len(buffer') <= BufferSize
      BY <2>3, SizeAssumption
    <2> QED BY <1>1, <2>2, <2>3, <2>4, <2>5, <2>6 DEF OutSoFar
  <1> QED BY <1>2, <1>3

(* stdio writes a part of the buffer, or all of it.                         *)
LEMMA PartOut ==
  ASSUME LoopTypes, OutSoFar, argument' = argument, NEW n \in 0..Len(buffer),
         device' = device \o SubSeq(buffer, 1, n), buffer' = <<>>
  PROVE  /\ device' \in Seq(Characters) /\ Len(device) <= Len(device')
         /\ buffer' \in Seq(Characters) /\ Len(buffer') <= BufferSize
         /\ OutSoFar' /\ Begins(device', 0, Goal)
         /\ Put' = Len(device) + n
  <1>1. /\ device \in Seq(Characters) /\ buffer \in Seq(Characters)
        /\ Goal \in Seq(Characters) /\ Goal' = Goal
        /\ Len(device) \in Nat /\ n \in Nat
        /\ Begins(device, 0, Goal) /\ Begins(buffer, Len(device), Goal)
    BY GoalIs, GoalStays DEF LoopTypes, OutSoFar
  <1>2. device' \in Seq(Characters) /\ Len(device') = Len(device) + n /\ Begins(device', 0, Goal)
    BY <1>1, SomeOut
  <1>3. buffer' \in Seq(Characters) /\ Len(buffer') = 0 /\ Len(buffer') <= BufferSize
    BY SizeAssumption
  <1>4. Begins(buffer', Len(device'), Goal)
    BY <1>1, <1>2, <1>3 DEF Begins
  <1> QED BY <1>1, <1>2, <1>3, <1>4 DEF OutSoFar, Put
------------------------------------------------------------------------------
LoopHolds == LoopTypes /\ OutSoFar /\ LoopPlace

(* In the middle of a word                                                  *)
LEMMA WordInHand ==
  ASSUME LoopHolds, pc \in {"word", "digits", "newline"}
  PROVE  /\ nbytes \in Nat \ {0} /\ argument > 0 /\ argument \in Int
         /\ Outbytes = (IF nbytes <= WordSize THEN nbytes ELSE WordSize)
         /\ Outbytes \in Nat \ {0}
         /\ Put \in Nat /\ output_errno = 0
         /\ \E w \in Nat : WordsDone(w)
  <1>1. PICK w \in Nat : WordsDone(w)
    BY DEF LoopHolds, LoopPlace
  <1>2. nbytes \in Nat \ {0} /\ Len(device) \in Nat /\ Len(buffer) \in Nat /\ argument \in Int
    BY <1>1 DEF LoopHolds, LoopTypes, WordsDone
  <1>3. w * WordSize \in Nat
    BY SizeAssumption
  <1>4. argument > 0
    BY <1>1, <1>2, <1>3 DEF WordsDone
  <1> QED BY <1>1, <1>2, <1>4, OutbytesIs, SizeAssumption DEF Put, LoopHolds, LoopPlace

(* x = rand64 () and its digits to come                                     *)
LEMMA StartWordKeeps ==
  ASSUME LoopHolds, StartWord
  PROVE  LoopHolds' /\ (Promise!Write \/ UNCHANGED Promise!vars)
  <1>1. PICK w \in Nat : WordsDone(w)
    BY WordInHand DEF StartWord
  <1>2. /\ nbytes' = nbytes /\ argument' = argument /\ buffer' = buffer /\ device' = device
        /\ output_errno' = output_errno /\ pc = "word" /\ pc' = "digits"
        /\ ndigits' = 2 * Outbytes /\ Put' = Put /\ Outbytes' = Outbytes /\ Goal' = Goal
    BY GoalStays DEF StartWord, Put, Outbytes
  <1>3. Outbytes \in Nat \ {0} /\ output_errno = 0 /\ Put \in Nat /\ w * Line \in Nat
    BY <1>2, WordInHand, SizeAssumption DEF Line
  <1>4. LoopTypes'
    BY <1>2, <1>3 DEF LoopHolds, LoopTypes
  <1>5. OutSoFar'
    BY <1>2 DEF LoopHolds, OutSoFar
  <1>6. WordsDone(w)'
    BY <1>1, <1>2, <1>3 DEF WordsDone
  <1>7. LoopPlace'
    BY <1>2, <1>3, <1>6 DEF LoopPlace
  <1> QED BY <1>2, <1>4, <1>5, <1>7 DEF LoopHolds, Promise!vars, Ended

(* putchar of a digit                                                       *)
LEMMA PutDigitKeeps ==
  ASSUME LoopHolds, PutDigit
  PROVE  LoopHolds' /\ (Promise!Write \/ UNCHANGED Promise!vars)
  <1>1. PICK w \in Nat : WordsDone(w)
    BY WordInHand DEF PutDigit
  <1>2. /\ nbytes' = nbytes /\ argument' = argument /\ output_errno' = output_errno
        /\ pc = "digits" /\ pc' = (IF ndigits' > 0 THEN "digits" ELSE "newline")
        /\ ndigits' = ndigits - 1 /\ Outbytes' = Outbytes /\ Goal' = Goal
        /\ PutOk("digit") /\ "digit" \in Characters
    BY GoalStays DEF PutDigit, Outbytes, Characters
  <1>3. /\ nbytes \in Nat \ {0} /\ argument > 0 /\ argument \in Int
        /\ Outbytes = (IF nbytes <= WordSize THEN nbytes ELSE WordSize)
        /\ Outbytes \in Nat \ {0} /\ Put \in Nat /\ output_errno = 0
    BY <1>2, WordInHand
  <1>4. ndigits \in 1..(2 * Outbytes)
    BY <1>2 DEF LoopHolds, LoopPlace
  <1>5. PICK r \in Nat \ {0} : /\ r = 2 * Outbytes - ndigits + 1
                               /\ r <= 2 * nbytes /\ r <= 2 * WordSize
    BY <1>3, <1>4, SizeAssumption
  <1>6. w * Line \in Nat
    BY SizeAssumption DEF Line
  <1>7. Put + 1 = w * Line + r /\ argument = w * WordSize + nbytes
    BY <1>1, <1>2, <1>3, <1>4, <1>5, <1>6 DEF WordsDone
  <1>8. Put + 1 < Whole(argument) /\ Due(argument, Put + 1) = "digit"
    BY <1>3, <1>5, <1>7, DigitDue
  <1>9. Put < Len(Goal) /\ Goal[Put + 1] = "digit"
    BY <1>3, <1>8, GoalIs
  <1>10. /\ device' \in Seq(Characters) /\ Len(device) <= Len(device')
         /\ buffer' \in Seq(Characters) /\ Len(buffer') <= BufferSize
         /\ OutSoFar' /\ Begins(device', 0, Goal)
         /\ Put' = Put + 1
    BY <1>2, <1>9, PutIsRight DEF LoopHolds
  <1>11. LoopTypes'
    BY <1>2, <1>3, <1>4, <1>10 DEF LoopHolds, LoopTypes
  <1>12. WordsDone(w)'
    <2>1. pc' # "word" /\ nbytes' > 0 /\ argument' = w * WordSize + nbytes'
      BY <1>2, <1>3, <1>7
    <2>2. r = 2 * Outbytes' - ndigits'
      BY <1>2, <1>3, <1>4, <1>5
    <2> QED BY <1>7, <1>10, <2>1, <2>2 DEF WordsDone
  <1>13. LoopPlace'
    BY <1>2, <1>3, <1>4, <1>12 DEF LoopPlace
  <1>14. pc \notin Ended /\ pc' \notin Ended
    BY <1>2 DEF Ended
  <1>15. Promise!Write \/ UNCHANGED Promise!vars
    BY <1>2, <1>10, <1>14, Progress DEF LoopHolds
  <1> QED BY <1>10, <1>11, <1>13, <1>15 DEF LoopHolds

(* putchar of the newline                                                   *)
LEMMA PutNewlineKeeps ==
  ASSUME LoopHolds, PutNewline
  PROVE  LoopHolds' /\ (Promise!Write \/ UNCHANGED Promise!vars)
  <1>1. PICK w \in Nat : WordsDone(w)
    BY WordInHand DEF PutNewline
  <1>2. /\ nbytes' = nbytes - Outbytes /\ argument' = argument /\ output_errno' = output_errno
        /\ pc = "newline" /\ pc' = (IF nbytes' > 0 THEN "word" ELSE "close")
        /\ ndigits' = ndigits /\ Goal' = Goal
        /\ PutOk("newline") /\ "newline" \in Characters
    BY GoalStays DEF PutNewline, Characters
  <1>3. /\ nbytes \in Nat \ {0} /\ argument > 0 /\ argument \in Int
        /\ Outbytes = (IF nbytes <= WordSize THEN nbytes ELSE WordSize)
        /\ Outbytes \in Nat \ {0} /\ Put \in Nat /\ output_errno = 0
    BY <1>2, WordInHand
  <1>4. ndigits = 0
    BY <1>2 DEF LoopHolds, LoopPlace
  <1>5. w * Line \in Nat /\ w * WordSize \in Nat
    BY SizeAssumption DEF Line
  <1>6. Put = w * Line + 2 * Outbytes /\ argument = w * WordSize + nbytes
    BY <1>1, <1>2, <1>3, <1>4, <1>5 DEF WordsDone
  <1>7. (w + 1) * Line = w * Line + 2 * WordSize + 1 /\ (w + 1) * WordSize = w * WordSize + WordSize
    BY SizeAssumption DEF Line
  <1>8. /\ nbytes > WordSize => Put + 1 = (w + 1) * Line /\ Put + 1 < Whole(argument)
        /\ nbytes <= WordSize => Put + 1 = Whole(argument)
        /\ Due(argument, Put + 1) = "newline"
    <2>1. CASE nbytes > WordSize
      <3>1. Put + 1 = (w + 1) * Line
        BY <1>3, <1>5, <1>6, <1>7, <2>1, SizeAssumption
      <3> QED BY <1>3, <1>6, <2>1, <3>1, NewlineDue, SizeAssumption
    <2>2. CASE nbytes <= WordSize
      <3>1. Put + 1 = w * Line + 2 * nbytes + 1
        BY <1>3, <1>5, <1>6, <2>2
      <3> QED BY <1>3, <1>6, <2>2, <3>1, NewlineDue, SizeAssumption
    <2> QED BY <1>3, <2>1, <2>2, SizeAssumption
  <1>9. Whole(argument) \in Nat /\ Len(Goal) = Whole(argument)
    BY <1>3, GoalIs, WantedIs
  <1>10. Put < Len(Goal) /\ Goal[Put + 1] = "newline"
    BY <1>3, <1>8, <1>9, GoalIs, SizeAssumption
  <1>11. /\ device' \in Seq(Characters) /\ Len(device) <= Len(device')
         /\ buffer' \in Seq(Characters) /\ Len(buffer') <= BufferSize
         /\ OutSoFar' /\ Begins(device', 0, Goal)
         /\ Put' = Put + 1
    BY <1>2, <1>10, PutIsRight DEF LoopHolds
  <1>12. LoopTypes'
    BY <1>2, <1>3, <1>11 DEF LoopHolds, LoopTypes
  <1>13. ASSUME nbytes > WordSize PROVE LoopPlace'
    <2>1. nbytes' > 0 /\ pc' = "word" /\ Outbytes = WordSize
      BY <1>2, <1>3, <1>13, SizeAssumption
    <2>2. argument' = (w + 1) * WordSize + nbytes'
      BY <1>2, <1>3, <1>5, <1>6, <1>7, <2>1, SizeAssumption
    <2>3. Put' = (w + 1) * Line + 0
      BY <1>3, <1>8, <1>11, <1>13, <1>5, <1>7, SizeAssumption
    <2>4. WordsDone(w + 1)' /\ w + 1 \in Nat
      BY <2>1, <2>2, <2>3 DEF WordsDone
    <2> QED BY <1>2, <1>3, <2>1, <2>4 DEF LoopPlace
  <1>14. ASSUME nbytes <= WordSize PROVE LoopPlace'
    <2>1. nbytes' = 0 /\ pc' = "close"
      BY <1>2, <1>3, <1>14
    <2>2. Put' = Len(Goal')
      BY <1>2, <1>8, <1>9, <1>11, <1>14
    <2> QED BY <1>2, <1>3, <2>1, <2>2 DEF LoopPlace
  <1>15. LoopPlace'
    BY <1>3, <1>13, <1>14, SizeAssumption
  <1>16. pc \notin Ended /\ pc' \notin Ended
    BY <1>2 DEF Ended
  <1>17. Promise!Write \/ UNCHANGED Promise!vars
    BY <1>2, <1>11, <1>16, Progress DEF LoopHolds
  <1> QED BY <1>11, <1>12, <1>15, <1>17 DEF LoopHolds

(* A part of the buffer is lost; or fclose writes all of it, or not.        *)
LEMMA WriteKeeps ==
  ASSUME LoopHolds, PutError \/ CloseOk \/ CloseError
  PROVE  LoopHolds' /\ (Promise!Write \/ UNCHANGED Promise!vars)
  <1>1. device \in Seq(Characters) /\ buffer \in Seq(Characters) /\ Len(buffer) \in Nat
        /\ output_errno \in {0, Errno} /\ Errno = 1
    BY DEF LoopHolds, LoopTypes, Errno
  <1>2. argument' = argument /\ nbytes' = nbytes /\ ndigits' = ndigits /\ Goal' = Goal /\ buffer' = <<>>
    BY GoalStays DEF PutError, PutFails, CloseOk, CloseError
  <1>3. \E n \in 0..Len(buffer) :
          /\ device' = device \o SubSeq(buffer, 1, n)
          /\ \/ output_errno' = Errno
             \/ pc = "close" /\ output_errno' = output_errno /\ n = Len(buffer)
    <2>1. CASE PutError
      BY <1>1, <2>1 DEF PutError, PutFails
    <2>2. CASE CloseOk
      <3>1. SubSeq(buffer, 1, Len(buffer)) = buffer
        BY <1>1, SubSeqFull
      <3>2. pc = "close" /\ output_errno' = output_errno /\ device' = device \o buffer
        BY <2>2 DEF CloseOk, KeptErrno
      <3>3. Len(buffer) \in 0..Len(buffer)
        BY <1>1
      <3> QED BY <3>1, <3>2, <3>3
    <2>3. CASE CloseError
      BY <2>3 DEF CloseError, CloseErrno
    <2> QED BY <2>1, <2>2, <2>3
  <1>4. PICK n \in 0..Len(buffer) :
          /\ device' = device \o SubSeq(buffer, 1, n)
          /\ \/ output_errno' = Errno
             \/ pc = "close" /\ output_errno' = output_errno /\ n = Len(buffer)
    BY <1>3
  <1>5. pc' \in {"close", "report"} /\ pc \in {"digits", "newline", "close"}
    BY DEF PutError, AfterFailure, CloseOk, CloseError
  <1>6. /\ device' \in Seq(Characters) /\ Len(device) <= Len(device')
        /\ buffer' \in Seq(Characters) /\ Len(buffer') <= BufferSize
        /\ OutSoFar' /\ Begins(device', 0, Goal)
        /\ Put' = Len(device) + n
    BY <1>2, <1>4, PartOut DEF LoopHolds
  <1>7. LoopTypes'
    BY <1>1, <1>2, <1>4, <1>6 DEF LoopHolds, LoopTypes, Errno
  <1>8. output_errno' = 0 => argument' > 0 /\ Put' = Len(Goal')
    BY <1>1, <1>2, <1>4, <1>6 DEF LoopHolds, LoopPlace, Put
  <1>9. LoopPlace'
    BY <1>2, <1>5, <1>8 DEF LoopPlace
  <1>10. pc \notin Ended /\ pc' \notin Ended
    BY <1>5 DEF Ended
  <1>11. Promise!Write \/ UNCHANGED Promise!vars
    BY <1>2, <1>6, <1>10, Progress DEF LoopHolds
  <1> QED BY <1>6, <1>7, <1>9, <1>11 DEF LoopHolds
------------------------------------------------------------------------------
(* A step of what was promised, or none that can be seen                    *)
Promised ==
  Promise!Write \/ Promise!Succeed \/ Promise!Fail \/ UNCHANGED Promise!vars

(* The loop does what was promised.                                         *)
LEMMA LoopKeepsPromise ==
  ASSUME LoopHolds, Loop PROVE LoopHolds' /\ Promised
  BY StartWordKeeps, PutDigitKeeps, PutNewlineKeeps, WriteKeeps DEF Loop, Promised

(* The check of the argument: for 0 bytes nothing is as good as all.        *)
LEMMA CheckKeepsPromise ==
  ASSUME LoopHolds, CheckArgument PROVE LoopHolds' /\ Promised
  <1>1. /\ pc = "start" /\ nbytes' = argument /\ argument' = argument /\ ndigits' = ndigits
        /\ buffer' = buffer /\ device' = device /\ output_errno' = output_errno
        /\ argument \in Int /\ device = <<>> /\ buffer = <<>> /\ output_errno = 0
        /\ Goal' = Goal
    BY GoalStays DEF CheckArgument, LoopHolds, LoopTypes, LoopPlace
  <1>2. LoopTypes' /\ OutSoFar'
    BY <1>1 DEF LoopHolds, LoopTypes, OutSoFar
  <1>3. CASE argument < 0 /\ pc' = "exit 1"
    <2>1. LoopPlace' /\ Promise!Fail
      BY <1>1, <1>3 DEF LoopPlace, Promise!Fail, Ended
    <2> QED BY <1>2, <2>1 DEF LoopHolds, Promised
  <1>4. CASE argument = 0 /\ pc' = "exit 0"
    <2>0. argument >= 0
      <3>1. \A k \in Int : k = 0 => k >= 0
        OBVIOUS
      <3> QED BY <1>1, <1>4, <3>1
    <2>1. PICK zero \in Nat : zero = 0
      OBVIOUS
    <2>2. Words(zero) = 0
      BY <2>1, SizeAssumption DEF Words
    <2>3. Len(Promise!Wanted(zero)) = 0 /\ Promise!Wanted(zero) \in Seq(Characters)
      BY <2>1, <2>2, WantedIs DEF Whole
    <2>4. device = Promise!Wanted(argument)
      BY <1>1, <1>4, <2>1, <2>3, EmptySeq
    <2>5. Promise!Succeed
      <3>1. pc \notin Ended
        BY <1>1, <1>4 DEF Ended
      <3>2. pc' = "exit 0" /\ "exit 0" \in Ended
        BY <1>1, <1>4 DEF Ended
      <3> QED BY <1>1, <2>0, <2>4, <3>1, <3>2 DEF Promise!Succeed
    <2>6. LoopPlace'
      BY <1>4 DEF LoopPlace
    <2> QED BY <1>2, <2>5, <2>6 DEF LoopHolds, Promised
  <1>5. CASE argument > 0 /\ pc' = "library"
    <2>1. LoopPlace' /\ UNCHANGED Promise!vars
      BY <1>1, <1>5 DEF LoopPlace, Promise!vars, Ended
    <2> QED BY <1>2, <2>1 DEF LoopHolds, Promised
  <1> QED BY <1>3, <1>4, <1>5 DEF CheckArgument

(* On the way out without success nothing more is out.                      *)
LEMMA OutKeepsPromise ==
  ASSUME LoopHolds, pc \notin Ended, Goto("exit 1") \/ Goto("abort")
  PROVE  LoopHolds' /\ Promised
  <1>1. /\ pc' \in {"exit 1", "abort"} /\ nbytes' = nbytes /\ argument' = argument
        /\ ndigits' = ndigits /\ buffer' = buffer /\ device' = device
        /\ output_errno' = output_errno /\ Goal' = Goal
    BY GoalStays DEF Goto
  <1>2. LoopTypes' /\ OutSoFar'
    BY <1>1 DEF LoopHolds, LoopTypes, OutSoFar
  <1>3. LoopPlace'
    BY <1>1 DEF LoopPlace
  <1>4. Promise!Fail
    BY <1>1 DEF Promise!Fail, Ended
  <1> QED BY <1>2, <1>3, <1>4 DEF LoopHolds, Promised

(* At the start of the loop no word is done.                                *)
LEMMA WordKeepsPromise ==
  ASSUME LoopHolds, pc = "library", Goto("word")
  PROVE  LoopHolds' /\ Promised
  <1>1. /\ pc' = "word" /\ nbytes' = nbytes /\ argument' = argument /\ ndigits' = ndigits
        /\ buffer' = buffer /\ device' = device /\ output_errno' = output_errno
        /\ Goal' = Goal
    BY GoalStays DEF Goto
  <1>2. LoopTypes' /\ OutSoFar'
    BY <1>1 DEF LoopHolds, LoopTypes, OutSoFar
  <1>3. /\ device = <<>> /\ buffer = <<>> /\ output_errno = 0 /\ nbytes = argument
        /\ argument \in Nat \ {0}
    BY DEF LoopHolds, LoopTypes, LoopPlace
  <1>4. PICK zero \in Nat : zero = 0
    OBVIOUS
  <1>5. zero * WordSize = 0 /\ zero * Line = 0
    <2>1. \A k \in Int : 0 * k = 0
      OBVIOUS
    <2>2. WordSize \in Int /\ Line \in Int
      BY SizeAssumption DEF Line
    <2> QED BY <1>4, <2>1, <2>2
  <1>6. Put' = 0
    BY <1>1, <1>3 DEF Put
  <1>7. WordsDone(zero)'
    BY <1>1, <1>3, <1>5, <1>6 DEF WordsDone
  <1>8. LoopPlace'
    BY <1>1, <1>3, <1>4, <1>7 DEF LoopPlace
  <1>9. UNCHANGED Promise!vars
    BY <1>1 DEF Promise!vars, Ended
  <1> QED BY <1>2, <1>8, <1>9 DEF LoopHolds, Promised

(* If nothing has gone wrong, all is out.                                   *)
LEMMA ReportKeepsPromise ==
  ASSUME LoopHolds, pc = "report", Goto(Status)
  PROVE  LoopHolds' /\ Promised
  <1>1. CASE output_errno # 0
    BY <1>1, OutKeepsPromise DEF Status, Ended
  <1>2. CASE output_errno = 0
    <2>1. /\ pc' = "exit 0" /\ nbytes' = nbytes /\ argument' = argument /\ ndigits' = ndigits
          /\ buffer' = buffer /\ device' = device /\ output_errno' = output_errno
          /\ Goal' = Goal
      BY <1>2, GoalStays DEF Goto, Status
    <2>2. LoopTypes' /\ OutSoFar' /\ LoopPlace'
      BY <2>1 DEF LoopHolds, LoopTypes, OutSoFar, LoopPlace
    <2>3. argument \in Nat \ {0} /\ Put = Len(Goal) /\ buffer = <<>>
      BY <1>2 DEF LoopHolds, LoopTypes, LoopPlace
    <2>0. argument >= 0
      BY <2>3
    <2>4. Len(device) \in Nat /\ Len(buffer) = 0
      BY <2>3 DEF LoopHolds, LoopTypes
    <2>5. Len(device) = Len(Goal)
      BY <2>3, <2>4 DEF Put
    <2>6. \A i \in 1..Len(device) : device[i] = Goal[i]
      BY <2>4 DEF LoopHolds, OutSoFar, Begins
    <2>7. device = Goal /\ Goal = Promise!Wanted(argument)
      <3>1. device \in Seq(Characters) /\ Goal \in Seq(Characters)
        BY <2>3, GoalIs DEF LoopHolds, LoopTypes
      <3> QED BY <2>3, <2>5, <2>6, <3>1, GoalIs, SeqEqual
    <2>8. Promise!Succeed
      <3>1. pc \notin Ended
        BY <2>1, <2>3 DEF Ended
      <3>2. pc' = "exit 0" /\ "exit 0" \in Ended
        BY <2>1, <2>3 DEF Ended
      <3> QED BY <2>0, <2>1, <2>7, <3>1, <3>2 DEF Promise!Succeed
    <2> QED BY <2>2, <2>8 DEF LoopHolds, Promised
  <1> QED BY <1>1, <1>2

(* One of them runs; shuf's places are not theirs.                          *)
MCLoopInv ==
  IF program = "shuf" THEN pc \notin Ended ELSE LoopHolds

(* randmain keeps the promise in every step.                                *)
LEMMA RandMainKeepsPromise ==
  ASSUME LoopHolds, Next PROVE LoopHolds' /\ Promised
  <1>1. CASE Check
    BY <1>1, CheckKeepsPromise DEF Check
  <1>2. CASE OpenLibrary
    <2>1. UNCHANGED loopVars
      BY <1>2 DEF OpenLibrary
    <2>2. /\ pc' = pc /\ nbytes' = nbytes /\ argument' = argument /\ ndigits' = ndigits
          /\ buffer' = buffer /\ device' = device /\ output_errno' = output_errno
          /\ Goal' = Goal
      BY <2>1, GoalStays DEF loopVars
    <2> QED BY <2>2, <1>2 DEF OpenLibrary, LoopHolds, LoopTypes, OutSoFar, LoopPlace, Promised,
                              Promise!vars
  <1>3. CASE FindSymbol
    BY <1>3, WordKeepsPromise DEF FindSymbol
  <1>4. CASE RunLoop
    BY <1>4, LoopKeepsPromise DEF RunLoop
  <1>5. CASE Report
    BY <1>5, ReportKeepsPromise DEF Report
  <1>6. CASE ConstructorAborts \/ NoLibrary \/ NoSymbol \/ ReadAborts
    BY <1>6, OutKeepsPromise DEF ConstructorAborts, NoLibrary, NoSymbol, ReadAborts, Ended
  <1> QED BY <1>1, <1>2, <1>3, <1>4, <1>5, <1>6 DEF Next, Steps, Errors

(* So does randall.                                                         *)
LEMMA RandAllKeepsPromise ==
  ASSUME LoopHolds, All!Next PROVE LoopHolds' /\ Promised
  <1>1. CASE All!Check
    BY <1>1, CheckKeepsPromise
       DEF All!Check, All!CheckArgument, CheckArgument
  <1>2. CASE All!Initialize
    BY <1>2, WordKeepsPromise DEF All!Initialize, All!Goto, Goto
  <1>3. CASE All!RunLoop
    <2>1. Loop
      BY <1>3, SameLoop DEF All!RunLoop
    <2> QED BY <2>1, LoopKeepsPromise
  <1>4. CASE All!Report
    BY <1>4, ReportKeepsPromise DEF All!Report, All!Goto, Goto, All!Status, Status
  <1>5. CASE All!InitializeAborts \/ All!ReadAborts
    BY <1>5, OutKeepsPromise DEF All!InitializeAborts, All!ReadAborts, All!Goto, Goto, Ended
  <1> QED BY <1>1, <1>2, <1>3, <1>4, <1>5 DEF All!Next, All!Steps, All!Errors

(* shuf does nothing that was promised or not.                              *)
LEMMA ShufKeepsPromise ==
  ASSUME pc \notin Ended, UNCHANGED randvars, S!Steps \/ S!FileChanges
  PROVE  pc' \notin Ended /\ Promised
  <1>1. pc' \notin Ended
    BY ShufEndsElsewhere
  <1> QED BY <1>1 DEF Promised, Promise!vars, randvars

(* At the start nothing is out.                                             *)
LEMMA PromiseStarts == MCInit => MCLoopInv /\ Promise!Init
  <1> SUFFICES ASSUME MCInit PROVE MCLoopInv /\ Promise!Init
    OBVIOUS
  <1>1. CASE program = "shuf" /\ S!Init /\ RandIdle
    BY <1>1 DEF S!Init, RandIdle, MCLoopInv, Promise!Init, Ended
  <1>2. CASE program \in {"randmain", "randall"} /\ Init
    <2>1. /\ pc = "start" /\ argument \in Arguments \cup {NoNumber} /\ nbytes = 0
          /\ ndigits = 0 /\ buffer = <<>> /\ device = <<>> /\ output_errno = 0
      BY <1>2 DEF Init, LoopInit
    <2>2. argument \in Int /\ LoopTypes
      BY <2>1, SizeAssumption, EmptySeq DEF LoopTypes
    <2>3. Len(device) = 0 /\ Len(buffer) = 0 /\ Goal \in Seq(Characters)
      BY <2>1, <2>2, GoalIs
    <2>4. OutSoFar
      BY <2>3 DEF OutSoFar, Begins
    <2>5. LoopPlace
      BY <2>1 DEF LoopPlace
    <2>6. Promise!Init
      BY <2>1 DEF Promise!Init, Ended
    <2> QED BY <1>2, <2>2, <2>4, <2>5, <2>6 DEF MCLoopInv, LoopHolds
  <1> QED BY <1>1, <1>2 DEF MCInit

(* Every step is one of what was promised.                                  *)
LEMMA PromiseGoesOn == MCLoopInv /\ [MCNext]_MCVars => MCLoopInv' /\ Promised
  <1> SUFFICES ASSUME MCLoopInv, [MCNext]_MCVars PROVE MCLoopInv' /\ Promised
    OBVIOUS
  <1>1. CASE RandMainSteps \/ RandMainErrors
    <2>1. program' = program /\ program = "randmain" /\ Next
      BY <1>1 DEF RandMainSteps, RandMainErrors, Next
    <2> QED BY <2>1, RandMainKeepsPromise DEF MCLoopInv
  <1>2. CASE RandAllSteps \/ RandAllErrors
    <2>1. program' = program /\ program = "randall" /\ All!Next
      BY <1>2 DEF RandAllSteps, RandAllErrors, All!Next
    <2> QED BY <2>1, RandAllKeepsPromise DEF MCLoopInv
  <1>3. CASE ShufSteps \/ FileChanges
    <2>1. /\ program' = program /\ program = "shuf" /\ UNCHANGED randvars
          /\ S!Steps \/ S!FileChanges
      BY <1>3 DEF ShufSteps, FileChanges
    <2> QED BY <2>1, ShufKeepsPromise DEF MCLoopInv
  <1>4. CASE UNCHANGED MCVars
    <2>1. /\ pc' = pc /\ nbytes' = nbytes /\ argument' = argument /\ ndigits' = ndigits
          /\ buffer' = buffer /\ device' = device /\ output_errno' = output_errno
          /\ Goal' = Goal /\ program' = program
      BY <1>4, GoalStays DEF MCVars, vars, loopVars
    <2> QED BY <2>1 DEF MCLoopInv, LoopHolds, LoopTypes, OutSoFar, LoopPlace, WordsDone, Put,
                        Outbytes, Promised, Promise!vars
  <1> QED BY <1>1, <1>2, <1>3, <1>4 DEF MCNext, AllSteps

(* randmain and randall, as they check their argument, fill stdout's buffer *)
(* and handle its errors, implement what was promised of their output, for  *)
(* every size of word and buffer and every number of bytes.                 *)
THEOREM ImplementsPromise == MCSpec => KeepsPromise
  <1>1. MCInit => MCLoopInv /\ Promise!Init
    BY PromiseStarts
  <1>2. MCLoopInv /\ [MCNext]_MCVars => MCLoopInv'
    BY PromiseGoesOn
  <1>3. MCLoopInv /\ [MCNext]_MCVars =>
          [Promise!Write \/ Promise!Succeed \/ Promise!Fail]_Promise!vars
    BY PromiseGoesOn DEF Promised
  <1> QED BY <1>1, <1>2, <1>3, PTL DEF MCSpec, KeepsPromise, Promise!Spec
------------------------------------------------------------------------------
(* What Shuf's program has found out, place by place                        *)
Bounds ==
  IF rangeArg \in {<<>>, <<0, 0>>} THEN <<0, totLines>>
  ELSE <<rangeArg[1], IF rangeArg[2] > totLines THEN totLines ELSE rangeArg[2]>>

ShufTypes ==
  /\ file \in Files /\ changes \in Nat
  /\ rangeArg \in Ranges \cup {BadRange}
  /\ countArg \in Counts \cup {BadCount, 0}
  /\ x \in Nat
  /\ fileLines \in Seq(FileLines) /\ linesList \in Seq(FileLines)
  /\ pc \in {"open", "length", "count", "read"} => x = 0 /\ linesList = <<>>

ShufRange ==
  pc \in {"count", "read", "choose", "done"} =>
    /\ rangeArg \in Ranges
    /\ totLines \in Nat \ {0} /\ inputRange = Bounds
    /\ changes = 0 => IF pc \in {"count", "read"}
                      THEN file # Missing /\ totLines = Len(file)
                      ELSE totLines = Len(fileLines)

ShufCount ==
  pc \in {"read", "choose", "done"} =>
    /\ countArg \in Int
    /\ numLines = S!CountOfLines /\ S!RangeSuffices(numLines)
    /\ noNumInput <=> countArg = 0
    /\ x > 0 => x <= numLines
    /\ countArg # 0 => x = Len(linesList)
    /\ pc = "done" => countArg # 0 /\ x >= numLines

(* What it has printed                                                      *)
InRange(line) ==
  \E i \in rangeArg[1]..rangeArg[2] : i \in DOMAIN fileLines /\ fileLines[i] = line

ShufPrinted ==
  /\ ~ repeat => \A i, j \in DOMAIN linesList : linesList[i] = linesList[j] => i = j
  /\ rangeArg # <<>> /\ rangeArg[1] > 0 => \A j \in DOMAIN linesList : InRange(linesList[j])

ShufInv ==
  program = "shuf" => ShufTypes /\ ShufRange /\ ShufCount /\ ShufPrinted

(* Whatever happens, the program stays the one that was started, and shuf's *)
(* variables change only by its own steps.                                  *)
LEMMA ShufAlone ==
  ASSUME program = "shuf", [MCNext]_MCVars
  PROVE  program' = "shuf" /\ (S!Next \/ UNCHANGED S!vars)
  BY DEF MCNext, AllSteps, RandMainSteps, RandAllSteps, ShufSteps, RandMainErrors,
         RandAllErrors, FileChanges, MCVars, vars, loopVars, shufvars, S!Next, S!vars,
         S!args

(* The lines of a file that is there                                        *)
LEMMA LinesOfFile ==
  ASSUME NEW f \in Files, f # Missing PROVE f \in Seq(FileLines)
  BY ShufAssumption

(* How many lines are printed: a number, and not more than the file has,    *)
(* unless they are repeated.                                                *)
LEMMA CountBounds ==
  ASSUME countArg \in Int, totLines \in Nat
  PROVE  S!CountOfLines \in Int /\ (~ repeat => S!CountOfLines \in 0..totLines)
  BY DEF S!CountOfLines

(* What shuf has found out holds at the start.                              *)
LEMMA ShufStarts == MCInit => ShufInv
  <1> SUFFICES ASSUME MCInit, program = "shuf" PROVE ShufInv
    BY DEF ShufInv
  <1>1. S!Init
    BY DEF MCInit
  <1>2. ShufTypes
    BY <1>1 DEF S!Init, ShufTypes
  <1>3. ShufRange /\ ShufCount
    BY <1>1 DEF S!Init, ShufRange, ShufCount
  <1>4. ShufPrinted
    BY <1>1 DEF S!Init, ShufPrinted
  <1> QED BY <1>2, <1>3, <1>4 DEF ShufInv

(* The types are kept.                                                      *)
LEMMA TypesKept ==
  ASSUME ShufTypes, ShufRange, ShufCount, S!Next \/ UNCHANGED S!vars
  PROVE  ShufTypes'
  <1> USE DEF ShufTypes
  <1>1. CASE UNCHANGED S!vars
    BY <1>1 DEF S!vars, S!args
  <1>2. CASE S!Open \/ S!NoFile \/ S!GetRange \/ S!NoRange
    BY <1>2 DEF S!Open, S!NoFile, S!GetRange, S!NoRange, S!Stop, S!args
  <1>3. CASE S!GetCount \/ S!NoCount \/ S!RangeTooSmall \/ S!FileGone
    BY <1>3 DEF S!GetCount, S!NoCount, S!RangeTooSmall, S!FileGone, S!Stop, S!args
  <1>4. CASE S!Read
    BY <1>4, LinesOfFile DEF S!Read, S!args
  <1>5. CASE S!Choose
    <2>1. PICK i \in S!Indices :
            /\ S!HasLineAt(i)
            /\ \/ linesList' = Append(linesList, S!LineAt(i)) /\ x' = x + 1
               \/ UNCHANGED <<linesList, x>>
      BY <1>5 DEF S!Choose
    <2>2. S!LineAt(i) \in FileLines
      BY <2>1 DEF S!HasLineAt, S!LineAt
    <2>3. linesList' \in Seq(FileLines)
      BY <2>1, <2>2, AppendProperties
    <2>4. x' \in Nat
      BY <2>1
    <2> QED BY <1>5, <2>3, <2>4 DEF S!Choose, S!args
  <1>6. CASE S!ChooseError \/ S!EndRound \/ S!Finish
    BY <1>6 DEF S!ChooseError, S!EndRound, S!Finish, S!Stop, S!args
  <1>7. CASE S!FileChanges
    BY <1>7 DEF S!FileChanges, S!args
  <1> QED BY <1>1, <1>2, <1>3, <1>4, <1>5, <1>6, <1>7 DEF S!Next, S!Steps

(* What is known of the range is kept.                                      *)
LEMMA RangeKept ==
  ASSUME ShufTypes, ShufRange, ShufCount, S!Next \/ UNCHANGED S!vars
  PROVE  ShufRange'
  <1> USE DEF ShufRange, Bounds
  <1>1. CASE UNCHANGED S!vars
    BY <1>1 DEF S!vars, S!args
  <1>2. CASE S!Open \/ S!NoFile \/ S!NoRange
    BY <1>2 DEF S!Open, S!NoFile, S!NoRange, S!Stop, S!args
  <1>3. CASE S!GetRange
    <2>1. file \in Seq(FileLines) /\ file # <<>> /\ file # Missing /\ rangeArg \in Ranges
      BY <1>3, LinesOfFile DEF S!GetRange, ShufTypes
    <2>2. Len(file) \in Nat \ {0}
      BY <2>1, EmptySeq
    <2> QED BY <1>3, <2>1, <2>2 DEF S!GetRange, S!Clipped, S!args
  <1>4. CASE S!GetCount \/ S!NoCount \/ S!RangeTooSmall \/ S!FileGone \/ S!Read
    BY <1>4 DEF S!GetCount, S!NoCount, S!RangeTooSmall, S!FileGone, S!Read, S!Stop, S!args
  <1>5. CASE S!Choose \/ S!ChooseError \/ S!EndRound \/ S!Finish
    BY <1>5 DEF S!Choose, S!ChooseError, S!EndRound, S!Finish, S!Stop, S!args
  <1>6. CASE S!FileChanges
    BY <1>6 DEF S!FileChanges, S!args, ShufTypes
  <1> QED BY <1>1, <1>2, <1>3, <1>4, <1>5, <1>6 DEF S!Next, S!Steps

(* What is known of the count is kept.                                      *)
LEMMA CountKept ==
  ASSUME ShufTypes, ShufRange, ShufCount, S!Next \/ UNCHANGED S!vars
  PROVE  ShufCount'
  <1> USE DEF ShufCount
  <1>1. CASE UNCHANGED S!vars
    BY <1>1 DEF S!vars, S!args, S!CountOfLines, S!RangeSuffices
  <1>2. CASE S!Open \/ S!NoFile \/ S!GetRange \/ S!NoRange
    BY <1>2 DEF S!Open, S!NoFile, S!GetRange, S!NoRange, S!Stop, S!args
  <1>3. CASE S!GetCount
    <2>1. countArg \in Int
      BY <1>3, ShufAssumption DEF S!GetCount, ShufTypes
    <2>2. x' = 0 /\ linesList' = <<>> /\ pc' = "read" /\ countArg' \in Int
      BY <1>3, <2>1 DEF S!GetCount, S!args, ShufTypes
    <2>3. numLines' = (S!CountOfLines)' /\ S!RangeSuffices(numLines)'
      BY <1>3 DEF S!GetCount, S!args, S!CountOfLines, S!RangeSuffices
    <2>4. (noNumInput <=> countArg = 0)'
      BY <1>3 DEF S!GetCount, S!args
    <2> QED BY <2>2, <2>3, <2>4
  <1>4. CASE S!NoCount \/ S!RangeTooSmall \/ S!FileGone \/ S!ChooseError
    BY <1>4 DEF S!NoCount, S!RangeTooSmall, S!FileGone, S!ChooseError, S!Stop, S!args
  <1>5. CASE S!Read \/ S!Finish
    BY <1>5 DEF S!Read, S!Finish, S!Breaks, S!Stop, S!args, S!CountOfLines, S!RangeSuffices
  <1>6. CASE S!Choose
    <2>1. PICK i \in S!Indices :
            \/ linesList' = Append(linesList, S!LineAt(i)) /\ x' = x + 1
            \/ UNCHANGED <<linesList, x>>
      BY <1>6 DEF S!Choose
    <2>2. numLines \in Int
      BY <1>6, CountBounds DEF S!Choose, ShufRange
    <2> QED BY <1>6, <2>1, <2>2, AppendProperties DEF S!Choose, S!args, S!CountOfLines, S!RangeSuffices, ShufTypes
  <1>7. CASE S!EndRound
    BY <1>7 DEF S!EndRound, S!Breaks, S!args, S!CountOfLines, S!RangeSuffices
  <1>8. CASE S!FileChanges
    BY <1>8 DEF S!FileChanges, S!args, S!CountOfLines, S!RangeSuffices
  <1> QED BY <1>1, <1>2, <1>3, <1>4, <1>5, <1>6, <1>7, <1>8 DEF S!Next, S!Steps

(* Without -r no line is printed twice.                                     *)
LEMMA OncePrinted ==
  ASSUME NEW list \in Seq(FileLines), NEW line \in FileLines,
         \A i, j \in DOMAIN list : list[i] = list[j] => i = j, ~ S!Contains(list, line)
  PROVE  \A i, j \in DOMAIN Append(list, line) :
           Append(list, line)[i] = Append(list, line)[j] => i = j
  BY AppendProperties DEF S!Contains

(* An index of a range that starts at 1 or later is one of its lines.       *)
LEMMA LineInRange ==
  ASSUME ShufTypes, ShufRange, pc = "choose", rangeArg # <<>>, rangeArg[1] > 0,
         NEW i \in S!Indices, S!HasLineAt(i)
  PROVE  InRange(S!LineAt(i))
  <1>1. rangeArg \in Nat \X Nat /\ inputRange = Bounds
    BY ShufAssumption DEF ShufRange
  <1>2. PICK lo, hi \in Nat : rangeArg = <<lo, hi>>
    BY <1>1
  <1>3. /\ inputRange[1] = lo /\ inputRange[2] \in Int /\ inputRange[2] <= hi
    BY <1>1, <1>2 DEF Bounds, ShufRange
  <1>4. i \in (lo - 1)..(inputRange[2] - 1) /\ lo > 0
    BY <1>2, <1>3 DEF S!Indices
  <1>5. i + 1 \in lo..hi /\ i # -1
    BY <1>3, <1>4
  <1>6. i + 1 \in DOMAIN fileLines /\ S!LineAt(i) = fileLines[i + 1]
    BY <1>4, <1>5 DEF S!HasLineAt, S!LineAt, ShufTypes
  <1> QED BY <1>2, <1>5, <1>6 DEF InRange

(* What has been printed stays what may be printed.                         *)
LEMMA PrintedKept ==
  ASSUME ShufTypes, ShufRange, ShufPrinted, S!Next \/ UNCHANGED S!vars
  PROVE  ShufPrinted'
  <1> USE DEF ShufPrinted, InRange
  <1>1. CASE UNCHANGED S!vars
    BY <1>1 DEF S!vars, S!args
  <1>2. CASE S!Open \/ S!NoFile \/ S!GetRange \/ S!NoRange
    BY <1>2 DEF S!Open, S!NoFile, S!GetRange, S!NoRange, S!Stop, S!args
  <1>3. CASE S!GetCount \/ S!NoCount \/ S!RangeTooSmall \/ S!FileGone
    BY <1>3 DEF S!GetCount, S!NoCount, S!RangeTooSmall, S!FileGone, S!Stop, S!args
  <1>4. CASE S!Read
    BY <1>4 DEF S!Read, S!args, ShufTypes
  <1>5. CASE S!Choose
    <2>1. PICK i \in S!Indices :
            /\ S!HasLineAt(i)
            /\ \/ linesList' = Append(linesList, S!LineAt(i)) /\ S!MayPrint(S!LineAt(i))
               \/ linesList' = linesList
      BY <1>5 DEF S!Choose
    <2>2. S!LineAt(i) \in FileLines
      BY <2>1 DEF S!HasLineAt, S!LineAt, ShufTypes
    <2>3. repeat' = repeat /\ rangeArg' = rangeArg /\ fileLines' = fileLines /\ pc = "choose"
      BY <1>5 DEF S!Choose, S!args
    <2>4. CASE linesList' = linesList
      BY <2>3, <2>4
    <2>5. CASE linesList' = Append(linesList, S!LineAt(i)) /\ S!MayPrint(S!LineAt(i))
      <3>1. ~ repeat => \A k, j \in DOMAIN linesList' : linesList'[k] = linesList'[j] => k = j
        BY <2>2, <2>5, OncePrinted DEF S!MayPrint, ShufTypes
      <3>2. rangeArg # <<>> /\ rangeArg[1] > 0 => InRange(S!LineAt(i))
        BY <2>1, <2>3, LineInRange
      <3>3. rangeArg # <<>> /\ rangeArg[1] > 0 =>
              \A j \in DOMAIN linesList' : InRange(linesList'[j])
        BY <2>2, <2>5, <3>2, AppendProperties DEF ShufTypes
      <3> QED BY <2>3, <3>1, <3>3
    <2> QED BY <2>1, <2>4, <2>5
  <1>6. CASE S!ChooseError \/ S!EndRound \/ S!Finish
    BY <1>6 DEF S!ChooseError, S!EndRound, S!Finish, S!Stop, S!args
  <1>7. CASE S!FileChanges
    BY <1>7 DEF S!FileChanges, S!args
  <1> QED BY <1>1, <1>2, <1>3, <1>4, <1>5, <1>6, <1>7 DEF S!Next, S!Steps

(* What shuf has found out stays true.                                      *)
LEMMA ShufGoesOn ==
  ASSUME ShufInv, [MCNext]_MCVars PROVE ShufInv'
  <1>1. program' = program
    BY DEF MCNext, AllSteps, RandMainSteps, RandAllSteps, ShufSteps, RandMainErrors,
           RandAllErrors, FileChanges, MCVars
  <1>2. CASE program = "shuf"
    BY <1>2, ShufAlone, TypesKept, RangeKept, CountKept, PrintedKept DEF ShufInv
  <1>3. CASE program # "shuf"
    BY <1>1, <1>3 DEF ShufInv
  <1> QED BY <1>2, <1>3

(* What shuf has found out is so for every file, range and count: how many  *)
(* lines it prints, from which range, and that it counts them right.        *)
THEOREM AlwaysShufInv == MCSpec => []ShufInv
  BY ShufStarts, ShufGoesOn, PTL DEF MCSpec
------------------------------------------------------------------------------
(* A run that ends well has printed what it was asked for.                  *)
LEMMA PrintedAsAsked == ShufInv => PrintsWhatWasAsked
  <1> SUFFICES ASSUME ShufInv, program = "shuf", pc = "done" PROVE S!PrintsWhatWasAsked
    BY DEF PrintsWhatWasAsked, S!PrintsWhatWasAsked
  <1>1. ShufTypes /\ ShufRange /\ ShufCount /\ ShufPrinted
    BY DEF ShufInv
  <1>2. /\ countArg \in Int /\ countArg # 0 /\ totLines \in Nat \ {0}
        /\ x \in Nat /\ x >= numLines /\ (x > 0 => x <= numLines)
        /\ x = Len(linesList) /\ numLines = S!CountOfLines
    BY <1>1 DEF ShufTypes, ShufRange, ShufCount
  <1>3. x = CASE countArg < 0 /\ repeat -> 0
              [] ~ repeat /\ countArg \notin 1..totLines -> totLines
              [] OTHER -> countArg
    BY <1>2 DEF S!CountOfLines
  <1>4. rangeArg # <<>> /\ rangeArg[1] > 0 => \A line \in S!Range(linesList) : InRange(line)
    BY <1>1 DEF ShufTypes, ShufPrinted, S!Range
  <1> QED BY <1>2, <1>3, <1>4 DEF S!PrintsWhatWasAsked, InRange

(* A run of shuf that ends well has printed as many lines as it was asked   *)
(* for, and lines of the range.                                             *)
THEOREM AlwaysPrintsWhatWasAsked == MCSpec => []PrintsWhatWasAsked
  BY AlwaysShufInv, PrintedAsAsked, PTL
------------------------------------------------------------------------------
(* The position in the file of the n-th index of the range, counted so that *)
(* no line is taken twice: the range 0..hi takes the last line first, but   *)
(* not if hi is the last line.                                              *)
Position(n) ==
  IF inputRange[1] > 0 THEN inputRange[1] - 1 + n
  ELSE IF inputRange[2] = totLines THEN n
  ELSE IF n = 1 THEN totLines ELSE n - 1

(* The range takes the lines at numLines different positions.               *)
LEMMA PositionsSuffice ==
  ASSUME ShufTypes, ShufRange, ShufCount, pc = "choose", changes = 0, ~ repeat,
         \A i \in S!Indices : S!HasLineAt(i)
  PROVE  /\ \A n \in 1..numLines :
              /\ Position(n) \in DOMAIN fileLines
              /\ \E i \in S!Indices : S!LineAt(i) = fileLines[Position(n)]
         /\ \A n, m \in 1..numLines : n # m => Position(n) # Position(m)
  <1>1. PICK lo, hi \in Nat : inputRange = <<lo, hi>> /\ hi <= totLines
    <2>1. CASE rangeArg \in {<<>>, <<0, 0>>}
      BY <2>1 DEF ShufRange, Bounds
    <2>2. CASE rangeArg \notin {<<>>, <<0, 0>>}
      <3>1. rangeArg \in Nat \X Nat /\ totLines \in Nat
        BY <2>2, ShufAssumption DEF ShufRange
      <3> QED BY <2>2, <3>1 DEF ShufRange, Bounds
    <2> QED BY <2>1, <2>2
  <1>2. totLines \in Nat \ {0} /\ totLines = Len(fileLines) /\ DOMAIN fileLines = 1..totLines
    BY DEF ShufTypes, ShufRange
  <1>3. numLines \in 0..totLines /\ 1 + hi - lo >= numLines
    BY <1>1, <1>2, CountBounds DEF ShufCount, S!RangeSuffices
  <1>4. /\ S!Indices = (lo - 1)..(hi - 1)
        /\ \A i \in (lo - 1)..(hi - 1) : i \in -1..(totLines - 1)
        /\ \A i : S!LineAt(i) = IF i = -1 THEN fileLines[totLines] ELSE fileLines[i + 1]
    BY <1>1, <1>2 DEF S!Indices, S!HasLineAt, S!LineAt
  <1>5. \A n : Position(n) = IF lo > 0 THEN lo - 1 + n
                             ELSE IF hi = totLines THEN n
                             ELSE IF n = 1 THEN totLines ELSE n - 1
    BY <1>1 DEF Position
  <1>6. ASSUME NEW n \in 1..numLines
        PROVE  /\ Position(n) \in DOMAIN fileLines
               /\ \E i \in S!Indices : S!LineAt(i) = fileLines[Position(n)]
    <2>1. CASE lo > 0
      <3>1. lo - 2 + n \in (lo - 1)..(hi - 1) /\ Position(n) = lo - 2 + n + 1 /\ lo - 2 + n # -1
        BY <1>1, <1>3, <1>5, <2>1
      <3> DEFINE k == lo - 2 + n
      <3>2. k \in -1..(totLines - 1) /\ k # -1 /\ k \in Int
        BY <1>1, <1>4, <3>1
      <3>3. Position(n) \in 1..totLines
        BY <1>2, <3>1, <3>2
      <3> QED BY <1>2, <1>4, <3>1, <3>3
    <2>2. CASE lo = 0 /\ (hi = totLines \/ n # 1)
      <3>1. PICK k \in 0..(hi - 1) : Position(n) = k + 1
        <4>1. CASE hi = totLines
          <5>1. n - 1 \in 0..(hi - 1) /\ Position(n) = (n - 1) + 1
            BY <1>2, <1>3, <1>5, <2>2, <4>1
          <5> QED BY <5>1
        <4>2. CASE hi # totLines
          <5>1. n - 2 \in 0..(hi - 1) /\ Position(n) = (n - 2) + 1
            BY <1>1, <1>3, <1>5, <2>2, <4>2
          <5> QED BY <5>1
        <4> QED BY <4>1, <4>2
      <3>2. k \in (lo - 1)..(hi - 1) /\ k # -1
        BY <1>1, <2>2
      <3>3. S!LineAt(k) = fileLines[Position(n)]
        BY <1>4, <3>1, <3>2
      <3>4. Position(n) \in 1..totLines
        BY <1>1, <1>2, <3>1
      <3> QED BY <1>2, <1>4, <3>2, <3>3, <3>4
    <2>3. CASE lo = 0 /\ hi # totLines /\ n = 1
      <3>1. Position(n) = totLines /\ -1 \in (lo - 1)..(hi - 1)
        BY <1>1, <1>5, <2>3
      <3> QED BY <1>2, <1>4, <3>1
    <2> QED BY <1>1, <2>1, <2>2, <2>3
  <1>7. ASSUME NEW n \in 1..numLines, NEW m \in 1..numLines, n # m
        PROVE  Position(n) # Position(m)
    BY <1>1, <1>2, <1>3, <1>5, <1>7
  <1> QED BY <1>6, <1>7

(* If no line of the range is left, then among numLines of them, of which   *)
(* fewer have been printed, there are two that are the same.                *)
LEMMA StuckOverDuplicates == ShufInv => StuckOnlyOverDuplicates
  <1> SUFFICES ASSUME ShufInv, program = "shuf", S!Stuck, countArg # 0, ~ changes > 0
               PROVE  S!HasDuplicates(fileLines)
    BY DEF StuckOnlyOverDuplicates, S!StuckOnlyOverDuplicates
  <1>1. ShufTypes /\ ShufRange /\ ShufCount /\ pc = "choose" /\ changes = 0
    BY DEF ShufInv, ShufTypes, S!Stuck
  <1>2. ~ repeat
    BY DEF S!Stuck, S!MayPrint
  <1>3. \A i \in S!Indices : S!HasLineAt(i) /\ S!Contains(linesList, S!LineAt(i))
    BY DEF S!Stuck, S!MayPrint
  <1>4. /\ x \in Nat /\ numLines \in Nat /\ x < numLines /\ x = Len(linesList)
        /\ DOMAIN linesList = 1..x
    BY <1>1, <1>2, CountBounds DEF ShufTypes, ShufRange, ShufCount, S!Stuck
  <1>5. ASSUME NEW n \in 1..numLines
        PROVE  /\ Position(n) \in DOMAIN fileLines
               /\ \E j \in 1..x : linesList[j] = fileLines[Position(n)]
    <2>1. PICK i \in S!Indices : S!LineAt(i) = fileLines[Position(n)]
      BY <1>1, <1>2, <1>3, PositionsSuffice
    <2>2. S!Contains(linesList, fileLines[Position(n)])
      BY <1>3, <2>1
    <2> QED BY <1>1, <1>2, <1>3, <1>4, <2>2, PositionsSuffice DEF S!Contains
  <1> DEFINE f == [n \in 1..numLines |->
                    CHOOSE j \in 1..x : linesList[j] = fileLines[Position(n)]]
  <1>6. f \in [1..numLines -> 1..x]
    BY <1>5
  <1>7. \A n \in 1..numLines : linesList[f[n]] = fileLines[Position(n)]
    BY <1>5
  <1>8. IsFiniteSet(1..numLines) /\ IsFiniteSet(1..x) /\ Cardinality(1..x) < Cardinality(1..numLines)
    <2>1. PICK one \in Int : one = 1
      OBVIOUS
    <2>2. \A k \in Int : /\ IsFiniteSet(one..k)
                        /\ Cardinality(one..k) = IF one > k THEN 0 ELSE k - one + 1
      BY <2>1, FS_Interval
    <2> QED BY <1>4, <2>1, <2>2
  <1> HIDE DEF f
  <1>9. PICK n, m \in 1..numLines : n # m /\ f[n] = f[m]
    BY <1>6, <1>8, FS_PigeonHole
  <1>10. fileLines[Position(n)] = fileLines[Position(m)] /\ Position(n) # Position(m)
    BY <1>1, <1>2, <1>3, <1>7, <1>9, PositionsSuffice
  <1> QED BY <1>5, <1>10 DEF S!HasDuplicates

(* With a count, shuf gets stuck only over lines that occur twice, or if    *)
(* the file has changed meanwhile: also for the range that starts at 0.     *)
THEOREM AlwaysStuckOnlyOverDuplicates == MCSpec => []StuckOnlyOverDuplicates
  BY AlwaysShufInv, StuckOverDuplicates, PTL
==============================================================================
