-------------------------------- MODULE Sfrob --------------------------------
(***************************************************************************)
(* sfrob.c: reads words from standard input with getc, sorts them with     *)
(* qsort and frobcmp, and prints them.                                     *)
(***************************************************************************)
EXTENDS Frobnication

CONSTANT Texts           (* the texts that can be on standard input         *)

VARIABLES
  pc,                    (* "read", "sort", "print", and how it ended       *)
  text,                  (* what was on standard input (history)            *)
  rest,                  (* what getc has not returned yet                  *)
  myWord, wordList,      (* with numChars and numWords as their lengths     *)
  endOfWord,
  prevNumChars,
  printed                (* the words printed; their number is x            *)

vars == <<pc, text, rest, myWord, wordList, endOfWord, prevNumChars, printed>>

Ended == {"done", "exit 1", "crash", "overrun"}

Init ==
  /\ pc = "read"
  /\ text \in Texts
  /\ rest = text
  /\ myWord = <<>>
  /\ wordList = <<>>
  /\ endOfWord = FALSE
  /\ prevNumChars = -1
  /\ printed = <<>>
------------------------------------------------------------------------------
(* EOF is -1, and so is the character 255 once it is a char.                *)
checkForEndOfFile(r) == r # <<>> => Head(r) = 255

EndOfFile ==
  /\ pc = "read"
  /\ checkForEndOfFile(rest)
  /\ \E stale \in BOOLEAN : wordList' = Append(wordList, LastWord(myWord, prevNumChars, stale))
  /\ pc' = "sort"
  /\ UNCHANGED <<text, rest, myWord, endOfWord, prevNumChars, printed>>

AddChar ==
  /\ pc = "read"
  /\ ~ checkForEndOfFile(rest)
  /\ ~ endOfWord
  /\ myWord' = Append(myWord, Head(rest))
  /\ endOfWord' = EndsWord(Head(rest))
  /\ rest' = Tail(rest)
  /\ UNCHANGED <<pc, text, wordList, prevNumChars, printed>>

SkipSpace ==
  /\ pc = "read"
  /\ ~ checkForEndOfFile(rest)
  /\ endOfWord
  /\ Head(rest) = Space
  /\ rest' = Tail(rest)
  /\ UNCHANGED <<pc, text, myWord, wordList, endOfWord, prevNumChars, printed>>

NewWord ==
  /\ pc = "read"
  /\ ~ checkForEndOfFile(rest)
  /\ endOfWord
  /\ Head(rest) # Space
  /\ wordList' = Append(wordList, myWord)
  /\ prevNumChars' = Len(myWord)
  /\ myWord' = <<Head(rest)>>
  /\ endOfWord' = FALSE
  /\ rest' = Tail(rest)
  /\ UNCHANGED <<pc, text, printed>>

(* ferror(stdin), or malloc or realloc returns NULL where that is checked   *)
ReadError ==
  /\ pc = "read"
  /\ pc' = "exit 1"
  /\ UNCHANGED <<text, rest, myWord, wordList, endOfWord, prevNumChars, printed>>

(* The realloc for the last space is not checked.                           *)
UncheckedRealloc ==
  /\ pc = "read"
  /\ checkForEndOfFile(rest)
  /\ \E stale \in BOOLEAN : ~ LooksTerminated(myWord, prevNumChars, stale)
  /\ pc' = "crash"
  /\ UNCHANGED <<text, rest, myWord, wordList, endOfWord, prevNumChars, printed>>
------------------------------------------------------------------------------
Sort ==
  /\ pc = "sort"
  /\ \/ pc' = "print" /\ wordList' \in Sorted(wordList, FALSE)
     \/ /\ ~ ComparesSafely(wordList, FALSE)
        /\ pc' = "overrun"
        /\ UNCHANGED wordList
  /\ UNCHANGED <<text, rest, myWord, endOfWord, prevNumChars, printed>>

PrintWord ==
  /\ pc = "print"
  /\ Len(printed) < Len(wordList)
  /\ LET w == wordList[Len(printed) + 1]
     IN  IF Contains(w, Space)
         THEN printed' = WithPrinted(printed, w) /\ UNCHANGED pc
         ELSE pc' = "overrun" /\ UNCHANGED printed
  /\ UNCHANGED <<text, rest, myWord, wordList, endOfWord, prevNumChars>>

(* putchar returns EOF                                                      *)
PrintError ==
  /\ pc = "print"
  /\ Len(printed) < Len(wordList)
  /\ pc' = "exit 1"
  /\ UNCHANGED <<text, rest, myWord, wordList, endOfWord, prevNumChars, printed>>

Finish ==
  /\ pc = "print"
  /\ Len(printed) = Len(wordList)
  /\ pc' = "done"
  /\ UNCHANGED <<text, rest, myWord, wordList, endOfWord, prevNumChars, printed>>

Steps ==
  \/ EndOfFile \/ AddChar \/ SkipSpace \/ NewWord
  \/ Sort \/ PrintWord \/ Finish

Errors == ReadError \/ UncheckedRealloc \/ PrintError

Next == Steps \/ Errors

Spec == Init /\ [][Next]_vars /\ WF_vars(Steps)
------------------------------------------------------------------------------
(* What the program takes for its input                                     *)
Input ==
  LET ends == { i \in DOMAIN text : text[i] = 255 }
  IN  IF ends = {} THEN text ELSE SubSeq(text, 1, Min(ends) - 1)

(***************************************************************************)
(* A run that ends well has printed every word of the input up to the      *)
(* first character 255 as often as it is there, and nothing else, however  *)
(* many spaces are where.                                                  *)
(***************************************************************************)
PrintsTheWords ==
  pc = "done" =>
    \A w \in WordsOf(Input) \cup Range(printed) :
      TimesListed(printed, w) = TimesIn(Input, w)

(***************************************************************************)
(* Memory behind a word is read only if a word holds a NUL, or the last    *)
(* word lacks its space and is no longer than the one before it.           *)
(***************************************************************************)
OverrunsOnlyOf ==
  pc = "overrun" => Contains(Input, Nul) \/ MayLackItsSpace(Input)

(***************************************************************************)
(* On a text without NUL and 255 whose last word keeps its space, the      *)
(* program does what SortedWords promises; on others it promises nothing.  *)
(***************************************************************************)
Fit == Range(text) \cap {Nul, 255} = {} /\ ~ MayLackItsSpace(text)

PrintedIfFit == IF Fit THEN printed ELSE <<>>
StatusIfFit ==
  IF Fit /\ pc = "done" THEN "done"
  ELSE IF Fit /\ pc \in Ended THEN "failed"
  ELSE "working"
==============================================================================
