-------------------------------- MODULE Sfrobu --------------------------------
(***************************************************************************)
(* sfrobu.c: sfrob with system calls instead of stdio, and the option -f.  *)
(* A regular file is read into a buffer of the size fstat tells, whatever  *)
(* comes later and everything that is not a regular file byte by byte.     *)
(* The file may change while it is read.                                   *)
(***************************************************************************)
EXTENDS Frobnication

CONSTANTS
  Texts,      (* the texts that can be on standard input                    *)
  Modes,      (* the kinds of standard input: "regular", "pipe"             *)
  Arguments,  (* the command lines: "none", "-f", "other"                   *)
  Heap,       (* what uninitialised memory can hold                         *)
  Growths,    (* the characters a file can grow by                          *)
  MaxChanges  (* Bound: how often the file changes.                         *)

VARIABLES
  pc,         (* "start", "stat", "fill", "first", "read", "skip", "sort",  *)
              (* "print", and how it ended                                  *)
  argument, mode, ignore_case,
  original,   (* what was in the file at the start (history)                *)
  text,       (* all that the program could have read since then (history)  *)
  changes,    (* the ways the file has changed so far (history)             *)
  rest,       (* what read has not returned yet                             *)
  maxBuffSize,
  buffer,     (* from buffCount to maxBuffSize: what is unused of it        *)
  myWord, wordList, endOfWord, prevNumChars, printed

file == <<argument, mode, original, text, changes>>
vars == <<pc, file, ignore_case, rest, maxBuffSize, buffer, myWord, wordList,
          endOfWord, prevNumChars, printed>>

Ended == {"done", "exit 1", "crash", "overrun"}

Init ==
  /\ pc = "start"
  /\ argument \in Arguments
  /\ mode \in Modes
  /\ ignore_case = FALSE
  /\ original \in Texts
  /\ text = original
  /\ changes = <<>>
  /\ rest = text
  /\ maxBuffSize = 0
  /\ buffer = <<>>
  /\ myWord = <<>>
  /\ wordList = <<>>
  /\ endOfWord = FALSE
  /\ prevNumChars = -1
  /\ printed = <<>>
------------------------------------------------------------------------------
Start ==
  /\ pc = "start"
  /\ argument \in {"none", "-f"}
  /\ ignore_case' = (argument = "-f")
  /\ pc' = "stat"
  /\ UNCHANGED <<file, rest, maxBuffSize, buffer, myWord, wordList, endOfWord,
                 prevNumChars, printed>>

WrongArgument ==
  /\ pc = "start"
  /\ argument = "other"
  /\ pc' = "exit 1"
  /\ UNCHANGED <<file, ignore_case, rest, maxBuffSize, buffer, myWord, wordList,
                 endOfWord, prevNumChars, printed>>

st_size   == IF mode = "regular" THEN Len(rest) ELSE 0

Stat ==
  /\ pc = "stat"
  /\ maxBuffSize' = st_size
  /\ pc' = IF mode = "regular" THEN "fill" ELSE "first"
  /\ UNCHANGED <<file, ignore_case, rest, buffer, myWord, wordList, endOfWord,
                 prevNumChars, printed>>

(* One read; that it may return less than asked for is not noticed.         *)
Fill ==
  /\ pc = "fill"
  /\ LET result == Min({maxBuffSize, Len(rest)})
     IN  /\ \E unread \in [1..(maxBuffSize - result) -> Heap] :
              buffer' = SubSeq(rest, 1, result) \o unread
         /\ rest' = SubSeq(rest, result + 1, Len(rest))
  /\ pc' = "first"
  /\ UNCHANGED <<file, ignore_case, maxBuffSize, myWord, wordList, endOfWord,
                 prevNumChars, printed>>

(***************************************************************************)
(* The first character.  Without a buffer it is read over the lowest byte  *)
(* of the pointer myWord: unless it is that very byte, realloc aborts.     *)
(***************************************************************************)
FirstOfBuffer ==
  /\ pc = "first"
  /\ buffer # <<>>
  /\ myWord' = <<Head(buffer)>>
  /\ buffer' = Tail(buffer)
  /\ pc' = "read"
  /\ UNCHANGED <<file, ignore_case, rest, maxBuffSize, wordList, endOfWord,
                 prevNumChars, printed>>

FirstOverPointer ==
  /\ pc = "first"
  /\ buffer = <<>>
  /\ IF rest = <<>>
     THEN pc' = "read" /\ UNCHANGED rest
     ELSE pc' \in {"read", "crash"} /\ rest' = Tail(rest)
  /\ UNCHANGED <<file, ignore_case, maxBuffSize, buffer, myWord, wordList,
                 endOfWord, prevNumChars, printed>>
------------------------------------------------------------------------------
(* The next character comes from the buffer as long as it lasts.            *)
BufferUsedUp == buffer = <<>>
AtEnd == buffer = <<>> /\ rest = <<>>
Char  == IF buffer # <<>> THEN Head(buffer) ELSE Head(rest)

Advance ==
  IF buffer # <<>>
  THEN buffer' = Tail(buffer) /\ UNCHANGED rest
  ELSE rest' = Tail(rest) /\ UNCHANGED buffer

AddChar ==
  /\ pc = "read"
  /\ ~ AtEnd
  /\ ~ endOfWord
  /\ myWord' = Append(myWord, Char)
  /\ endOfWord' = EndsWord(Char)
  /\ Advance
  /\ UNCHANGED <<pc, file, ignore_case, maxBuffSize, wordList, prevNumChars,
                 printed>>

(* while (myChar == ' ')                                                    *)
SkipSpace ==
  /\ pc = "skip" \/ (pc = "read" /\ endOfWord)
  /\ ~ AtEnd
  /\ Char = Space
  /\ Advance
  /\ pc' = "skip"
  /\ UNCHANGED <<file, ignore_case, maxBuffSize, myWord, wordList, endOfWord,
                 prevNumChars, printed>>

(* The inner loop takes no notice of the end: read returns 0 for ever, and  *)
(* myChar is still a space.                                                 *)
SpinAtEnd ==
  /\ pc = "skip"
  /\ AtEnd
  /\ UNCHANGED vars

NewWord ==
  /\ pc = "skip" \/ (pc = "read" /\ endOfWord)
  /\ ~ AtEnd
  /\ Char # Space
  /\ wordList' = Append(wordList, myWord)
  /\ prevNumChars' = Len(myWord)
  /\ myWord' = <<Char>>
  /\ endOfWord' = FALSE
  /\ Advance
  /\ pc' = "read"
  /\ UNCHANGED <<file, ignore_case, maxBuffSize, printed>>

EndOfFile ==
  /\ pc = "read"
  /\ AtEnd
  /\ \E stale \in BOOLEAN :
       wordList' = Append(wordList, LastWord(myWord, prevNumChars, stale))
  /\ pc' = "sort"
  /\ UNCHANGED <<file, ignore_case, rest, maxBuffSize, buffer, myWord, endOfWord,
                 prevNumChars, printed>>

(* fstat, read, or a malloc or realloc that is checked fails.               *)
Fail ==
  /\ pc \in {"stat", "fill", "first", "read", "skip"}
  /\ pc' = "exit 1"
  /\ UNCHANGED <<file, ignore_case, rest, maxBuffSize, buffer, myWord, wordList,
                 endOfWord, prevNumChars, printed>>

(* The realloc for the last space is not checked.                           *)
UncheckedRealloc ==
  /\ pc = "read"
  /\ AtEnd
  /\ ~ LooksTerminated(myWord, prevNumChars, FALSE)
  /\ pc' = "crash"
  /\ UNCHANGED <<file, ignore_case, rest, maxBuffSize, buffer, myWord, wordList,
                 endOfWord, prevNumChars, printed>>
------------------------------------------------------------------------------
Sort ==
  /\ pc = "sort"
  /\ \/ pc' = "print" /\ wordList' \in Sorted(wordList, ignore_case)
     \/ /\ ~ ComparesSafely(wordList, ignore_case)
        /\ pc' = "overrun"
        /\ UNCHANGED wordList
  /\ UNCHANGED <<file, ignore_case, rest, maxBuffSize, buffer, myWord, endOfWord,
                 prevNumChars, printed>>

PrintWord ==
  /\ pc = "print"
  /\ Len(printed) < Len(wordList)
  /\ LET w == wordList[Len(printed) + 1]
     IN  IF Contains(w, Space)
         THEN printed' = WithPrinted(printed, w) /\ UNCHANGED pc
         ELSE pc' = "overrun" /\ UNCHANGED printed
  /\ UNCHANGED <<file, ignore_case, rest, maxBuffSize, buffer, myWord, wordList,
                 endOfWord, prevNumChars>>

(* write fails                                                              *)
PrintError ==
  /\ pc = "print"
  /\ Len(printed) < Len(wordList)
  /\ pc' = "exit 1"
  /\ UNCHANGED <<file, ignore_case, rest, maxBuffSize, buffer, myWord, wordList,
                 endOfWord, prevNumChars, printed>>

Finish ==
  /\ pc = "print"
  /\ Len(printed) = Len(wordList)
  /\ pc' = "done"
  /\ UNCHANGED <<file, ignore_case, rest, maxBuffSize, buffer, myWord, wordList,
                 endOfWord, prevNumChars, printed>>

Steps ==
  \/ Start \/ WrongArgument \/ Stat \/ Fill \/ FirstOfBuffer \/ FirstOverPointer
  \/ AddChar \/ SkipSpace \/ SpinAtEnd \/ NewWord \/ EndOfFile
  \/ Sort \/ PrintWord \/ Finish

Errors == Fail \/ UncheckedRealloc \/ PrintError

(* Another program truncates the file, or writes to its end.                *)
Change(how, to) ==
  /\ mode = "regular"
  /\ pc \in {"fill", "first", "read", "skip"}
  /\ Len(changes) < MaxChanges
  /\ changes' = Append(changes, <<how, pc>>)
  /\ text' = SubSeq(text, 1, Len(text) - Len(rest)) \o to
  /\ rest' = to
  /\ UNCHANGED <<pc, argument, mode, original, ignore_case, maxBuffSize, buffer,
                 myWord, wordList, endOfWord, prevNumChars, printed>>

FileShrinks == \E n \in 0..(Len(rest) - 1) : Change("shrunk", SubSeq(rest, 1, n))
FileGrows   == \E c \in Growths : Change("grown", Append(rest, c))

Next == Steps \/ Errors \/ FileShrinks \/ FileGrows

Spec == Init /\ [][Next]_vars /\ WF_vars(Steps)
------------------------------------------------------------------------------
(***************************************************************************)
(* What a run that ends well has taken for its input: without a buffer the *)
(* first character is gone; with one, a single space at the start hides    *)
(* the first word, which is printed as an empty one.                       *)
(***************************************************************************)
FirstIsLost ==
  /\ maxBuffSize = 0
  /\ text # <<>>
  /\ \/ mode # "regular"
     \/ \E c \in Range(changes) : c[2] \in {"fill", "first"}

WithoutFirstPiece(t) ==
  LET spaces == { i \in 2..Len(t) : t[i] = Space }
  IN  IF spaces = {} THEN <<Space>>
                     ELSE <<Space>> \o SubSeq(t, Min(spaces), Len(t))

Taken ==
  IF FirstIsLost THEN Tail(text)
  ELSE IF maxBuffSize > 0 /\ Len(text) > 1 /\ text[1] = Space /\ text[2] # Space
  THEN WithoutFirstPiece(text)
  ELSE text

Shrunk == \E c \in Range(changes) : c[1] = "shrunk"

(***************************************************************************)
(* A run that ends well has printed every word as often as it is in the    *)
(* input, and nothing else, even if the file has grown meanwhile.          *)
(***************************************************************************)
PrintsTheWords ==
  pc = "done" /\ ~ Shrunk =>
    \A w \in WordsOf(Taken) \cup Range(printed) :
      TimesListed(printed, w) = TimesIn(Taken, w)

(***************************************************************************)
(* Memory behind a word is read only if the file was truncated, a word     *)
(* holds a NUL, the text starts with a space, or the last word lacks its   *)
(* space and is no longer than the one before it.                          *)
(***************************************************************************)
OverrunsOnlyOf ==
  pc = "overrun" =>
    \/ Shrunk
    \/ Contains(text, Nul)
    \/ text # <<>> /\ Head(text) = Space
    \/ MayLackItsSpace(Taken)

(***************************************************************************)
(* The program stops, unless its input ends with two spaces: then it spins *)
(* in the inner loop.                                                      *)
(***************************************************************************)
Spins ==
  /\ pc = "skip"
  /\ AtEnd
  /\ Shrunk \/ \E n \in 2..Len(text) :
                n = Len(text) /\ text[n] = Space /\ text[n - 1] = Space

(***************************************************************************)
(* Without -f, on a text without NUL that does not start with a single     *)
(* space and whose last word keeps its space, read from a regular file,    *)
(* the program does what SortedWords promises; a change of the file        *)
(* meanwhile counts as a failure.  Otherwise it promises nothing.          *)
(***************************************************************************)
Fit ==
  /\ argument = "none"
  /\ mode = "regular"
  /\ ~ Contains(original, Nul)
  /\ ~ (Len(original) > 1 /\ original[1] = Space /\ original[2] # Space)
  /\ ~ MayLackItsSpace(original)

Kept == Fit /\ changes = <<>>

PrintedIfKept == IF Kept THEN printed ELSE <<>>
StatusIfKept ==
  IF Kept /\ pc = "done" THEN "done"
  ELSE IF Fit /\ (changes # <<>> \/ pc \in Ended) THEN "failed"
  ELSE "working"
==============================================================================
