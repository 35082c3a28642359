--------------------------------- MODULE Shuf ---------------------------------
(***************************************************************************)
(* shuf.py: checks its arguments against the file, reads the file, and     *)
(* prints lines chosen at random.  The file is opened three times and may  *)
(* change in between.  Lines are values that can be equal.                 *)
(***************************************************************************)
EXTENDS Integers, Sequences, SequencesExt

CONSTANTS
  Files,      (* what the file can hold; Missing, or a sequence of lines    *)
  Missing,
  Ranges,     (* what -i can be: <<lo, hi>>, <<>> if it is not given, or    *)
  BadRange,   (* something int() does not take, or with no hi               *)
  Counts,     (* what -n can be: an integer, or                             *)
  BadCount,   (* something int() does not take                              *)
  MaxChanges, (* Bound: how often the file changes.                         *)
  MaxOutput   (* Bound: the lines printed with -r and no count.             *)

VARIABLES
  pc,         (* "open", "length", "range", "count", "read", "choose", and  *)
              (* how it ended                                               *)
  file, changes,
  rangeArg, countGiven, countArg, repeat, (* the command line               *)
  totLines,   (* tot_lines_in_file                                          *)
  inputRange, numLines, noNumInput,
  fileLines,  (* self.lines                                                 *)
  x,          (* how many lines of this round of the while loop are printed *)
  linesList   (* lines_list: the lines that have been printed                *)

args == <<rangeArg, countGiven, countArg, repeat>>
vars == <<pc, file, changes, args, totLines, inputRange, numLines, noNumInput,
          fileLines, x, linesList>>

Ended == {"done", "error", "traceback"}

Init ==
  /\ pc = "open"
  /\ file \in Files
  /\ changes = 0
  /\ rangeArg \in Ranges \cup {BadRange}
  /\ countGiven \in BOOLEAN
  /\ IF countGiven THEN countArg \in Counts \cup {BadCount} ELSE countArg = 0
  /\ repeat \in BOOLEAN
  /\ totLines = 0
  /\ inputRange = <<0, 0>>
  /\ numLines = 0
  /\ noNumInput = FALSE
  /\ fileLines = <<>>
  /\ x = 0
  /\ linesList = <<>>
------------------------------------------------------------------------------
Stop(how) ==
  /\ pc' = how
  /\ UNCHANGED <<file, changes, args, totLines, inputRange, numLines, noNumInput,
                 fileLines, x, linesList>>

Open ==
  /\ pc = "open"
  /\ file # Missing
  /\ pc' = "length"
  /\ UNCHANGED <<file, changes, args, totLines, inputRange, numLines, noNumInput,
                 fileLines, x, linesList>>

NoFile == pc = "open" /\ file = Missing /\ Stop("error")

(* get_range, then file_length, whose i is unbound if there is no line      *)
Clipped(hi) == IF hi > Len(file) THEN Len(file) ELSE hi

GetRange ==
  /\ pc = "length"
  /\ rangeArg # BadRange
  /\ file \notin {Missing, <<>>}
  /\ totLines' = Len(file)
  /\ inputRange' = IF rangeArg \in {<<>>, <<0, 0>>} THEN <<0, Len(file)>>
                   ELSE <<rangeArg[1], Clipped(rangeArg[2])>>
  /\ pc' = "count"
  /\ UNCHANGED <<file, changes, args, numLines, noNumInput, fileLines, x,
                 linesList>>

NoRange ==
  /\ pc = "length"
  /\ rangeArg = BadRange \/ file \in {Missing, <<>>}
  /\ Stop("traceback")

(* Without -r, a count out of bounds means all lines; so does no count.     *)
CountAsGiven == countArg
CountOfLines ==
  IF \/ countArg = 0
     \/ ~ repeat /\ (countArg < 0 \/ countArg > totLines)
  THEN totLines ELSE countArg

RangeOffByOne(n) == repeat \/ 2 + inputRange[2] - inputRange[1] >= n
RangeSuffices(n) == repeat \/ 1 + inputRange[2] - inputRange[1] >= n

GetCount ==
  /\ pc = "count"
  /\ countArg # BadCount
  /\ RangeSuffices(CountOfLines)
  /\ numLines' = CountOfLines
  /\ noNumInput' = (countArg = 0)
  /\ pc' = "read"
  /\ UNCHANGED <<file, changes, args, totLines, inputRange, fileLines, x,
                 linesList>>

NoCount == pc = "count" /\ countArg = BadCount /\ Stop("traceback")

RangeTooSmall ==
  /\ pc = "count"
  /\ countArg # BadCount
  /\ ~ RangeSuffices(CountOfLines)
  /\ Stop("error")

(* shuf(input_file)                                                         *)
Read ==
  /\ pc = "read"
  /\ file # Missing
  /\ fileLines' = file
  /\ pc' = "choose"
  /\ UNCHANGED <<file, changes, args, totLines, inputRange, numLines, noNumInput,
                 x, linesList>>

FileGone == pc = "read" /\ file = Missing /\ Stop("error")
------------------------------------------------------------------------------
(* range(lo - 1, hi); Python takes index -1 for the last line               *)
Indices == (inputRange[1] - 1)..(inputRange[2] - 1)
LineAt(i) == IF i = -1 THEN fileLines[Len(fileLines)] ELSE fileLines[i + 1]
HasLineAt(i) == i \in -1..(Len(fileLines) - 1) /\ fileLines # <<>>

MayPrint(line) == repeat \/ ~ Contains(linesList, line)

Choose ==
  /\ pc = "choose"
  /\ x < numLines
  /\ Len(linesList) < MaxOutput
  /\ \E i \in Indices :
       /\ HasLineAt(i)
       /\ IF MayPrint(LineAt(i))
          THEN /\ linesList' = Append(linesList, LineAt(i))
               /\ x' = x + 1
          ELSE UNCHANGED <<linesList, x>>
  /\ UNCHANGED <<pc, file, changes, args, totLines, inputRange, numLines,
                 noNumInput, fileLines>>

(* random.choice of an empty range, or a line that is no longer there: the  *)
(* exception is caught.                                                     *)
ChooseError ==
  /\ pc = "choose"
  /\ x < numLines
  /\ Indices = {} \/ \E i \in Indices : ~ HasLineAt(i)
  /\ Stop("error")

(* while True: only a count ends it                                         *)
Breaks      == ~ noNumInput

EndRound ==
  /\ pc = "choose"
  /\ x >= numLines
  /\ ~ Breaks
  /\ x' = 0
  /\ UNCHANGED <<pc, file, changes, args, totLines, inputRange, numLines,
                 noNumInput, fileLines, linesList>>

Finish ==
  /\ pc = "choose"
  /\ x >= numLines
  /\ Breaks
  /\ Stop("done")

Steps ==
  \/ Open \/ NoFile \/ GetRange \/ NoRange \/ GetCount \/ NoCount \/ RangeTooSmall
  \/ Read \/ FileGone \/ Choose \/ ChooseError \/ EndRound \/ Finish

FileChanges ==
  /\ changes < MaxChanges
  /\ pc \in {"length", "count", "read"}
  /\ file' \in Files
  /\ changes' = changes + 1
  /\ UNCHANGED <<pc, args, totLines, inputRange, numLines, noNumInput, fileLines,
                 x, linesList>>

Next == Steps \/ FileChanges

(* random.choice gives every line sooner or later.                          *)
Spec == Init /\ [][Next]_vars /\ WF_vars(Steps)
------------------------------------------------------------------------------
(* No line is left that could be printed: the inner loop goes on for ever.  *)
Stuck ==
  /\ pc = "choose"
  /\ x < numLines
  /\ Indices # {}
  /\ \A i \in Indices : HasLineAt(i) /\ ~ MayPrint(LineAt(i))

HasDuplicates(lines) == \E i, j \in DOMAIN lines : i # j /\ lines[i] = lines[j]

(***************************************************************************)
(* With a count the program gets stuck only over lines that occur twice,   *)
(* or if the file has changed meanwhile: what is checked of count and      *)
(* range suffices for the loop, also for the odd range that starts at 0.   *)
(***************************************************************************)
StuckOnlyOverDuplicates ==
  Stuck => countArg = 0 \/ HasDuplicates(fileLines) \/ changes > 0

(***************************************************************************)
(* A run that ends well has printed as many lines as it was asked for, or  *)
(* all of them if that is no number of lines of the file; and lines of the *)
(* range, as far as the range is one of the file.                          *)
(***************************************************************************)
PrintsWhatWasAsked ==
  pc = "done" =>
    /\ Len(linesList) = CASE countArg < 0 /\ repeat -> 0
                       [] ~ repeat /\ countArg \notin 1..totLines -> totLines
                       [] OTHER -> countArg
    /\ rangeArg # <<>> /\ rangeArg[1] > 0 =>
         \A line \in Range(linesList) :
           \E i \in rangeArg[1]..rangeArg[2] :
             i \in DOMAIN fileLines /\ fileLines[i] = line
==============================================================================
