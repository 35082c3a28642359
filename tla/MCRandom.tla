------------------------------- MODULE MCRandom -------------------------------
(***************************************************************************)
(* An instance of the programs with random output, RandMain, RandAll and   *)
(* Shuf.  One of them runs; the variables only the others have do not      *)
(* change.  Shuf's files have up to three lines, two of which may be the   *)
(* same; what it cannot read is a sequence or a number like what it can.   *)
(***************************************************************************)
EXTENDS RandMain

CONSTANTS
  Files, Missing, Ranges, BadRange, Counts, BadCount, MaxChanges, MaxOutput
                                                                (* of Shuf *)

VARIABLES
  program,
  file, changes, rangeArg, countGiven, countArg, repeat, totLines, inputRange,
  numLines, noNumInput, fileLines, x, linesList                 (* of Shuf *)

(* What the files have in their lines                                       *)
FileLines == UNION { Range(f) : f \in Files \ {Missing} }

(* A file is a list of lines, a count a number; a range is two without a    *)
(* sign, since "-" separates them.                                          *)
ASSUME ShufAssumption ==
  /\ \A f \in Files \ {Missing} : f \in Seq(FileLines)
  /\ \A r \in Ranges \ {<<>>} : r \in Nat \X Nat
  /\ Counts \subseteq Int

(* The values of the instance                                               *)
MCMissing  == <<0>>
MCBadRange == <<-1, -1>>
MCFiles  == { MCMissing, <<>>, <<1>>, <<1, 2>>, <<1, 1>>, <<1, 2, 3>>, <<1, 2, 1>> }
MCRanges == { <<>>, <<0, 0>>, <<0, 1>>, <<0, 9>>, <<1, 2>>, <<2, 2>>, <<2, 3>>,
              <<3, 1>>, <<2, 9>> }
MCCounts == -1..4

All == INSTANCE RandAll
S   == INSTANCE Shuf

MinusOne == -1

randvars == <<argument, nbytes, ndigits, buffer, device, output_errno, supported,
              loaded, stream>>
shufvars == <<file, changes, rangeArg, countGiven, countArg, repeat, totLines,
              inputRange, numLines, noNumInput, fileLines, x, linesList>>

RandIdle ==
  /\ argument = NoNumber /\ nbytes = 0 /\ ndigits = 0 /\ buffer = <<>>
  /\ device = <<>> /\ output_errno = 0
  /\ supported = FALSE /\ loaded = FALSE /\ stream = "none"

ShufIdle ==
  /\ file = Missing /\ changes = 0
  /\ rangeArg = <<>> /\ countGiven = FALSE /\ countArg = 0 /\ repeat = FALSE
  /\ totLines = 0 /\ inputRange = <<0, 0>> /\ numLines = 0 /\ noNumInput = FALSE
  /\ fileLines = <<>> /\ x = 0 /\ linesList = <<>>

MCInit ==
  \/ program \in {"randmain", "randall"} /\ Init /\ ShufIdle
  \/ program = "shuf" /\ S!Init /\ RandIdle

RandMainSteps ==
  program = "randmain" /\ Steps /\ UNCHANGED <<program, shufvars>>
RandAllSteps  ==
  program = "randall" /\ All!Steps /\ UNCHANGED <<program, loaded, shufvars>>
ShufSteps     ==
  program = "shuf" /\ S!Steps /\ UNCHANGED <<program, randvars>>

RandMainErrors ==
  program = "randmain" /\ Errors /\ UNCHANGED <<program, shufvars>>
RandAllErrors  ==
  program = "randall" /\ All!Errors /\ UNCHANGED <<program, loaded, shufvars>>
FileChanges    ==
  program = "shuf" /\ S!FileChanges /\ UNCHANGED <<program, randvars>>

AllSteps == RandMainSteps \/ RandAllSteps \/ ShufSteps
MCNext   == AllSteps \/ RandMainErrors \/ RandAllErrors \/ FileChanges

MCVars == <<vars, program, shufvars>>
MCSpec == MCInit /\ [][MCNext]_MCVars /\ WF_MCVars(AllSteps)
------------------------------------------------------------------------------
(* With a count, shuf gets stuck only over lines that occur twice, or if    *)
(* the file has changed meanwhile.                                          *)
StuckOnlyOverDuplicates == program = "shuf" => S!StuckOnlyOverDuplicates

(* shuf prints as many lines as it was asked for, from the range.           *)
PrintsWhatWasAsked == program = "shuf" => S!PrintsWhatWasAsked
===============================================================================
