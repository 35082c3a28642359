------------------------------ MODULE MCFilters ------------------------------
(***************************************************************************)
(* An instance of the four programs that filter their standard input       *)
(* character by character: Tr2u, Tr2b, Sfrobu and Sfrob.  One of them      *)
(* runs; the variables only the others have do not change.                 *)
(***************************************************************************)
EXTENDS Frobnication, Tr2

CONSTANTS
  Garbage,                         (* of Tr2u                               *)
  SfrobTexts, SfrobuTexts,         (* what sfrob and sfrobu can be given    *)
  Modes, CommandLines, Heap, Growths, MaxChanges            (* of Sfrobu    *)

(* All of it is bytes.                                                      *)
ASSUME BytesAssumption ==
  /\ Inputs \subseteq Seq(Byte) /\ Garbage \subseteq Byte
  /\ SfrobTexts \subseteq Seq(Byte) /\ SfrobuTexts \subseteq Seq(Byte)
  /\ Heap \subseteq Byte /\ Growths \subseteq Byte

VARIABLES
  program, pc, rest,
  from, to, input, c, failed, output,                     (* those of Tr2u  *)
  argument, mode, ignore_case, original, text, changes, maxBuffSize, buffer,
  myWord, wordList, endOfWord, prevNumChars, printed      (* those of Sfrobu *)

(* The values of the instance; the lengths are bounds.                      *)
MCArguments ==
  { <<a, b>> : a \in { <<>>, <<97>>, <<97, 98>>, <<97, 97>> },
               b \in { <<>>, <<98>>, <<98, 97>> } }
MCInputs      == UNION { [1..n -> {97, 98, 99, 200, 255}] : n \in 0..4 }
MCSfrobTexts  == UNION { [1..n -> {0, 32, 72, 200, 255}] : n \in 0..5 }
MCSfrobuTexts == UNION { [1..n -> {32, 72, 200}] : n \in 0..4 }

MCOnePair     == { <<<<97>>, <<98>>>> }
MCShortInputs == { <<>>, <<97>>, <<97, 99>> }

T == INSTANCE Tr2u
B == INSTANCE Tr2b
A == INSTANCE Sfrob WITH Texts <- SfrobTexts
U == INSTANCE Sfrobu WITH Texts <- SfrobuTexts, Arguments <- CommandLines

tr2vars   == <<from, to, input, c, failed, output>>
sortvars  == <<text, myWord, wordList, endOfWord, prevNumChars, printed>>
filevars  == <<argument, mode, ignore_case, original, changes, maxBuffSize, buffer>>

Tr2Idle  == from = <<>> /\ to = <<>> /\ input = <<>> /\ c = 0 /\ failed = FALSE /\ output = <<>>
SortIdle == text = <<>> /\ myWord = <<>> /\ wordList = <<>> /\ endOfWord = FALSE
            /\ prevNumChars = -1 /\ printed = <<>>
FileIdle == argument = "none" /\ mode = "none" /\ ignore_case = FALSE /\ original = <<>>
            /\ changes = <<>> /\ maxBuffSize = 0 /\ buffer = <<>>

MCInit ==
  \/ program \in {"tr2b", "tr2u"} /\ T!Init /\ SortIdle /\ FileIdle
  \/ program = "sfrob" /\ A!Init /\ Tr2Idle /\ FileIdle
  \/ program = "sfrobu" /\ U!Init /\ Tr2Idle

SfrobSteps  == program = "sfrob" /\ A!Steps /\ UNCHANGED <<program, tr2vars, filevars>>
SfrobuSteps == program = "sfrobu" /\ U!Steps /\ UNCHANGED <<program, tr2vars>>

MCNext ==
  \/ program = "tr2u" /\ T!Next /\ UNCHANGED <<program, sortvars, filevars>>
  \/ program = "tr2b" /\ B!Next /\ UNCHANGED <<program, c, failed, sortvars, filevars>>
  \/ SfrobSteps
  \/ program = "sfrob" /\ A!Errors /\ UNCHANGED <<program, tr2vars, filevars>>
  \/ SfrobuSteps
  \/ program = "sfrobu" /\ (U!Errors \/ U!FileShrinks \/ U!FileGrows)
     /\ UNCHANGED <<program, tr2vars>>

MCVars == <<program, pc, rest, tr2vars, sortvars, filevars>>
MCSpec == MCInit /\ [][MCNext]_MCVars /\ WF_MCVars(SfrobSteps \/ SfrobuSteps)
------------------------------------------------------------------------------
(***************************************************************************)
(* tr2u writes the translation of its input but the first character, and   *)
(* the last one read twice if a read fails; tr2b that of what it takes for *)
(* its input, and one character more for the end.                          *)
(***************************************************************************)
Translates ==
  /\ program = "tr2u" => T!TranslatesItsInput
  /\ program = "tr2b" => B!TranslatesItsInput

(***************************************************************************)
(* lab.txt: tr2b gets each individual character and puts the character as  *)
(* output, translated if it is in from, tr2u "in the same way"; both "ran  *)
(* this with no problem".  What a run writes that ends without a failing   *)
(* read would be the translation of its input.  Expected to be violated.   *)
(***************************************************************************)
TranslatesEachCharacter ==
  program \in {"tr2b", "tr2u"} /\ pc = "done" /\ ~ failed =>
    IsTranslation(from, to, input, output)

(* sfrob and sfrobu print every word as often as it is in what they take    *)
(* for their input, and nothing else.                                       *)
PrintsTheWords ==
  /\ program = "sfrob"  => A!PrintsTheWords
  /\ program = "sfrobu" => U!PrintsTheWords

(* sfrob and sfrobu read memory behind a word only over a NUL, a last word  *)
(* that lacks its space, or (sfrobu) a truncated file or a leading space.   *)
OverrunsOnlyOf ==
  /\ program = "sfrob"  => A!OverrunsOnlyOf
  /\ program = "sfrobu" => U!OverrunsOnlyOf

(* sfrob stops, and so does sfrobu unless its input ends with two spaces.   *)
Stops ==
  /\ program = "sfrob"  => <>(pc \in A!Ended)
  /\ program = "sfrobu" => <>(pc \in U!Ended) \/ <>[]U!Spins

(***************************************************************************)
(* Whichever of sfrob and sfrobu runs does what SortedWords promises, as   *)
(* far as its input is fit for it; tr2 promises nothing of the kind.       *)
(***************************************************************************)
PromisedInput   == IF program = "sfrobu" THEN original ELSE text
PromisedPrinted ==
  IF program = "sfrob" THEN A!PrintedIfFit
  ELSE IF program = "sfrobu" THEN U!PrintedIfKept
  ELSE <<>>
PromisedStatus  ==
  IF program = "sfrob" THEN A!StatusIfFit
  ELSE IF program = "sfrobu" THEN U!StatusIfKept
  ELSE "working"

Promise == INSTANCE SortedWords WITH
  Texts   <- {<<>>} \cup SfrobTexts \cup SfrobuTexts,
  input   <- PromisedInput,
  printed <- PromisedPrinted,
  status  <- PromisedStatus

ImplementsSortedWords == Promise!Spec
==============================================================================
