--------------------------------- MODULE Tr2u ---------------------------------
(***************************************************************************)
(* tr2u.c: tr with read and write, one character at a time.                *)
(***************************************************************************)
EXTENDS Tr2

CONSTANT Garbage  (* what c can be before it has a value                    *)

VARIABLES
  pc,             (* "check", "first", "read" and how it ended              *)
  from, to, input, rest,
  c,
  failed,         (* whether read has failed (history)                      *)
  output

vars == <<pc, from, to, input, rest, c, failed, output>>

Init ==
  /\ pc = "check"
  /\ \E p \in Arguments : from = p[1] /\ to = p[2]
  /\ input \in Inputs
  /\ rest = input
  /\ c \in Garbage
  /\ failed = FALSE
  /\ output = <<>>

Reject ==
  /\ pc = "check"
  /\ ~ Accepted(from, to)
  /\ pc' = "exit 1"
  /\ UNCHANGED <<from, to, input, rest, c, failed, output>>

Accept ==
  /\ pc = "check"
  /\ Accepted(from, to)
  /\ pc' = "first"
  /\ UNCHANGED <<from, to, input, rest, c, failed, output>>

(* The read before the loop: its character is overwritten by the next.      *)
ReadFirst ==
  /\ pc = "first"
  /\ IF rest = <<>> THEN UNCHANGED <<rest, c>>
                     ELSE rest' = Tail(rest) /\ c' = Head(rest)
  /\ pc' = "read"
  /\ UNCHANGED <<from, to, input, failed, output>>

ReadFirstFails ==
  /\ pc = "first"
  /\ pc' = "exit 1"
  /\ failed' = TRUE
  /\ UNCHANGED <<from, to, input, rest, c, output>>

Translate ==
  /\ pc = "read"
  /\ rest # <<>>
  /\ c' = Head(rest)
  /\ rest' = Tail(rest)
  /\ \E d \in Translations(from, to, c') : output' = Append(output, d)
  /\ UNCHANGED <<pc, from, to, input, failed>>

(* result is 0                                                              *)
EndOfInput ==
  /\ pc = "read"
  /\ rest = <<>>
  /\ pc' = "done"
  /\ UNCHANGED <<from, to, input, rest, c, failed, output>>

(* result is negative: what c still holds is written once more.             *)
ReadFails ==
  /\ pc = "read"
  /\ \E d \in Translations(from, to, c) : output' = Append(output, d)
  /\ failed' = TRUE
  /\ pc' = "done"
  /\ UNCHANGED <<from, to, input, rest, c>>

Next ==
  \/ Reject \/ Accept \/ ReadFirst \/ ReadFirstFails
  \/ Translate \/ EndOfInput \/ ReadFails

Spec == Init /\ [][Next]_vars
------------------------------------------------------------------------------
(***************************************************************************)
(* A run that ends has written the translation of its input but the first  *)
(* character; if read has failed, the last character it got is there once  *)
(* more.                                                                   *)
(***************************************************************************)
TranslatesItsInput ==
  pc = "done" =>
    IF failed
    THEN LET n == Len(input) - Len(rest)
         IN  IsTranslation(from, to, Append(SubSeq(input, 2, n), c), output)
             /\ (n > 0 => c = input[n])
    ELSE IsTranslation(from, to, IF input = <<>> THEN input ELSE Tail(input), output)
==============================================================================
