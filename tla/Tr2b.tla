--------------------------------- MODULE Tr2b ---------------------------------
(***************************************************************************)
(* tr2b.c: tr with getchar and putchar.                                    *)
(***************************************************************************)
EXTENDS Tr2

VARIABLES
  pc,          (* "check", "read" and how it ended                          *)
  from, to, input, rest,
  output

vars == <<pc, from, to, input, rest, output>>

EOF == 255     (* -1 as a char                                              *)

Init ==
  /\ pc = "check"
  /\ \E p \in Arguments : from = p[1] /\ to = p[2]
  /\ input \in Inputs
  /\ rest = input
  /\ output = <<>>

Reject ==
  /\ pc = "check"
  /\ ~ Accepted(from, to)
  /\ pc' = "exit 1"
  /\ UNCHANGED <<from, to, input, rest, output>>

(* c is compared with EOF before it has a value.                            *)
Accept ==
  /\ pc = "check"
  /\ Accepted(from, to)
  /\ pc' \in {"read", "never read"}
  /\ UNCHANGED <<from, to, input, rest, output>>

Read == IF rest = <<>> THEN EOF ELSE Head(rest)

(* The end is translated like a character, and so is looked up at -1.       *)
StopsAt(c) == c = EOF

Translate ==
  /\ pc = "read"
  /\ \E c \in Translations(from, to, Read) : output' = Append(output, c)
  /\ rest' = IF rest = <<>> THEN rest ELSE Tail(rest)
  /\ pc' = IF StopsAt(Read) THEN "done" ELSE "read"
  /\ UNCHANGED <<from, to, input>>

Next == Reject \/ Accept \/ Translate

Spec == Init /\ [][Next]_vars
------------------------------------------------------------------------------
(* The input as getchar's char tells it: up to the first character 255      *)
Taken ==
  LET ends == { i \in DOMAIN input : input[i] = EOF }
  IN  IF ends = {} THEN input
      ELSE SubSeq(input, 1, (CHOOSE i \in ends : \A j \in ends : i <= j) - 1)

(***************************************************************************)
(* A run that ends well has written the translation of its input up to the *)
(* first character 255, and one more character for the end.                *)
(***************************************************************************)
TranslatesItsInput ==
  pc = "done" => IsTranslation(from, to, Append(Taken, EOF), output)
==============================================================================
