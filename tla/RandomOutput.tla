---------------------------- MODULE RandomOutput ----------------------------
(***************************************************************************)
(* What randall and randmain promise: NBYTES random bytes in hexadecimal   *)
(* on standard output, a line for every word; status 0 only if all of it   *)
(* is out, and never a piece of it missing in the middle.                  *)
(***************************************************************************)
EXTENDS Integers, Sequences

CONSTANTS WordSize, Arguments

VARIABLES argument, device, status

vars == <<argument, device, status>>

(* The characters of the output: only which are digits matters.             *)
Wanted(n) ==
  LET line  == 2 * WordSize + 1
      words == (n + WordSize - 1) \div WordSize
      size  == 2 * n + words
  IN  [i \in 1..size |-> IF i % line = 0 \/ i = size THEN "newline" ELSE "digit"]

Size(n) == IF n > 0 THEN n ELSE 0

Init ==
  /\ argument \in Arguments
  /\ device = <<>>
  /\ status = "running"

Write ==
  /\ status = "running"
  /\ \E n \in 1..Len(Wanted(Size(argument))) :
       /\ n > Len(device)
       /\ device' = SubSeq(Wanted(Size(argument)), 1, n)
  /\ UNCHANGED <<argument, status>>

Succeed ==
  /\ status = "running"
  /\ argument >= 0
  /\ device = Wanted(argument)
  /\ status' = "exit 0"
  /\ UNCHANGED <<argument, device>>

Fail ==
  /\ status = "running"
  /\ status' \in {"exit 1", "abort"}
  /\ UNCHANGED <<argument, device>>

Spec == Init /\ [][Write \/ Succeed \/ Fail]_vars
==============================================================================
