----------------------------- MODULE SortedWords -----------------------------
(***************************************************************************)
(* What sfrob and sfrobu promise: to print the words of the input in the   *)
(* order of their unfrobnicated texts, or to fail on the way.              *)
(***************************************************************************)
EXTENDS Frobnication

CONSTANT Texts

VARIABLES input, printed, status

vars == <<input, printed, status>>

Init ==
  /\ input \in Texts
  /\ printed = <<>>
  /\ status = "working"

Remaining == { w \in WordsOf(input) : TimesListed(printed, w) < TimesIn(input, w) }

PrintNext ==
  /\ status = "working"
  /\ \E w \in Remaining :
       /\ \A v \in Remaining : ~ Before(Plain(v), Plain(w))
       /\ printed' = Append(printed, w)
  /\ UNCHANGED <<input, status>>

Succeed ==
  /\ status = "working"
  /\ Remaining = {}
  /\ status' = "done"
  /\ UNCHANGED <<input, printed>>

Fail ==
  /\ status = "working"
  /\ status' = "failed"
  /\ UNCHANGED <<input, printed>>

Spec == Init /\ [][PrintNext \/ Succeed \/ Fail]_vars
==============================================================================
