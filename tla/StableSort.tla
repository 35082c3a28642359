------------------------------ MODULE StableSort ------------------------------
(***************************************************************************)
(* What sort promises of one buffer: the lines come out by key, lines of   *)
(* the same key in the order they came in; with -u, the first line of each *)
(* key only.                                                               *)
(***************************************************************************)
EXTENDS Naturals, Sequences

VARIABLES
  input,     (* the keys of the lines                     *)
  unique,    (* -u                                        *)
  out        (* the lines written: their places in input  *)

Before(i, j) == input[i] < input[j] \/ (input[i] = input[j] /\ i < j)

(* Whatever comes before i is out, or not wanted. *)
Next1(i) ==
  /\ i \in DOMAIN input
  /\ \A k \in DOMAIN out : out[k] # i
  /\ unique => \A j \in DOMAIN input : j < i => input[j] # input[i]
  /\ \A j \in DOMAIN input : Before(j, i) =>
       \/ \E k \in DOMAIN out : out[k] = j
       \/ unique /\ \E i2 \in DOMAIN input : i2 < j /\ input[i2] = input[j]

Init == out = <<>>

Write ==
  /\ UNCHANGED <<input, unique>>
  /\ \E i \in DOMAIN input : Next1(i) /\ out' = Append(out, i)

Spec == Init /\ [][Write]_<<input, unique, out>>

Complete == \A i \in DOMAIN input : ~Next1(i)
===============================================================================
