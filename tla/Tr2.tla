--------------------------------- MODULE Tr2 ---------------------------------
(***************************************************************************)
(* What tr2b.c and tr2u.c share: the check of their two arguments and the  *)
(* table asciiArray.  A character is its byte; as a signed char it is an   *)
(* index of the table only up to 127.                                      *)
(***************************************************************************)
EXTENDS Integers, Sequences, Functions

CONSTANTS
  Arguments,  (* pairs from, to of sequences of characters up to 127        *)
  Inputs      (* what can be on standard input                              *)

ASSUME ArgumentsAssumption ==
  \A p \in Arguments : p[1] \in Seq(1..127) /\ p[2] \in Seq(1..255)

NUL == 0

SameLengths(from, to) == Len(from) = Len(to)

(* The lengths are equal, and no character is found marked by one before it. *)
Accepted(from, to) ==
  /\ Len(from) = Len(to)
  /\ \A i \in DOMAIN from : \A j \in 1..(i - 1) : from[j] # from[i]

(* the last match of the loop over from                                     *)
CharIndex(from, c) ==
  CHOOSE j \in DOMAIN from : from[j] = c /\ \A k \in DOMAIN from : from[k] = c => k <= j

(***************************************************************************)
(* The character written for c.  A negative index reads the stack: if that *)
(* byte is 1 by chance, c is not found in from, and to[-1], the end of the *)
(* argument before it, is written.                                         *)
(***************************************************************************)
Translations(from, to, c) ==
  IF c \in Range(from) THEN { to[CharIndex(from, c)] }
  ELSE IF c < 128 THEN {c} ELSE {c, NUL}
------------------------------------------------------------------------------
(***************************************************************************)
(* out is in with every character of from replaced by the one at its place *)
(* in to (at any of its places: the code refuses to have several), and the *)
(* others as they are; above 127 the stack may make it a NUL.              *)
(***************************************************************************)
IsTranslation(from, to, in, out) ==
  /\ Len(out) = Len(in)
  /\ \A i \in DOMAIN in :
       /\ \A j \in DOMAIN from : in[i] = from[j] => out[i] = to[j]
       /\ in[i] \notin Range(from) => out[i] \in {in[i]} \cup (IF in[i] > 127 THEN {NUL} ELSE {})
==============================================================================
