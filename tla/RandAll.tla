------------------------------- MODULE RandAll -------------------------------
(***************************************************************************)
(* randall.c: both sources of random numbers in the program, chosen as     *)
(* function pointers initialize, rand64 and finalize.                      *)
(***************************************************************************)
EXTENDS RandLoop

VARIABLES
  supported,   (* rdrand_supported ()                                       *)
  stream       (* urandstream: "none", "open" or "closed"                   *)

vars == <<loopVars, supported, stream>>

Init ==
  /\ LoopInit
  /\ supported \in BOOLEAN
  /\ stream = "none"

Check == CheckArgument /\ UNCHANGED <<supported, stream>>

Initialize ==
  /\ pc = "library"
  /\ stream' = IF supported THEN "none" ELSE "open"
  /\ Goto("word")
  /\ UNCHANGED supported

InitializeAborts ==
  /\ pc = "library"
  /\ ~ supported
  /\ Goto("abort")
  /\ UNCHANGED <<supported, stream>>

ReadAborts ==
  /\ pc = "word"
  /\ ~ supported
  /\ Goto("abort")
  /\ UNCHANGED <<supported, stream>>

RunLoop == Loop /\ UNCHANGED <<supported, stream>>

(* finalize ()                                                              *)
Finalized == IF supported THEN stream ELSE "closed"

Report ==
  /\ pc = "report"
  /\ Goto(Status)
  /\ stream' = Finalized
  /\ UNCHANGED supported

Steps == Check \/ Initialize \/ RunLoop \/ Report
Errors == InitializeAborts \/ ReadAborts

Next == Steps \/ Errors

(* Its properties are those of RandMain: the library is never loaded.       *)
Spec == Init /\ [][Next]_vars /\ WF_vars(Steps)
==============================================================================
