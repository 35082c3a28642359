------------------------------- MODULE RandMain -------------------------------
(***************************************************************************)
(* randmain.c with randlibhw.c, randlibsw.c and randcpuid.c: the source of *)
(* random numbers is a library that is loaded when it is needed.           *)
(***************************************************************************)
EXTENDS RandLoop

VARIABLES
  supported,   (* rdrand_supported ()                                       *)
  loaded,      (* whether the library is loaded                             *)
  stream       (* urandstream: "none", "open" or "closed"                   *)

vars == <<loopVars, supported, loaded, stream>>

Init ==
  /\ LoopInit
  /\ supported \in BOOLEAN
  /\ loaded = FALSE
  /\ stream = "none"

Check == CheckArgument /\ UNCHANGED <<supported, loaded, stream>>

(* The constructor of randlibsw.so opens /dev/urandom.                      *)
OpenLibrary ==
  /\ pc = "library"
  /\ ~ loaded
  /\ loaded' = TRUE
  /\ stream' = IF supported THEN "none" ELSE "open"
  /\ UNCHANGED <<loopVars, supported>>

ConstructorAborts ==
  /\ pc = "library"
  /\ ~ loaded
  /\ ~ supported
  /\ Goto("abort")
  /\ UNCHANGED <<supported, loaded, stream>>

NoLibrary ==
  /\ pc = "library"
  /\ ~ loaded
  /\ Goto("exit 1")
  /\ UNCHANGED <<supported, loaded, stream>>

FindSymbol ==
  /\ pc = "library"
  /\ loaded
  /\ Goto("word")
  /\ UNCHANGED <<supported, loaded, stream>>

(* Destructors run when the library is unloaded: by dlclose or at exit.     *)
LeaveLoaded == UNCHANGED <<supported, loaded, stream>>

Unload ==
  /\ loaded' = FALSE
  /\ stream' = IF stream = "open" THEN "closed" ELSE stream
  /\ UNCHANGED supported

NoSymbol ==
  /\ pc = "library"
  /\ loaded
  /\ Goto("exit 1")
  /\ Unload

(* fread of /dev/urandom fails; rdrand is repeated until it succeeds.       *)
ReadAborts ==
  /\ pc = "word"
  /\ ~ supported
  /\ Goto("abort")
  /\ UNCHANGED <<supported, loaded, stream>>

RunLoop == Loop /\ UNCHANGED <<supported, loaded, stream>>

Report ==
  /\ pc = "report"
  /\ Goto(Status)
  /\ Unload

Steps == Check \/ OpenLibrary \/ FindSymbol \/ RunLoop \/ Report
Errors == ConstructorAborts \/ NoLibrary \/ NoSymbol \/ ReadAborts

Next == Steps \/ Errors

Spec == Init /\ [][Next]_vars /\ WF_vars(Steps)
------------------------------------------------------------------------------
(***************************************************************************)
(* /dev/urandom is opened only if rdrand is missing and there is work to   *)
(* do, and closed on every way out but abort; nothing is left in stdout's  *)
(* buffer then.                                                            *)
(***************************************************************************)
LeavesNothingOpen ==
  /\ stream # "none" => ~ supported /\ argument > 0
  /\ pc \in {"exit 0", "exit 1"} => stream # "open" /\ ~ loaded /\ buffer = <<>>
==============================================================================
