------------------------------- MODULE RandLoop -------------------------------
(***************************************************************************)
(* What randall.c and randmain.c have in common: the check of the          *)
(* argument, writebytes, the loop around it, and how its errors are kept.  *)
(* putchar fills stdout's buffer, which stdio writes to a device that may  *)
(* fail at any time.                                                       *)
(***************************************************************************)
EXTENDS Integers, Sequences, FiniteSetsExt

CONSTANTS
  WordSize,    (* sizeof rand64 ()                                          *)
  BufferSize,  (* the size of stdout's buffer                               *)
  Arguments,   (* what strtoll makes of the argument, or                    *)
  NoNumber     (* what it is not to be: not there, out of range, not all of *)
               (* it a number; a negative number                            *)

ASSUME SizeAssumption ==
  /\ WordSize \in Nat \ {0}
  /\ BufferSize \in Nat \ {0}
  /\ NoNumber \in Int /\ NoNumber < 0
  /\ Arguments \subseteq Int

VARIABLES
  pc,          (* "start", "library", "word", "digits", "newline", "close", *)
               (* "report", and how it ended                                *)
  argument,
  nbytes,      (* the bytes left to do                                      *)
  ndigits,     (* the digits of this word left to do                        *)
  buffer,      (* the characters stdio holds                                *)
  device,      (* the characters that are out                               *)
  output_errno

loopVars == <<pc, argument, nbytes, ndigits, buffer, device, output_errno>>

Ended == {"exit 0", "exit 1", "abort"}

LoopInit ==
  /\ pc = "start"
  /\ argument \in Arguments \cup {NoNumber}
  /\ nbytes = 0
  /\ ndigits = 0
  /\ buffer = <<>>
  /\ device = <<>>
  /\ output_errno = 0

Goto(label) ==
  /\ pc' = label
  /\ UNCHANGED <<argument, nbytes, ndigits, buffer, device, output_errno>>

(* Nothing is done for 0 bytes, not even standard output closed.            *)
CheckArgument ==
  /\ pc = "start"
  /\ nbytes' = argument
  /\ \/ argument < 0 /\ pc' = "exit 1"
     \/ argument = 0 /\ pc' = "exit 0"
     \/ argument > 0 /\ pc' = "library"
  /\ UNCHANGED <<argument, ndigits, buffer, device, output_errno>>
------------------------------------------------------------------------------
(***************************************************************************)
(* stdio: a full buffer is written before the next character goes into it. *)
(* A write that fails may have written a part; the rest is dropped, errno  *)
(* set and EOF returned.                                                   *)
(***************************************************************************)
PutOk(c) ==
  IF Len(buffer) < BufferSize
  THEN buffer' = Append(buffer, c) /\ UNCHANGED device
  ELSE buffer' = <<c>> /\ device' = device \o buffer

PutFails ==
  /\ Len(buffer) = BufferSize
  /\ \E n \in 0..(Len(buffer) - 1) : device' = device \o SubSeq(buffer, 1, n)
  /\ buffer' = <<>>

Errno == 1
------------------------------------------------------------------------------
(* x = rand64 () has returned; the word is taken to hold as many digits as  *)
(* it will be asked for.                                                    *)
Outbytes == Min({nbytes, WordSize})

StartWord ==
  /\ pc = "word"
  /\ ndigits' = 2 * Outbytes
  /\ pc' = "digits"
  /\ UNCHANGED <<argument, nbytes, buffer, device, output_errno>>

PutDigit ==
  /\ pc = "digits"
  /\ PutOk("digit")
  /\ ndigits' = ndigits - 1
  /\ pc' = IF ndigits' > 0 THEN "digits" ELSE "newline"
  /\ UNCHANGED <<argument, nbytes, output_errno>>

PutNewline ==
  /\ pc = "newline"
  /\ PutOk("newline")
  /\ nbytes' = nbytes - Outbytes
  /\ pc' = IF nbytes' > 0 THEN "word" ELSE "close"
  /\ UNCHANGED <<argument, ndigits, output_errno>>

(* writebytes returns false: break                                          *)
OnWithNewline == IF pc = "digits" THEN "newline" ELSE "close"
AfterFailure  == "close"

PutError ==
  /\ pc \in {"digits", "newline"}
  /\ PutFails
  /\ output_errno' = Errno
  /\ pc' = AfterFailure
  /\ UNCHANGED <<argument, nbytes, ndigits>>

(* fclose (stdout) writes what is left.                                     *)
KeptErrno == output_errno

CloseOk ==
  /\ pc = "close"
  /\ device' = device \o buffer
  /\ buffer' = <<>>
  /\ output_errno' = KeptErrno
  /\ pc' = "report"
  /\ UNCHANGED <<argument, nbytes, ndigits>>

CloseErrno == Errno

CloseError ==
  /\ pc = "close"
  /\ \E n \in 0..Len(buffer) : device' = device \o SubSeq(buffer, 1, n)
  /\ buffer' = <<>>
  /\ output_errno' = CloseErrno
  /\ pc' = "report"
  /\ UNCHANGED <<argument, nbytes, ndigits>>

Loop == StartWord \/ PutDigit \/ PutNewline \/ PutError \/ CloseOk \/ CloseError

Status == IF output_errno # 0 THEN "exit 1" ELSE "exit 0"
------------------------------------------------------------------------------
(***************************************************************************)
(* Standard output is what was promised: see RandomOutput.                 *)
(***************************************************************************)
Promise == INSTANCE RandomOutput WITH
             Arguments <- Arguments \cup {NoNumber},
             status    <- IF pc \in Ended THEN pc ELSE "running"

KeepsPromise == Promise!Spec
==============================================================================
