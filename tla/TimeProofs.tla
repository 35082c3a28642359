------------------------------ MODULE TimeProofs ------------------------------
(***************************************************************************)
(* The programs that deal with time, timeout and ls -t.                    *)
(*                                                                         *)
(* timeout sends signals to no process but the command, and leaves the     *)
(* command behind only where its code lets it, whatever the options, the   *)
(* inherited mask, the command, and the signals that others send.          *)
(*                                                                         *)
(* Of the comparisons of ls -t, for ints of every width, the corrected one *)
(* is right for all times, the old one for times less than Half seconds    *)
(* apart.                                                                  *)
(***************************************************************************)
EXTENDS Timeout, Timespec, SequenceTheorems, TLAPS

Places == {"cleanup", "test", "kill_after", "settimeout", "send", "group", "cont", "return"}
Activation == [no : Handled \cup {"CHLD"}, sig : Term \cup {"CHLD"}, at : Places]

TypeInv ==
  /\ options \in Options
  /\ inherited \in SUBSET Handled
  /\ handlers \in Seq(Activation)
  /\ pending \subseteq Registered \cup {"CHLD"}

(* term_signal is KILL only because -k has been given.                      *)
KillInv ==
  /\ term_signal \in {options.signal, "KILL"}
  /\ kill_after \/ term_signal # options.signal => options.kill_after
  /\ \A i \in DOMAIN handlers :
       handlers[i].at \in {"kill_after", "settimeout"} => options.kill_after

(* The one case in which signals may go astray.                             *)
Excepted == options.kill_after /\ options.signal = "USR1" /\ term_signal = "KILL"

(* From block_cleanup_and_chld on, all that has the handler is blocked.     *)
BlockedInv ==
  pc \in {"poll", "suspend", "reaped"} => Registered \cup {"CHLD"} \subseteq blocked \/ Excepted

(* So no handler runs once the command has been waited for.                 *)
ReapedInv ==
  /\ pc = "fork" => child = "none"
  /\ child = "reaped" => pc \in {"reaped", "done"}
  /\ pc = "reaped" => child = "reaped" /\ (handlers = <<>> \/ Excepted)
  /\ stray => Excepted

LeftInv == pc = "done" /\ child \in Alive => ~monitored_pid \/ "KILL" \in waiting

SafeInv == TypeInv /\ KillInv /\ BlockedInv /\ ReapedInv /\ LeftInv
------------------------------------------------------------------------------
(* The handlers with one more.                                              *)
LEMMA PushFacts ==
  ASSUME NEW S, NEW s \in Seq(S), NEW act \in S
  PROVE  /\ <<act>> \o s \in Seq(S)
         /\ <<act>> \o s # <<>>
         /\ \A i \in DOMAIN (<<act>> \o s) :
              (<<act>> \o s)[i] = act \/ \E k \in DOMAIN s : (<<act>> \o s)[i] = s[k]
  BY ConcatProperties, LenProperties

(* The innermost handler, and the others.                                   *)
LEMMA PopFacts ==
  ASSUME NEW S, NEW s \in Seq(S), s # <<>>
  PROVE  /\ Head(s) \in S /\ Head(s) = s[1] /\ 1 \in DOMAIN s
         /\ Tail(s) \in Seq(S)
         /\ \A i \in DOMAIN Tail(s) : \E k \in DOMAIN s : Tail(s)[i] = s[k]
  BY HeadTailProperties, LenProperties, EmptySeq

(* What the options are made of (main reads them with getopt_long).         *)
LEMMA OptionFields ==
  ASSUME TypeInv
  PROVE  options.signal \in Term /\ options.kill_after \in BOOLEAN
  BY OptionsAssumption DEF TypeInv

(* The steps of the main program do not touch the handlers.                 *)
LEMMA ForkSafe ==
  ASSUME SafeInv, Fork
  PROVE  SafeInv'
  <1>. USE OptionFields DEF SafeInv, Excepted, Registered, Fork, Exit, Main, static, globals, signals, command
  <1>1. TypeInv'     BY DEF TypeInv
  <1>2. KillInv'     BY DEF KillInv
  <1>3. BlockedInv'  BY DEF BlockedInv, KillInv, Term, Handled
  <1>4. ReapedInv'   BY DEF ReapedInv, Term, Handled
  <1>5. LeftInv'     BY DEF LeftInv, ReapedInv, Alive
  <1>. QED BY <1>1, <1>2, <1>3, <1>4, <1>5

(* main stores the number of the command.                                   *)
LEMMA SetMonitoredPidSafe ==
  ASSUME SafeInv, SetMonitoredPid
  PROVE  SafeInv'
  <1>. USE OptionFields DEF SafeInv, Excepted, Registered, SetMonitoredPid, Main, static, globals, signals, command
  <1>1. TypeInv'     BY DEF TypeInv
  <1>2. KillInv'     BY DEF KillInv
  <1>3. BlockedInv'  BY DEF BlockedInv, KillInv, Term, Handled
  <1>4. ReapedInv'   BY DEF ReapedInv, Term, Handled
  <1>5. LeftInv'     BY DEF LeftInv, ReapedInv, Alive
  <1>. QED BY <1>1, <1>2, <1>3, <1>4, <1>5

(* main unblocks ALRM, and starts the timer.                                *)
LEMMA StartTimerSafe ==
  ASSUME SafeInv, StartTimer
  PROVE  SafeInv'
  <1>. USE OptionFields DEF SafeInv, Excepted, Registered, StartTimer, Unblocked, Main, static, globals, signals, command
  <1>1. TypeInv'     BY DEF TypeInv
  <1>2. KillInv'     BY DEF KillInv
  <1>3. BlockedInv'  BY DEF BlockedInv, KillInv, Term, Handled
  <1>4. ReapedInv'   BY DEF ReapedInv, Term, Handled
  <1>5. LeftInv'     BY DEF LeftInv, ReapedInv, Alive
  <1>. QED BY <1>1, <1>2, <1>3, <1>4, <1>5

(* block_cleanup_and_chld blocks all that has the handler.                  *)
LEMMA BlockCleanupAndChldSafe ==
  ASSUME SafeInv, BlockCleanupAndChld
  PROVE  SafeInv'
  <1>. USE OptionFields DEF SafeInv, Excepted, Registered, BlockCleanupAndChld, ToBlock, Main, static, globals, signals, command
  <1>1. TypeInv'     BY DEF TypeInv
  <1>2. KillInv'     BY DEF KillInv
  <1>3. BlockedInv'  BY DEF BlockedInv, KillInv, Term, Handled
  <1>4. ReapedInv'   BY DEF ReapedInv, Term, Handled
  <1>5. LeftInv'     BY DEF LeftInv, ReapedInv, Alive
  <1>. QED BY <1>1, <1>2, <1>3, <1>4, <1>5

(* waitpid and sigsuspend, with that blocked.                               *)
LEMMA WaitpidSafe ==
  ASSUME SafeInv, Waitpid
  PROVE  SafeInv'
  <1>. USE OptionFields DEF SafeInv, Excepted, Registered, Waitpid, Main, static, globals, signals, command
  <1>1. TypeInv'     BY DEF TypeInv
  <1>2. KillInv'     BY DEF KillInv
  <1>3. BlockedInv'  BY DEF BlockedInv, KillInv, Term, Handled
  <1>4. ReapedInv'   BY DEF ReapedInv, Term, Handled
  <1>5. LeftInv'     BY DEF LeftInv, ReapedInv, Alive
  <1>. QED BY <1>1, <1>2, <1>3, <1>4, <1>5

(* main returns when the command has been waited for.                       *)
LEMMA ReturnSafe ==
  ASSUME SafeInv, Return
  PROVE  SafeInv'
  <1>. USE OptionFields DEF SafeInv, Excepted, Registered, Return, Exit, Main, static, globals, signals, command
  <1>1. TypeInv'     BY DEF TypeInv
  <1>2. KillInv'     BY DEF KillInv
  <1>3. BlockedInv'  BY DEF BlockedInv, KillInv, Term, Handled
  <1>4. ReapedInv'   BY DEF ReapedInv, Term, Handled
  <1>5. LeftInv'     BY DEF LeftInv, ReapedInv, Alive
  <1>. QED BY <1>1, <1>2, <1>3, <1>4, <1>5
------------------------------------------------------------------------------
(* What a handler's going on leaves true of the activations.                *)
LEMMA GoesOn ==
  ASSUME TypeInv, KillInv, handlers # <<>>, NEW act \in Activation,
         act.at \in {"kill_after", "settimeout"} => options.kill_after,
         handlers' = <<act>> \o Tail(handlers)
  PROVE  /\ handlers' \in Seq(Activation) /\ handlers' # <<>>
         /\ \A i \in DOMAIN handlers' :
              handlers'[i].at \in {"kill_after", "settimeout"} => options.kill_after
  <1>. USE DEF TypeInv, KillInv
  <1>1. PICK t \in Seq(Activation) : t = Tail(handlers)  BY PopFacts
  <1>2. \A i \in DOMAIN t : \E k \in DOMAIN handlers : t[i] = handlers[k]  BY <1>1, PopFacts
  <1>3. /\ handlers' \in Seq(Activation) /\ handlers' # <<>>
        /\ \A i \in DOMAIN handlers' : handlers'[i] = act \/ \E k \in DOMAIN t : handlers'[i] = t[k]
    BY <1>1, PushFacts
  <1>. QED BY <1>2, <1>3

(* A handler that is somewhere in its code is the innermost one.            *)
LEMMA Place ==
  ASSUME TypeInv, KillInv, NEW p \in Places, At(p)
  PROVE  /\ handlers # <<>> /\ pc # "done"
         /\ Head(handlers) \in Activation /\ Head(handlers).at = p
         /\ p \in {"kill_after", "settimeout"} => options.kill_after
  BY PopFacts DEF TypeInv, KillInv, At

(* It goes on to what only -k leads to if -k has been given.                *)
LEMMA GotoSafe ==
  ASSUME TypeInv, KillInv, handlers # <<>>, NEW p \in Places, Goto(p),
         p \in {"kill_after", "settimeout"} => options.kill_after
  PROVE  /\ handlers' \in Seq(Activation) /\ handlers' # <<>>
         /\ \A i \in DOMAIN handlers' :
              handlers'[i].at \in {"kill_after", "settimeout"} => options.kill_after
  <1>1. Head(handlers) \in Activation  BY PopFacts DEF TypeInv
  <1>2. /\ [Head(handlers) EXCEPT !.at = p] \in Activation
        /\ [Head(handlers) EXCEPT !.at = p].at = p
    BY <1>1 DEF Activation
  <1>3. PICK act \in Activation : act = [Head(handlers) EXCEPT !.at = p]  BY <1>2
  <1>. QED BY <1>2, <1>3, GoesOn DEF Goto

(* No handler runs once the command has been waited for, or all is lost.    *)
LEMMA Running ==
  ASSUME SafeInv, handlers # <<>>, pc # "done"
  PROVE  child = "reaped" => Excepted
  BY DEF SafeInv, ReapedInv

(* cleanup                                                                  *)
LEMMA CleanupSafe ==
  ASSUME SafeInv, Cleanup
  PROVE  SafeInv'
  <1>. USE OptionFields DEF SafeInv, Excepted, Registered, Places, Cleanup, static, signals, command
  <1>0. handlers # <<>> /\ pc # "done" /\ Head(handlers) \in Activation  BY Place
  <1>1. /\ handlers' \in Seq(Activation) /\ handlers' # <<>>
        /\ \A i \in DOMAIN handlers' :
             handlers'[i].at \in {"kill_after", "settimeout"} => options.kill_after
    <2>1. CASE Goto("test")  BY <1>0, <2>1, GotoSafe
    <2>2. CASE handlers' = <<[Head(handlers) EXCEPT !.at = "test", !.sig = term_signal]>>
                             \o Tail(handlers)
      <3>1. term_signal \in Term  BY DEF KillInv, Term
      <3>2. /\ [Head(handlers) EXCEPT !.at = "test", !.sig = term_signal] \in Activation
            /\ [Head(handlers) EXCEPT !.at = "test", !.sig = term_signal].at = "test"
        BY <1>0, <3>1 DEF Activation, Places
      <3>3. PICK act \in Activation : act = [Head(handlers) EXCEPT !.at = "test", !.sig = term_signal]
        BY <3>2
      <3>. QED BY <1>0, <2>2, <3>2, <3>3, GoesOn
    <2>. QED BY <2>1, <2>2
  <1>2. TypeInv'     BY <1>1 DEF TypeInv
  <1>3. KillInv'     BY <1>1 DEF KillInv
  <1>4. BlockedInv'  BY DEF BlockedInv
  <1>5. ReapedInv'   BY <1>0, Running DEF ReapedInv
  <1>6. LeftInv'     BY DEF LeftInv
  <1>. QED BY <1>2, <1>3, <1>4, <1>5, <1>6

(* cleanup asks whether there is a command; if not, it exits.               *)
LEMMA TestMonitoredPidSafe ==
  ASSUME SafeInv, TestMonitoredPid
  PROVE  SafeInv'
  <1>. USE OptionFields DEF SafeInv, Excepted, Registered, Places, TestMonitoredPid, static, globals, signals,
                            command, Exit
  <1>0. handlers # <<>> /\ pc # "done"  BY Place
  <1>1. /\ handlers' \in Seq(Activation) /\ handlers' # <<>>
        /\ \A i \in DOMAIN handlers' :
             handlers'[i].at \in {"kill_after", "settimeout"} => options.kill_after
    <2>1. CASE UNCHANGED handlers  BY <1>0, <2>1 DEF TypeInv, KillInv
    <2>2. CASE Goto(IF kill_after THEN "kill_after" ELSE "send")
      <3>1. CASE kill_after   BY <1>0, <2>2, <3>1, GotoSafe DEF KillInv
      <3>2. CASE ~kill_after  BY <1>0, <2>2, <3>2, GotoSafe
      <3>. QED BY <3>1, <3>2
    <2>. QED BY <2>1, <2>2
  <1>2. TypeInv'     BY <1>1 DEF TypeInv
  <1>3. KillInv'     BY <1>1 DEF KillInv
  <1>4. BlockedInv'  BY DEF BlockedInv
  <1>5. ReapedInv'   BY <1>0, Running DEF ReapedInv
  <1>6. LeftInv'     BY <1>0 DEF LeftInv
  <1>. QED BY <1>2, <1>3, <1>4, <1>5, <1>6

(* cleanup sends KILL the next time.                                        *)
LEMMA SetTermSignalSafe ==
  ASSUME SafeInv, SetTermSignal
  PROVE  SafeInv'
  <1>. USE OptionFields DEF SafeInv, Excepted, Registered, Places, SetTermSignal, static, globals, signals, command
  <1>0. handlers # <<>> /\ pc # "done" /\ options.kill_after
    BY Place
  <1>1. /\ handlers' \in Seq(Activation) /\ handlers' # <<>>
        /\ \A i \in DOMAIN handlers' :
             handlers'[i].at \in {"kill_after", "settimeout"} => options.kill_after
    BY <1>0, GotoSafe
  <1>2. TypeInv'     BY <1>1 DEF TypeInv
  <1>3. KillInv'     BY <1>0, <1>1 DEF KillInv
  <1>4. BlockedInv'  BY <1>0 DEF BlockedInv
  <1>5. ReapedInv'   BY <1>0, Running DEF ReapedInv
  <1>6. LeftInv'     BY DEF LeftInv
  <1>. QED BY <1>2, <1>3, <1>4, <1>5, <1>6

(* cleanup starts the timer of -k.                                          *)
LEMMA StartKillTimerSafe ==
  ASSUME SafeInv, StartKillTimer
  PROVE  SafeInv'
  <1>. USE OptionFields DEF SafeInv, Excepted, Registered, Places, StartKillTimer, static, globals, signals, command
  <1>0. handlers # <<>> /\ pc # "done" /\ options.kill_after
    BY Place
  <1>1. /\ handlers' \in Seq(Activation) /\ handlers' # <<>>
        /\ \A i \in DOMAIN handlers' :
             handlers'[i].at \in {"kill_after", "settimeout"} => options.kill_after
    BY <1>0, GotoSafe
  <1>2. TypeInv'     BY <1>1 DEF TypeInv
  <1>3. KillInv'     BY <1>0, <1>1 DEF KillInv
  <1>4. BlockedInv'  BY <1>0 DEF BlockedInv
  <1>5. ReapedInv'   BY <1>0, Running DEF ReapedInv
  <1>6. LeftInv'     BY DEF LeftInv
  <1>. QED BY <1>2, <1>3, <1>4, <1>5, <1>6

(* cleanup sends the signal to the command, or exits.                       *)
LEMMA SendToChildSafe ==
  ASSUME SafeInv, SendToChild
  PROVE  SafeInv'
  <1>. USE OptionFields DEF SafeInv, Excepted, Registered, Places, SendToChild, static, globals, signals, command,
                            Exit, Kill
  <1>0. handlers # <<>> /\ pc # "done"  BY Place
  <1>1. /\ handlers' \in Seq(Activation) /\ handlers' # <<>>
        /\ \A i \in DOMAIN handlers' :
             handlers'[i].at \in {"kill_after", "settimeout"} => options.kill_after
    BY <1>0, GotoSafe DEF TypeInv, KillInv
  <1>2. TypeInv'     BY <1>1 DEF TypeInv
  <1>3. KillInv'     BY <1>1 DEF KillInv
  <1>4. BlockedInv'  BY <1>0 DEF BlockedInv
  <1>5. ReapedInv'   BY <1>0, Running DEF ReapedInv
  <1>6. LeftInv'     BY <1>0 DEF LeftInv, Alive
  <1>. QED BY <1>2, <1>3, <1>4, <1>5, <1>6

(* cleanup sends the signal to its group.                                   *)
LEMMA SendToGroupSafe ==
  ASSUME SafeInv, SendToGroup
  PROVE  SafeInv'
  <1>. USE OptionFields DEF SafeInv, Excepted, Registered, Places, SendToGroup, static, globals, signals, command,
                            Exit, Kill
  <1>0. handlers # <<>> /\ pc # "done"  BY Place
  <1>1. /\ handlers' \in Seq(Activation) /\ handlers' # <<>>
        /\ \A i \in DOMAIN handlers' :
             handlers'[i].at \in {"kill_after", "settimeout"} => options.kill_after
    BY <1>0, GotoSafe DEF TypeInv, KillInv
  <1>2. TypeInv'     BY <1>1 DEF TypeInv
  <1>3. KillInv'     BY <1>1 DEF KillInv
  <1>4. BlockedInv'  BY <1>0 DEF BlockedInv
  <1>5. ReapedInv'   BY <1>0, Running DEF ReapedInv
  <1>6. LeftInv'     BY <1>0 DEF LeftInv, Alive
  <1>. QED BY <1>2, <1>3, <1>4, <1>5, <1>6

(* cleanup lets the command continue.                                       *)
LEMMA SendContSafe ==
  ASSUME SafeInv, SendCont
  PROVE  SafeInv'
  <1>. USE OptionFields DEF SafeInv, Excepted, Registered, Places, SendCont, static, globals, signals, command,
                            Exit, Kill
  <1>0. handlers # <<>> /\ pc # "done"  BY Place
  <1>1. /\ handlers' \in Seq(Activation) /\ handlers' # <<>>
        /\ \A i \in DOMAIN handlers' :
             handlers'[i].at \in {"kill_after", "settimeout"} => options.kill_after
    BY <1>0, GotoSafe DEF TypeInv, KillInv
  <1>2. TypeInv'     BY <1>1 DEF TypeInv
  <1>3. KillInv'     BY <1>1 DEF KillInv
  <1>4. BlockedInv'  BY <1>0 DEF BlockedInv
  <1>5. ReapedInv'   BY <1>0, Running DEF ReapedInv
  <1>6. LeftInv'     BY <1>0 DEF LeftInv, Alive
  <1>. QED BY <1>2, <1>3, <1>4, <1>5, <1>6

(* A handler that returns gives back the mask it interrupted.               *)
LEMMA HandlerReturnsSafe ==
  ASSUME SafeInv, HandlerReturns
  PROVE  SafeInv'
  <1>. USE OptionFields DEF SafeInv, Excepted, Registered, Places, HandlerReturns, static, globals, signals,
                            command, WaitsAgain
  <1>0. handlers # <<>> /\ pc # "done"  BY Place
  <1>1. /\ handlers' \in Seq(Activation)
        /\ \A i \in DOMAIN handlers' : \E k \in DOMAIN handlers : handlers'[i] = handlers[k]
    BY <1>0, PopFacts DEF TypeInv
  <1>2. TypeInv'     BY <1>1 DEF TypeInv
  <1>3. KillInv'     BY <1>1 DEF KillInv
  <1>4. BlockedInv'  BY <1>0 DEF BlockedInv
  <1>5. ReapedInv'   BY <1>0, Running DEF ReapedInv
  <1>6. LeftInv'     BY <1>0 DEF LeftInv
  <1>. QED BY <1>2, <1>3, <1>4, <1>5, <1>6
------------------------------------------------------------------------------
(* A signal is taken only if it has the handler and is not blocked.         *)
LEMMA DeliverSafe ==
  ASSUME SafeInv, NEW s \in Handled \cup {"CHLD"}, Deliver(s)
  PROVE  SafeInv'
  <1>. USE OptionFields DEF SafeInv, Excepted, Registered, Deliver, static, globals, signals, command
  <1>1. /\ handlers' \in Seq(Activation)
        /\ \A i \in DOMAIN handlers' :
             handlers'[i].at \in {"kill_after", "settimeout"} => options.kill_after
    <2>1. PICK act \in Activation :
            /\ act = [no |-> s, sig |-> s, at |-> IF s = "CHLD" THEN "return" ELSE "cleanup"]
            /\ act.at \notin {"kill_after", "settimeout"}
      BY DEF Activation, Places, Handled, Term
    <2>2. handlers' = <<act>> \o handlers  BY <2>1
    <2>. QED BY <2>1, <2>2, PushFacts DEF TypeInv, KillInv
  <1>2. pc = "reaped" => Excepted
    BY DEF BlockedInv, TypeInv, Mask
  <1>3. TypeInv'     BY <1>1 DEF TypeInv
  <1>4. KillInv'     BY <1>1 DEF KillInv
  <1>5. BlockedInv'  BY DEF BlockedInv
  <1>6. ReapedInv'   BY <1>2 DEF ReapedInv
  <1>7. LeftInv'     BY DEF LeftInv
  <1>. QED BY <1>3, <1>4, <1>5, <1>6, <1>7

(* Timers and users add signals that have the handler, and nothing else.    *)
LEMMA GenerateSafe ==
  ASSUME SafeInv, NEW s \in Registered, Generate(s),
         UNCHANGED <<static, pc, globals, handlers, blocked, ignored, command, stray>>
  PROVE  SafeInv'
  <1>. USE DEF SafeInv, Excepted, Registered, Generate, static, globals, command
  <1>1. TypeInv'     BY DEF TypeInv
  <1>2. KillInv'     BY DEF KillInv
  <1>3. BlockedInv'  BY DEF BlockedInv
  <1>4. ReapedInv'   BY DEF ReapedInv
  <1>5. LeftInv'     BY DEF LeftInv
  <1>. QED BY <1>1, <1>2, <1>3, <1>4, <1>5

(* A timer that expires.                                                    *)
LEMMA ExpireSafe ==
  ASSUME SafeInv, NEW t, Expire(t)
  PROVE  SafeInv'
  BY GenerateSafe DEF Expire, Registered

(* A signal from somebody else.                                             *)
LEMMA UserSendsSafe ==
  ASSUME SafeInv, NEW s, UserSends(s)
  PROVE  SafeInv'
  BY GenerateSafe DEF UserSends

(* The command moves from one state to another; it is not waited for by     *)
(* that, and does not take a KILL that is on its way and live.              *)
LEMMA ChildStepSafe ==
  ASSUME SafeInv, NEW state, ChildStep(state), child \in Alive, state # "reaped",
         state \in Alive /\ "KILL" \in waiting => "KILL" \in waiting'
  PROVE  SafeInv'
  <1>. USE DEF SafeInv, Excepted, Registered, ChildStep, static, globals, Alive
  <1>1. TypeInv'     BY DEF TypeInv, Generate
  <1>2. KillInv'     BY DEF KillInv
  <1>3. BlockedInv'  BY DEF BlockedInv
  <1>4. ReapedInv'   BY DEF ReapedInv
  <1>5. LeftInv'     BY DEF LeftInv
  <1>. QED BY <1>1, <1>2, <1>3, <1>4, <1>5

(* Whatever the command does, and takes.                                    *)
LEMMA ChildSafe ==
  ASSUME SafeInv, ChildTakes \/ ChildExits \/ ChildStops
  PROVE  SafeInv'
  <1>. USE ChildStepSafe DEF Alive
  <1>1. CASE Exec  BY <1>1 DEF Exec
  <1>2. CASE ChildExits  BY <1>2 DEF ChildExits
  <1>3. CASE ChildStops  BY <1>3 DEF ChildStops
  <1>4. ASSUME NEW s \in Term, HandledByChild(s)
        PROVE  SafeInv'
    <2>1. CASE s = "KILL"  BY <1>4, <2>1 DEF HandledByChild
    <2>2. CASE s # "KILL"  BY <1>4, <2>2 DEF HandledByChild
    <2>. QED BY <2>1, <2>2
  <1>5. ASSUME NEW s \in Term, CommandGets(s)
        PROVE  SafeInv'
    <2>1. CASE s \in fatal \cup {"KILL"}
      BY <1>5, <2>1 DEF CommandGets, Term, Handled
    <2>2. CASE s \notin fatal \cup {"KILL"}
      BY <1>5, <2>2 DEF CommandGets
    <2>. QED BY <2>1, <2>2
  <1>. QED BY <1>1, <1>2, <1>3, <1>4, <1>5 DEF ChildTakes

(* Nothing happens.                                                         *)
LEMMA StutterSafe ==
  ASSUME SafeInv, UNCHANGED vars
  PROVE  SafeInv'
  BY DEF SafeInv, TypeInv, KillInv, BlockedInv, ReapedInv, LeftInv, Excepted, Registered,
         vars, static, globals, signals, command

(* The invariant holds of every execution.                                  *)
THEOREM AlwaysSafe == Spec => []SafeInv
  <1>1. Init => SafeInv
    BY SignalsAssumption
    DEF Init, SafeInv, TypeInv, KillInv, BlockedInv, ReapedInv, LeftInv, Registered, Excepted
  <1>2. SafeInv /\ [Next]_vars => SafeInv'
    <2>. SUFFICES ASSUME SafeInv, [Next]_vars  PROVE SafeInv'
      OBVIOUS
    <2>1. CASE Monitor
      BY <2>1, ForkSafe, SetMonitoredPidSafe, StartTimerSafe, BlockCleanupAndChldSafe, WaitpidSafe,
         ReturnSafe, DeliverSafe, CleanupSafe, TestMonitoredPidSafe, SetTermSignalSafe,
         StartKillTimerSafe, SendToChildSafe, SendToGroupSafe, SendContSafe, HandlerReturnsSafe
      DEF Monitor
    <2>2. CASE \E t \in {"timeout", "kill"} : Expire(t)  BY <2>2, ExpireSafe
    <2>3. CASE \E s \in Handled : UserSends(s)  BY <2>3, UserSendsSafe
    <2>4. CASE ChildTakes \/ ChildExits \/ ChildStops  BY <2>4, ChildSafe
    <2>5. CASE UNCHANGED vars  BY <2>5, StutterSafe
    <2>. QED BY <2>1, <2>2, <2>3, <2>4, <2>5 DEF Next
  <1>. QED BY <1>1, <1>2, PTL DEF Spec

(* Once the command has been waited for, no signal goes to its number, but  *)
(* in the case that SignalsOnlyItsChild excepts (block_cleanup_and_chld).   *)
THEOREM AlwaysSignalsOnlyItsChild == Spec => []SignalsOnlyItsChild
  <1>1. SafeInv => SignalsOnlyItsChild
    BY DEF SafeInv, ReapedInv, Excepted, SignalsOnlyItsChild
  <1>. QED BY <1>1, AlwaysSafe, PTL

(* The monitor ends before the command only if its number was not stored    *)
(* yet, or if KILL is on its way (main, cleanup).                           *)
THEOREM AlwaysLeavesNoChildBehind == Spec => []LeavesNoChildBehind
  <1>1. SafeInv => LeavesNoChildBehind
    BY DEF SafeInv, LeftInv, LeavesNoChildBehind
  <1>. QED BY <1>1, AlwaysSafe, PTL
------------------------------------------------------------------------------
USE WidthAssumption

(* Every behaviour stays within files.                                      *)
THEOREM AlwaysFiles == Comparisons => []AreFiles
  <1>1. AnyTwo => AreFiles
    BY DEF AnyTwo, AreFiles
  <1>2. AreFiles /\ [Swap]_pair => AreFiles'
    BY DEF AreFiles, Swap, pair
  <1> QED BY <1>1, <1>2, PTL DEF Comparisons

(* The fields of a file are integers.                                       *)
LEMMA FileFields ==
  ASSUME NEW f \in Files
  PROVE  f.sec \in Int /\ f.nsec \in 0..(Nanos - 1) /\ f.name \in Int
  <1>1. f.sec \in Seconds /\ f.nsec \in 0..(Nanos - 1) /\ f.name \in FileNames
    BY DEF Files
  <1>2. Seconds \subseteq Int /\ FileNames \subseteq Int
    OBVIOUS
  <1> QED BY <1>1, <1>2

(* The corrected comparison puts the newest file first and then goes by     *)
(* name, whatever the width of an int.                                      *)
THEOREM AlwaysSortsByTime == Comparisons => []SortsByTime
  <1>1. AreFiles => SortsByTime
    <2> SUFFICES ASSUME AreFiles PROVE SortsByTime
      OBVIOUS
    <2>1. /\ a.sec \in Int /\ b.sec \in Int
          /\ a.nsec \in 0..(Nanos - 1) /\ b.nsec \in 0..(Nanos - 1)
          /\ a.name \in Int /\ b.name \in Int
      BY FileFields DEF AreFiles
    <2> DEFINE diff == timespec_cmp(b, a)
    <2>2. /\ diff \in {-1, 0, 1}
          /\ diff = -1 <=> Later(a, b)
          /\ diff = 1 <=> Later(b, a)
      BY <2>1 DEF Later, timespec_cmp
    <2>3. cmp_mtime(a, b) = IF diff # 0 THEN diff ELSE a.name - b.name
      BY DEF cmp_mtime
    <2> HIDE DEF diff
    <2>4. CASE diff = 0
      BY <2>1, <2>2, <2>3, <2>4 DEF SortsByTime, ComesFirst, Later
    <2>5. CASE diff # 0
      BY <2>1, <2>2, <2>3, <2>5 DEF SortsByTime, ComesFirst, Later
    <2> QED BY <2>4, <2>5
  <1> QED BY <1>1, AlwaysFiles, PTL

(* What fits in an int is kept.                                             *)
LEMMA IntKeepsSmall ==
  ASSUME NEW n \in Int, n >= -Half, n < Half
  PROVE  ToInt(n) = n
  <1> DEFINE m == n + Half
             w == 2 * Half
  <1>1. m \in Int /\ w \in Int /\ 0 <= m /\ m < w
    OBVIOUS
  <1>2. m % w = m
    <2> HIDE DEF m, w
    <2> QED BY <1>1
  <1> QED BY <1>2 DEF ToInt

(* The old comparison was right for files less than Half seconds apart.     *)
THEOREM AlwaysSortedNearTimes == Comparisons => []SortedNearTimes
  <1>1. AreFiles => SortedNearTimes
    <2> SUFFICES ASSUME AreFiles, a.sec - b.sec \in (1 - Half)..(Half - 1)
                 PROVE  /\ cmp_mtime_was(a, b) < 0 <=> ComesFirst(a, b)
                        /\ cmp_mtime_was(a, b) > 0 <=> ComesFirst(b, a)
      BY DEF SortedNearTimes
    <2>1. /\ a.sec \in Int /\ b.sec \in Int
          /\ a.nsec \in 0..(Nanos - 1) /\ b.nsec \in 0..(Nanos - 1)
          /\ a.name \in Int /\ b.name \in Int
      BY FileFields DEF AreFiles
    <2>2. ToInt(b.sec - a.sec) = b.sec - a.sec
      BY <2>1, IntKeepsSmall
    <2>3. ToInt(b.nsec - a.nsec) = b.nsec - a.nsec
      BY <2>1, IntKeepsSmall
    <2> DEFINE diff == timespec_cmp_was(b, a)
    <2>4. diff = IF b.sec - a.sec # 0 THEN b.sec - a.sec ELSE b.nsec - a.nsec
      BY <2>2, <2>3 DEF timespec_cmp_was
    <2>5. cmp_mtime_was(a, b) = IF diff # 0 THEN diff ELSE a.name - b.name
      BY DEF cmp_mtime_was
    <2> HIDE DEF diff
    <2>6. /\ diff \in Int
          /\ diff < 0 <=> Later(a, b)
          /\ diff > 0 <=> Later(b, a)
      BY <2>1, <2>4 DEF Later
    <2>7. CASE diff = 0
      BY <2>1, <2>5, <2>6, <2>7 DEF ComesFirst, Later
    <2>8. CASE diff # 0
      BY <2>1, <2>5, <2>6, <2>8 DEF ComesFirst, Later
    <2> QED BY <2>7, <2>8
  <1> QED BY <1>1, AlwaysFiles, PTL
==============================================================================
