------------------------------- MODULE Timeout -------------------------------
(***************************************************************************)
(* timeout of GNU coreutils: the monitor, which forks the command, starts  *)
(* a timer and waits; its handler cleanup, which nests, for the signals it *)
(* has registered; the command; and whoever else sends signals.  INT, QUIT *)
(* and HUP are treated as TERM is, which stands for all of them; USR1      *)
(* stands for any other signal that can be handled, EXIT for 0.            *)
(***************************************************************************)
EXTENDS Naturals, Sequences

CONSTANTS
  Options,      (* [duration, kill_after, foreground, preserve_status : BOOLEAN, *)
                (*  signal : Term]                                               *)
  Masks,        (* what the monitor may have inherited as blocked signals        *)
  Fatals,       (* the sets of signals, KILL apart, that may end the command     *)
  UserSignals,  (* what others may send to the monitor                           *)
  MaxUser       (* how many signals they send at most                            *)

Handled == {"ALRM", "TERM", "USR1"}
Term == Handled \cup {"KILL", "EXIT"}

ASSUME OptionsAssumption ==
  Options \subseteq [duration : BOOLEAN, kill_after : BOOLEAN, foreground : BOOLEAN,
                     preserve_status : BOOLEAN, signal : Term]
ASSUME SignalsAssumption ==
  Masks \subseteq SUBSET Handled /\ Fatals \subseteq SUBSET Handled

VARIABLES
  options,                                             (* the command line       *)
  pc, timed_out, term_signal, monitored_pid, kill_after,
  handlers,                       (* the activations of handlers, innermost first *)
  blocked, cleanup_set, ignored, pending,       (* of the monitor's signals      *)
  timers,                                       (* those running                 *)
  child, waiting, inherited, fatal,  (* the command's state, signals and manners *)
  sent,                                         (* how many the users have sent  *)
  status,                                       (* what the monitor ends with    *)
  stray     (* a signal has been sent to the number of a process that was reaped *)

static == <<options, inherited, fatal>>
globals == <<timed_out, term_signal, monitored_pid, kill_after>>
signals == <<blocked, cleanup_set, ignored, pending>>
command == <<child, waiting>>
vars == <<static, pc, globals, handlers, signals, timers, command, sent, status, stray>>

(* What install_cleanup has given the handler: it cannot be had for the others. *)
Registered == {"ALRM", "TERM", options.signal} \ {"KILL", "EXIT"}

Init ==
  /\ options \in Options
  /\ inherited \in Masks
  /\ fatal \in Fatals
  /\ pc = "fork"
  /\ timed_out = FALSE /\ term_signal = options.signal
  /\ monitored_pid = FALSE /\ kill_after = options.kill_after
  /\ handlers = <<>>
  /\ blocked = inherited /\ cleanup_set = {} /\ ignored = {} /\ pending = {}
  /\ timers = {}
  /\ child = "none" /\ waiting = {}
  /\ sent = 0 /\ status = "none" /\ stray = FALSE

(* A signal for the monitor is pending unless it is ignored. *)
Generate(s) == pending' = pending \cup ({s} \ ignored)

Exit(st) == pc' = "done" /\ status' = st
------------------------------------------------------------------------------
(* The main program, between handlers. *)
Main == handlers = <<>>

Fork ==
  /\ pc = "fork" /\ Main
  /\ \/ child' = "forked" /\ pc' = "forked" /\ UNCHANGED status
     \/ Exit("canceled") /\ UNCHANGED child
  /\ UNCHANGED <<static, globals, handlers, signals, timers, waiting, sent, stray>>

SetMonitoredPid ==
  /\ pc = "forked" /\ Main
  /\ monitored_pid' = TRUE
  /\ pc' = "start"
  /\ UNCHANGED <<static, timed_out, term_signal, kill_after, handlers, signals, timers,
                 command, sent, status, stray>>

LeftAsItIs(s) == blocked
Unblocked(s) == blocked \ {s}

StartTimer ==
  /\ pc = "start" /\ Main
  /\ blocked' = Unblocked("ALRM")
  /\ timers' = IF options.duration THEN timers \cup {"timeout"} ELSE timers
  /\ pc' = "block"
  /\ UNCHANGED <<static, globals, handlers, cleanup_set, ignored, pending, command,
                 sent, status, stray>>

ToBlockChldOnly == {"CHLD"}
ToBlock == ({"ALRM", "TERM", term_signal} \ {"KILL", "EXIT"}) \cup {"CHLD"}

BlockCleanupAndChld ==
  /\ pc = "block" /\ Main
  /\ cleanup_set' = blocked
  /\ blocked' = blocked \cup ToBlock
  /\ pc' = "poll"
  /\ UNCHANGED <<static, globals, handlers, ignored, pending, timers, command,
                 sent, status, stray>>

Waitpid ==
  /\ pc = "poll" /\ Main
  /\ \/ child \in {"exited"} \cup Term /\ child' = "reaped" /\ status' = child /\ pc' = "reaped"
     \/ child \notin {"exited"} \cup Term /\ pc' = "suspend" /\ UNCHANGED <<child, status>>
  /\ UNCHANGED <<static, globals, handlers, signals, timers, waiting, sent, stray>>

(* The status of the command, unless it timed out; a signal that ended the  *)
(* command ends the monitor as well.                                        *)
Return ==
  /\ pc = "reaped" /\ Main
  /\ Exit(IF timed_out /\ ~options.preserve_status THEN "timedout" ELSE status)
  /\ UNCHANGED <<static, globals, handlers, signals, timers, command, sent, stray>>
------------------------------------------------------------------------------
(* sigsuspend puts the mask back for as long as it waits. *)
Mask ==
  (IF pc = "suspend" THEN cleanup_set ELSE blocked) \cup { handlers[i].no : i \in DOMAIN handlers }

Deliver(s) ==
  /\ pc # "done"
  /\ s \in pending \ Mask
  /\ pending' = pending \ {s}
  /\ handlers' = <<[no |-> s, sig |-> s, at |-> IF s = "CHLD" THEN "return" ELSE "cleanup"]>> \o handlers
  /\ UNCHANGED <<static, pc, globals, blocked, cleanup_set, ignored, timers, command,
                 sent, status, stray>>

sig == Head(handlers).sig
At(place) == pc # "done" /\ handlers # <<>> /\ Head(handlers).at = place
Goto(place) == handlers' = <<[Head(handlers) EXCEPT !.at = place]>> \o Tail(handlers)

Cleanup ==
  /\ At("cleanup")
  /\ \/ /\ sig = "ALRM"
        /\ timed_out' = TRUE
        /\ handlers' = <<[Head(handlers) EXCEPT !.at = "test", !.sig = term_signal]>> \o Tail(handlers)
     \/ sig # "ALRM" /\ Goto("test") /\ UNCHANGED timed_out
  /\ UNCHANGED <<static, pc, term_signal, monitored_pid, kill_after, signals, timers,
                 command, sent, status, stray>>

TestMonitoredPid ==
  /\ At("test")
  /\ \/ monitored_pid /\ Goto(IF kill_after THEN "kill_after" ELSE "send") /\ UNCHANGED <<pc, status>>
     \/ ~monitored_pid /\ Exit(sig) /\ UNCHANGED handlers
  /\ UNCHANGED <<static, globals, signals, timers, command, sent, stray>>

SetTermSignal ==
  /\ At("kill_after")
  /\ term_signal' = "KILL"
  /\ Goto("settimeout")
  /\ UNCHANGED <<static, pc, timed_out, monitored_pid, kill_after, signals, timers, command,
                 sent, status, stray>>

(* A nested activation may have started this timer and cleared kill_after: *)
(* the timer made here is then never started.                              *)
StartKillTimer ==
  /\ At("settimeout")
  /\ timers' = IF kill_after THEN timers \cup {"kill"} ELSE timers
  /\ kill_after' = FALSE
  /\ Goto("send")
  /\ UNCHANGED <<static, pc, timed_out, term_signal, monitored_pid, signals, command,
                 sent, status, stray>>

Alive == {"forked", "running", "stopped"}
Kill(s) == waiting' = IF child \in Alive THEN waiting \cup ({s} \ {"EXIT"}) ELSE waiting

SendToChild ==
  /\ At("send")
  /\ Kill(sig)
  /\ stray' = (stray \/ child = "reaped")
  /\ Goto(IF options.foreground THEN "return" ELSE "group")
  /\ UNCHANGED <<static, pc, globals, signals, timers, child, sent, status>>

(* send_sig (0, sig): the group is the monitor itself and the command. *)
SendToGroup ==
  /\ At("group")
  /\ Kill(sig)
  /\ \/ /\ sig = "KILL"
        /\ Exit("KILL") /\ UNCHANGED <<handlers, ignored, pending>>
     \/ /\ sig # "KILL"
        /\ ignored' = ignored \cup {sig} /\ pending' = pending \ {sig}
        /\ Goto("cont") /\ UNCHANGED <<pc, status>>
  /\ UNCHANGED <<static, globals, blocked, cleanup_set, timers, child, sent, stray>>

SendCont ==
  /\ At("cont")
  /\ child' = IF child = "stopped" THEN "running" ELSE child
  /\ stray' = (stray \/ child = "reaped")
  /\ Goto("return")
  /\ UNCHANGED <<static, pc, globals, signals, timers, waiting, sent, status>>

(* The wait is a loop, as a signal is no news of the command. *)
WaitsOnce == "reaped"
WaitsAgain == "poll"

HandlerReturns ==
  /\ At("return")
  /\ handlers' = Tail(handlers)
  /\ pc' = IF handlers' = <<>> /\ pc = "suspend" THEN WaitsAgain ELSE pc
  /\ UNCHANGED <<static, globals, signals, timers, command, sent, status, stray>>
------------------------------------------------------------------------------
Expire(t) ==
  /\ pc # "done" /\ t \in timers
  /\ timers' = timers \ {t}
  /\ Generate("ALRM")
  /\ UNCHANGED <<static, pc, globals, handlers, blocked, cleanup_set, ignored, command,
                 sent, status, stray>>

UserSends(s) ==
  /\ pc # "done" /\ sent < MaxUser
  /\ s \in Registered \cap UserSignals
  /\ sent' = sent + 1
  /\ Generate(s)
  /\ UNCHANGED <<static, pc, globals, handlers, blocked, cleanup_set, ignored, timers,
                 command, status, stray>>

ChildStep(state) ==
  /\ child' = state
  /\ IF state = "running" THEN UNCHANGED pending ELSE Generate("CHLD")
  /\ UNCHANGED <<static, pc, globals, handlers, blocked, cleanup_set, ignored, timers,
                 sent, status, stray>>

(* Until it execs, the child has the handler too, and no monitored_pid. *)
Exec ==
  /\ child = "forked"
  /\ waiting \subseteq inherited
  /\ ChildStep("running") \/ ChildStep("exited")
  /\ UNCHANGED waiting

HandledByChild(s) ==
  /\ child = "forked" /\ s \in waiting \ inherited
  /\ ChildStep(IF s = "KILL" THEN "KILL" ELSE "exited")
  /\ UNCHANGED waiting

ChildExits == child = "running" /\ ChildStep("exited") /\ UNCHANGED waiting
ChildStops ==
  /\ child = "running" /\ waiting \subseteq inherited
  /\ ChildStep("stopped")
  /\ UNCHANGED waiting

CommandGets(s) ==
  /\ child = "running" \/ (child = "stopped" /\ s = "KILL")
  /\ s \in waiting \ inherited
  /\ waiting' = waiting \ {s}
  /\ ChildStep(IF s \in fatal \cup {"KILL"} THEN s ELSE child)

ChildTakes == Exec \/ \E s \in Term : HandledByChild(s) \/ CommandGets(s)
------------------------------------------------------------------------------
Monitor ==
  \/ Fork \/ SetMonitoredPid \/ StartTimer \/ BlockCleanupAndChld \/ Waitpid \/ Return
  \/ \E s \in Handled \cup {"CHLD"} : Deliver(s)
  \/ Cleanup \/ TestMonitoredPid \/ SetTermSignal \/ StartKillTimer
  \/ SendToChild \/ SendToGroup \/ SendCont \/ HandlerReturns

Next ==
  \/ Monitor
  \/ \E t \in {"timeout", "kill"} : Expire(t)
  \/ \E s \in Handled : UserSends(s)
  \/ ChildTakes \/ ChildExits \/ ChildStops

Spec == Init /\ [][Next]_vars

(* The monitor runs, timers expire and the command takes its signals; that *)
(* it exits or stops of itself, or that anybody sends signals, is left open. *)
FairSpec ==
  /\ Spec
  /\ WF_vars(Monitor)
  /\ WF_vars(ChildTakes)
  /\ \A t \in {"timeout", "kill"} : WF_vars(Expire(t))
------------------------------------------------------------------------------
(* No process but the command is sent a signal: the number of a process   *)
(* that was waited for may belong to another by then.  Except that with    *)
(* -k, a signal of the user's choice is not among those blocked for good   *)
(* if cleanup has replaced term_signal before they were (cleanup,          *)
(* block_cleanup_and_chld).                                                *)
SignalsOnlyItsChild ==
  stray => options.kill_after /\ options.signal = "USR1" /\ term_signal = "KILL"

(* The monitor does not end and leave the command behind, except if a      *)
(* signal comes after fork has made the child and before its number has    *)
(* been stored (main, cleanup).                                            *)
LeavesNoChildBehind ==
  pc = "done" /\ child \in Alive => ~monitored_pid \/ "KILL" \in waiting

(* With a duration, the monitor ends: if a signal that the command does    *)
(* not survive is sent to its group, which is continued for that; or if    *)
(* KILL is to be sent later, unless ALRM itself was sent to the group and  *)
(* is ignored since then.  The wait misses neither a timer nor the child.  *)
MustEnd ==
  /\ options.duration
  /\ \/ ~options.foreground /\ options.signal \in (fatal \ inherited) \cup {"KILL"}
     \/ options.kill_after /\ (options.signal # "ALRM" \/ options.foreground)
Ends == MustEnd => <>(pc = "done")

(* "Also send a KILL signal if COMMAND is still running this long after the *)
(* initial signal was sent" (usage): not before the timer for that ends.    *)
KillsNoEarlier == "KILL" \in waiting => options.signal = "KILL" \/ "kill" \notin timers
===============================================================================
