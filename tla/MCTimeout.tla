------------------------------ MODULE MCTimeout ------------------------------
(* Small instances of Timeout: every combination of the options.            *)
EXTENDS Timeout

MCOptions ==
  [duration : BOOLEAN, kill_after : BOOLEAN, foreground : BOOLEAN,
   preserve_status : BOOLEAN, signal : Term]
MCMasks == {{}, {"ALRM", "TERM"}}
MCFatals == {{}, Handled}
MCUserSignals == Handled
OnlyTerm == {"TERM"}
===============================================================================
