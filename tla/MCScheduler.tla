----------------------------- MODULE MCScheduler ----------------------------
(***************************************************************************)
(* Small instances of Scheduler for TLC.                                   *)
(***************************************************************************)
EXTENDS Scheduler, TLC

Zero == [execution_policy |-> "NORMAL", suspended |-> FALSE, parked |-> FALSE,
         processing_event |-> FALSE, resume_time |-> 0]

\* Memory that was never used, or was zeroed.
Zeroed == {Zero}

\* Memory that was never used, or of a thread that another one parked before
\* it was killed.
Recycled == {Zero, [Zero EXCEPT !.parked = TRUE]}

NoDelay == {}
SomeDelays == {0, 1}
EveryEvent == {{1, 2}}
ProcessEnd == {{2}}
KeyPress == {{1}}
NoIds == {}
NotSuspended == {FALSE}

Symmetric == Permutations(ThreadAddr) \cup Permutations(UserProcess)
=============================================================================
