------------------------------ MODULE TestProgram ------------------------------
(***************************************************************************)
(* userspace_app/main.c, run again and again on the module that is loaded  *)
(* and unloaded (ModuleLifecycle), one system call at a time.  A signal    *)
(* may interrupt its select or kill it.  What it prints, and the hash of   *)
(* the block it finds (Sha256Stream), change nothing.                      *)
(***************************************************************************)
EXTENDS ModuleLifecycle

VARIABLE prog    \* where the program is; "idle" when it does not run

progVars == <<lvars, prog>>

ProgInit == LifecycleInit /\ prog = "idle"

ProgGoes(from, to) == prog = from /\ prog' = to

\* A system call that reaches the registers r.
Calls(r) ==
    /\ ~oops /\ pc = "user"
    /\ Mapped(r)
    /\ UNCHANGED <<lifecycle, oops, early, busy>>
-----------------------------------------------------------------------------
ProgOpen ==
    /\ ~oops
    /\ ProgGoes("idle", "clock")
    /\ starts < MaxStarts
    /\ \E p \in Procs : OpenDevice(p)

\* SET_CLOCK_SPEED.
ProgClock ==
    /\ ProgGoes("clock", "reset")
    /\ Calls("slcr")
    /\ UNCHANGED vars

ProgReset ==
    /\ ProgGoes("reset", "wait")
    /\ Calls("accel")
    /\ IoctlReset

ProgReady ==
    /\ ProgGoes("wait", "set")
    /\ Calls("accel")
    /\ status = "RDY"
    /\ UNCHANGED vars

ProgSet ==
    /\ ProgGoes("set", "start")
    /\ Calls("accel")
    /\ \E j \in Jobs : IoctlSet(j)

ProgStart ==
    /\ ProgGoes("start", "select")
    /\ Calls("accel")
    /\ IoctlStart

ProgSelect ==
    /\ ProgGoes("select", "selected")
    /\ Calls("accel")
    /\ Select

\* After a timeout it prints how far the search is; an error it prints, too.
ProgSelected ==
    /\ prog = "selected"
    /\ prog' = IF ret = 1 THEN "read" ELSE "select"
    /\ Calls("accel")
    /\ UNCHANGED vars

ProgRead ==
    /\ ProgGoes("read", "reading")
    /\ Calls("accel")
    /\ Read(MSGSIZE, FALSE)

\* Whatever it has read, the loop ends.
ProgClose ==
    /\ ProgGoes("reading", "idle")
    /\ Calls("accel")
    /\ Release

\* exit closes the file.
ProgKilled ==
    /\ prog # "idle" /\ prog' = "idle"
    /\ Calls("accel")
    /\ Release

\* It has opened the device before init has mapped the registers; if its
\* next call does not reach for them, the close of a program killed does.
ProgOops ==
    /\ prog # "idle" /\ pc = "user"
    /\ ~Mapped("accel")
    /\ Oops
    /\ UNCHANGED prog

\* The call goes on in the kernel; the buffer of the program is good.
InKernel ==
    /\ ThreadStep
    /\ pc = "copy" => copied' = MSGSIZE
    /\ UNCHANGED <<lifecycle, oops, early, busy, prog>>

Disturbed ==
    /\ Signal \/ SelectTimeout
    /\ UNCHANGED <<lifecycle, oops, early, busy, prog>>
-----------------------------------------------------------------------------
ProgStep ==
    \/ ProgOpen \/ ProgClock \/ ProgReset \/ ProgReady \/ ProgSet \/ ProgStart
    \/ ProgSelect \/ ProgSelected \/ ProgRead \/ ProgClose

KernelStep == (LifecycleStep \/ HandlerStep \/ HandlerOops \/ Hardware) /\ UNCHANGED prog

ProgNext ==
    /\ ~oops
    /\ \/ ProgStep \/ ProgKilled \/ ProgOops
       \/ InKernel \/ Disturbed
       \/ KernelStep

ProgSpec == ProgInit /\ [][ProgNext]_progVars

(***************************************************************************)
(* Threads and handler are scheduled, as in KernelDriver, and a search     *)
(* ends.  Nobody need open the device, load or unload the module, and no   *)
(* select need time out.                                                   *)
(***************************************************************************)
ProgFairness ==
    /\ WF_progVars(~oops /\ ProgStep /\ prog # "idle")
    /\ WF_progVars(~oops /\ InKernel)
    /\ WF_progVars(~oops /\ HandlerStep /\ UNCHANGED prog)
    /\ SF_progVars(~oops /\ isr = "lock" /\ HandlerStep /\ UNCHANGED prog)
    /\ WF_progVars(~oops /\ irq /\ Hardware /\ UNCHANGED prog)
    /\ WF_progVars(~oops /\ Settle /\ Hardware /\ UNCHANGED prog)
    /\ WF_progVars(~oops /\ (Acquire \/ Fail \/ Exit) /\ UNCHANGED prog)

ProgFairSpec == ProgSpec /\ ProgFairness
-----------------------------------------------------------------------------
(***************************************************************************)
(* Correctness.                                                            *)
(***************************************************************************)

\* Where only a message can get it out of its loop.
InLoop == prog \in {"select", "selected"}

(***************************************************************************)
(* The program does not print its status for ever: a message ends the      *)
(* loop, that of its search or one an earlier search has left, and no      *)
(* select need time out for it.                                            *)
(***************************************************************************)
ProgramEnds == InLoop ~> ~InLoop \/ oops
=============================================================================
