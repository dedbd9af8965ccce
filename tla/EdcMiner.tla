------------------------------- MODULE EdcMiner -------------------------------
(***************************************************************************)
(* The mining thread of cgminer in edc_scanhash (cgminer/driver-edc.c)     *)
(* above the kernel driver and the accelerator, one system call at a time, *)
(* with the thread that prints the status line, the main thread that asks  *)
(* for a restart, and a second program that wants the device               *)
(* (userspace_app).                                                        *)
(*                                                                         *)
(* The caller, hash_sole_work of cgminer, is external: it scans works for  *)
(* ever, clears work_restart when it takes a new work, and gives the       *)
(* device up when a scan returns -1.                                       *)
(***************************************************************************)
EXTENDS KernelDriver

CONSTANTS Miner, Other

ASSUME ProcsAssumption == Procs = {Miner, Other} /\ Miner # Other

VARIABLES
    scan,           \* where the mining thread is
    hashes,         \* result of the scan: FALSE for -1
    umsg,           \* the message read has copied into the buffer of the scan
    work_restart,
    fd,             \* edcinfo->fd: TRUE when it is not -1
    fd_lock,        \* holder of edcinfo->fd_lock
    stat,           \* where the status line thread is
    left            \* history: what was left of an older search at the start:
                    \* "nothing", "messages" or an "interrupt" in progress

scanning == <<scan, hashes, umsg>>
shared == <<fd, fd_lock>>
minerVars == <<vars, scanning, work_restart, shared, stat, left>>

NoMessage == [status |-> "RDY", nonce_candidate |-> 0, number |-> 0]

MinerInit ==
    /\ Init
    /\ scan = "out" /\ hashes = TRUE
    /\ umsg = NoMessage
    /\ work_restart = FALSE
    /\ fd = FALSE /\ fd_lock = "free"
    /\ stat = "idle"
    /\ left = "nothing"

Go(from, to) == scan = from /\ scan' = to
-----------------------------------------------------------------------------
(***************************************************************************)
(* The caller takes a new work and clears work_restart, or scans the same  *)
(* work once more.                                                         *)
(***************************************************************************)
Call ==
    /\ Go("out", "lock")
    /\ starts < MaxStarts
    /\ work_restart' \in {FALSE, work_restart}
    /\ hashes' = FALSE
    /\ UNCHANGED <<vars, umsg, shared, stat, left>>

LockForOpen ==
    /\ Go("lock", "open")
    /\ fd_lock = "free"
    /\ fd_lock' = "scan"
    /\ UNCHANGED <<vars, hashes, umsg, work_restart, fd, stat, left>>

OpenDevice ==
    /\ Go("open", "opened")
    /\ Open(Miner)
    /\ UNCHANGED <<hashes, umsg, work_restart, shared, stat, left>>

StoreFd ==
    /\ Go("opened", "clock")
    /\ fd' = TRUE
    /\ fd_lock' = "free"
    /\ UNCHANGED <<vars, hashes, umsg, work_restart, stat, left>>

\* EBUSY: the other program has the device open.
OpenFails ==
    /\ scan = "open"
    /\ owner # NULL
    /\ scan' = "disabled"
    /\ fd' = FALSE
    /\ fd_lock' = "free"
    /\ UNCHANGED <<vars, hashes, umsg, work_restart, stat, left>>

\* Mutant: the error path does not close the device.
SetClockLeaks ==
    /\ scan = "clock"
    /\ scan' \in {"reset", "disabled"}
    /\ UNCHANGED <<vars, hashes, umsg, work_restart, shared, stat, left>>

SetClock ==
    /\ scan = "clock"
    /\ scan' \in {"reset", "lock to close"}
    /\ UNCHANGED <<vars, hashes, umsg, work_restart, shared, stat, left>>

ResetDevice ==
    /\ Go("reset", "ready")
    /\ IoctlReset
    /\ UNCHANGED <<hashes, umsg, work_restart, shared, stat, left>>

WaitReady ==
    /\ scan = "ready"
    /\ scan' = CASE status = "RDY" -> "set"
                 [] status # "RDY" /\ work_restart -> "lock to close"
                 [] OTHER -> "ready"
    /\ UNCHANGED <<vars, hashes, umsg, work_restart, shared, stat, left>>

SetWork ==
    /\ Go("set", "start")
    /\ \E j \in Jobs : IoctlSet(j)
    /\ UNCHANGED <<hashes, umsg, work_restart, shared, stat, left>>

StartSearch ==
    /\ Go("start", "loop")
    /\ IoctlStart
    /\ left' = IF ~clean' \/ isr # "idle" THEN "interrupt"
               ELSE IF queue # <<>> \/ msg # NULL THEN "messages"
               ELSE "nothing"
    /\ UNCHANGED <<hashes, umsg, work_restart, shared, stat>>
-----------------------------------------------------------------------------
\* The loop: select with a timeout, then look at what it returned.
SelectDevice ==
    /\ Go("loop", "selected")
    /\ Select
    /\ UNCHANGED <<hashes, umsg, work_restart, shared, stat, left>>

\* Mutant: a timeout does not look at work_restart.
SelectReturnedDeaf ==
    /\ scan = "selected"
    /\ pc = "user"
    /\ scan' = CASE ret = 0 -> "status"
                 [] ret = EINTR -> "nonce"
                 [] OTHER -> "read"
    /\ UNCHANGED <<vars, hashes, umsg, work_restart, shared, stat, left>>

SelectReturned ==
    /\ scan = "selected"
    /\ pc = "user"
    /\ scan' = CASE ret = 0 /\ work_restart -> "nonce"
                 [] ret = 0 /\ ~work_restart -> "status"
                 [] ret = EINTR -> "nonce"
                 [] OTHER -> "read"
    /\ UNCHANGED <<vars, hashes, umsg, work_restart, shared, stat, left>>

\* (status & 0x2) == 0: the hardware stopped for some reason.
CheckStatus ==
    /\ scan = "status"
    /\ scan' = IF status = "BUSY" THEN "loop" ELSE "nonce"
    /\ UNCHANGED <<vars, hashes, umsg, work_restart, shared, stat, left>>

ReadMessage ==
    /\ Go("read", "reading")
    /\ Read(MSGSIZE, FALSE)
    /\ UNCHANGED <<hashes, umsg, work_restart, shared, stat, left>>

\* Mutant: the status of the message is not looked at.
ReadReturnedUnchecked ==
    /\ scan = "reading"
    /\ pc = "user"
    /\ scan' = IF ret # MSGSIZE THEN "nonce" ELSE "submit"
    /\ UNCHANGED <<vars, hashes, umsg, work_restart, shared, stat, left>>

ReadReturned ==
    /\ scan = "reading"
    /\ pc = "user"
    /\ scan' = IF ret # MSGSIZE THEN "nonce"
               ELSE IF umsg.status = "FOUND" THEN "submit" ELSE "no result"
    /\ UNCHANGED <<vars, hashes, umsg, work_restart, shared, stat, left>>

\* submit_nonce of cgminer is external; the message has had its use.
Submit ==
    /\ Go("submit", "nonce")
    /\ UNCHANGED <<vars, hashes, umsg, work_restart, shared, stat, left>>

NoResult ==
    /\ Go("no result", "nonce")
    /\ UNCHANGED <<vars, hashes, umsg, work_restart, shared, stat, left>>

\* GET_NONCE_CURRENT gives the number of hashes.
CountHashes ==
    /\ Go("nonce", "lock to close")
    /\ hashes' = TRUE
    /\ UNCHANGED <<vars, umsg, work_restart, shared, stat, left>>

LockForClose ==
    /\ Go("lock to close", "close")
    /\ fd_lock = "free"
    /\ fd_lock' = "scan"
    /\ UNCHANGED <<vars, hashes, umsg, work_restart, fd, stat, left>>

CloseDevice ==
    /\ Go("close", "closed")
    /\ Release
    /\ UNCHANGED <<hashes, umsg, work_restart, shared, stat, left>>

\* edcinfo->fd = -1, unlock, and the caller looks at the result.
ClearFd ==
    /\ scan = "closed"
    /\ scan' = IF hashes THEN "out" ELSE "disabled"
    /\ umsg' = NoMessage
    /\ fd' = FALSE
    /\ fd_lock' = "free"
    /\ UNCHANGED <<vars, hashes, work_restart, stat, left>>

ScanStep ==
    \/ LockForOpen \/ OpenDevice \/ StoreFd \/ OpenFails
    \/ SetClock \/ ResetDevice \/ WaitReady \/ SetWork \/ StartSearch
    \/ SelectDevice \/ SelectReturned \/ CheckStatus
    \/ ReadMessage \/ ReadReturned \/ Submit \/ NoResult
    \/ CountHashes \/ LockForClose \/ CloseDevice \/ ClearFd
-----------------------------------------------------------------------------
\* Mutant: the message is copied after it was freed.
InKernelLate ==
    /\ ThreadStep
    /\ pc = "copy" => copied' = MSGSIZE
    /\ umsg' = IF pc = "lock" /\ back = "user" THEN heap[msg] ELSE umsg
    /\ UNCHANGED <<scan, hashes, work_restart, shared, stat, left>>

(***************************************************************************)
(* What the kernel does for the thread that is in a system call, and the   *)
(* copy of the message it leaves in the buffer of the scan, which is on    *)
(* the stack of the thread: it can always be written.                      *)
(***************************************************************************)
InKernel ==
    /\ ThreadStep
    /\ pc = "copy" => copied' = MSGSIZE
    /\ umsg' = IF pc = "copy" THEN heap[msg] ELSE umsg
    /\ UNCHANGED <<scan, hashes, work_restart, shared, stat, left>>

Interrupted ==
    /\ Signal
    /\ UNCHANGED <<scanning, work_restart, shared, stat, left>>

TimedOut ==
    /\ SelectTimeout
    /\ UNCHANGED <<scanning, work_restart, shared, stat, left>>

Hardware ==
    /\ Running
    /\ UNCHANGED <<scanning, work_restart, shared, stat, left>>

Handler ==
    /\ IsrStep
    /\ UNCHANGED <<scanning, work_restart, shared, stat, left>>
-----------------------------------------------------------------------------
\* Mutant: the descriptor is read without the lock.
StatLockless ==
    /\ stat = "idle"
    /\ stat' = IF fd THEN "ioctl" ELSE "unlock"
    /\ UNCHANGED <<vars, scanning, work_restart, shared, left>>

\* edc_get_statline_before
StatLock ==
    /\ stat = "idle"
    /\ fd_lock = "free"
    /\ fd_lock' = "stat"
    /\ stat' = IF fd THEN "ioctl" ELSE "unlock"
    /\ UNCHANGED <<vars, scanning, work_restart, fd, left>>

\* GET_STATUS and GET_NONCE_CURRENT change nothing.
StatIoctl ==
    /\ stat = "ioctl"
    /\ stat' = "unlock"
    /\ UNCHANGED <<vars, scanning, work_restart, shared, left>>

StatUnlock ==
    /\ stat = "unlock"
    /\ fd_lock' = "free"
    /\ stat' = "idle"
    /\ UNCHANGED <<vars, scanning, work_restart, fd, left>>

Restart ==
    /\ work_restart' = TRUE
    /\ UNCHANGED <<vars, scanning, shared, stat, left>>

(***************************************************************************)
(* The other program opens the device, starts a search, and is ended at    *)
(* any time.  (It leaves the last start the bound allows to the miner.)    *)
(***************************************************************************)
OtherStep ==
    /\ \/ Open(Other)
       \/ owner = Other /\ (IoctlReset \/ Release)
       \/ owner = Other /\ starts + 1 < MaxStarts /\ IoctlStart
    /\ UNCHANGED <<scanning, work_restart, shared, stat, left>>

MinerNext ==
    \/ Call \/ ScanStep
    \/ InKernel \/ Interrupted \/ TimedOut
    \/ Hardware \/ Handler
    \/ StatLock \/ StatIoctl \/ StatUnlock
    \/ Restart
    \/ OtherStep

MinerSpec == MinerInit /\ [][MinerNext]_minerVars

(***************************************************************************)
(* Every thread and the handler are scheduled, also the thread that waits  *)
(* for fd_lock while the status line is printed again and again; the       *)
(* timeout of a select expires.  Nobody is obliged to call, to ask for a   *)
(* restart or to use the other program, and the hardware is not obliged to *)
(* end a search.                                                           *)
(***************************************************************************)
MinerFairness ==
    /\ WF_minerVars(ScanStep)
    /\ SF_minerVars(LockForOpen) /\ SF_minerVars(LockForClose)
    /\ WF_minerVars(InKernel) /\ WF_minerVars(Handler)
    /\ WF_minerVars(TimedOut)
    /\ WF_minerVars(StatIoctl \/ StatUnlock)

MinerFairSpec == MinerSpec /\ MinerFairness
-----------------------------------------------------------------------------
ScanPlaces ==
    {"out", "lock", "open", "opened", "clock", "reset", "ready", "set", "start",
     "loop", "selected", "status", "read", "reading", "submit", "no result",
     "nonce", "lock to close", "close", "closed", "disabled"}

\* The type invariant of the variables of cgminer.
MinerTypeOK ==
    /\ scan \in ScanPlaces
    /\ hashes \in BOOLEAN /\ work_restart \in BOOLEAN
    /\ left \in {"nothing", "messages", "interrupt"}
    /\ umsg \in Message
    /\ fd \in BOOLEAN /\ fd_lock \in {"free", "scan", "stat"}
    /\ stat \in {"idle", "ioctl", "unlock"}

(***************************************************************************)
(* The status line thread uses edcinfo->fd only while the scan has the     *)
(* device open: never a descriptor that is closed already, nor one that a  *)
(* second open has reused.                                                 *)
(***************************************************************************)
StatlineFdOpen == stat = "ioctl" => owner = Miner

(***************************************************************************)
(* Whatever way the scan ends, it has closed the device: cgminer never     *)
(* leaks it, and the other program is not locked out for ever.             *)
(***************************************************************************)
ScanClosesDevice == scan \in {"out", "disabled"} => owner # Miner /\ ~fd

(***************************************************************************)
(* When nothing of an older search was left as the search was started, a   *)
(* result is of this search: it is what the accelerator shows.             *)
(***************************************************************************)
FreshResult ==
    /\ scan = "submit" /\ left = "nothing" =>
          status = "FOUND" /\ umsg.nonce_candidate = nonce_candidate
    /\ scan = "no result" /\ left = "nothing" => status = "IDLE"

(***************************************************************************)
(* A restart ends the scan, whatever it was waiting for, even if the       *)
(* hardware never answers.                                                 *)
(***************************************************************************)
RestartEndsScan ==
    work_restart ~> scan \in {"out", "disabled"}

(***************************************************************************)
(* What the message "no result in this nonce domain" says: the search of   *)
(* this work has ended, and without a candidate - at least when no         *)
(* interrupt was in progress at its start.                                 *)
(***************************************************************************)
NoResultIsTrue ==
    scan = "no result" /\ left # "interrupt" => status = "IDLE"
=============================================================================
