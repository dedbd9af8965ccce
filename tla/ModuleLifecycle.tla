---------------------------- MODULE ModuleLifecycle ----------------------------
(***************************************************************************)
(* insmod and rmmod of kernel_module/sha256_accel.c: sha256_accel_init     *)
(* with its error paths and sha256_accel_exit, around the file operations  *)
(* and the interrupt handler of KernelDriver.  The handler runs from       *)
(* request_irq on and until free_irq is through; system calls may come as  *)
(* soon as there is a device node.                                         *)
(*                                                                         *)
(* What the kernel does with a name that is taken, a file that is open and *)
(* a handler that runs is modelled from how init and exit rely on it.  An  *)
(* access to registers that are not mapped is an oops: nothing is said of  *)
(* the system from then on.                                                *)
(***************************************************************************)
EXTENDS KernelDriver, FiniteSets

CONSTANT MaxLoads   \* bound: how often the module is loaded

ASSUME LoadsAssumption == MaxLoads \in Nat

VARIABLES
    place,       \* where insmod or rmmod is
    have,        \* what the module has got from the kernel
    oops,
    loads,       \* number of loads, for the bound
    irqFailed,   \* history: request_irq has failed
    early,       \* history: the device was opened before init was over
    busy         \* history: an interrupt was in progress when rmmod began

lifecycle == <<place, have, loads, irqFailed>>
lvars == <<vars, lifecycle, oops, early, busy>>

(***************************************************************************)
(* In the order of init.  A device that device_destroy never sees is       *)
(* "stray".                                                                *)
(***************************************************************************)
Order == <<"chrdev", "class", "device", "slcr", "accel", "irq">>

Resources == { Order[i] : i \in DOMAIN Order }

After(r) ==
    IF r = "irq" THEN "loaded" ELSE Order[1 + CHOOSE i \in DOMAIN Order : Order[i] = r]

Loading == place \in Resources

LifecycleInit ==
    /\ Init
    /\ place = "unloaded" /\ have = {}
    /\ oops = FALSE
    /\ loads = 0
    /\ irqFailed = FALSE /\ early = FALSE /\ busy = FALSE
-----------------------------------------------------------------------------
(***************************************************************************)
(* sha256_accel_init.                                                      *)
(***************************************************************************)
Insmod ==
    /\ place = "unloaded" /\ place' = "chrdev"
    /\ loads < MaxLoads
    /\ loads' = loads + 1
    /\ UNCHANGED <<vars, have, oops, irqFailed, early, busy>>

\* A memory region is granted only to one who asks.
Acquire ==
    /\ Loading
    /\ place \notin have
    /\ have' = have \cup {place}
    /\ place' = After(place)
    /\ UNCHANGED <<vars, oops, loads, irqFailed, early, busy>>

Strayed(S) == (S \ {"device"}) \cup (IF "device" \in S THEN {"stray"} ELSE {})

\* Mutant: error_mem_region_sha256 does not release the SLCR.
UnwoundLess(r) ==
    CASE r = "chrdev" -> {}
      [] r = "class" -> {"chrdev"}
      [] r \in {"device", "slcr", "accel", "irq"} -> {"class", "chrdev"}

\* What the labels from error_irq to error_register free.
Unwound(r) ==
    CASE r = "chrdev" -> {}
      [] r = "class" -> {"chrdev"}
      [] r \in {"device", "slcr"} -> {"class", "chrdev"}
      [] r \in {"accel", "irq"} -> {"slcr", "class", "chrdev"}

(***************************************************************************)
(* Whatever init asks for may be refused.  A file that is open by then has *)
(* no file operations any more: its next call, close at the latest, is an  *)
(* oops.                                                                   *)
(***************************************************************************)
Fail ==
    /\ Loading
    /\ place' = "unloaded"
    /\ have' = Strayed(have \ Unwound(place))
    /\ irqFailed' = (irqFailed \/ place = "irq")
    /\ oops' = (owner # NULL)
    /\ UNCHANGED <<vars, loads, early, busy>>
-----------------------------------------------------------------------------
(***************************************************************************)
(* sha256_accel_exit.  The kernel does not begin it while the device is    *)
(* open, and from then on nobody opens it.                                 *)
(***************************************************************************)
ExitGoes(from, to) == place = from /\ place' = to

InterruptInProgress == irq \/ external_irq \/ isr # "idle"

Rmmod ==
    /\ ExitGoes("loaded", "reset")
    /\ owner = NULL
    /\ heap' = [a \in Addr |-> IF a = msg THEN Free ELSE heap[a]]
    /\ busy' = InterruptInProgress
    /\ UNCHANGED <<engine, owner, call, waitq, msg, queue, msg_mutex, handler,
                   history, have, oops, loads, irqFailed, early>>

ExitReset ==
    /\ ExitGoes("reset", "lock")
    /\ Control({"RST"})
    /\ UNCHANGED <<owner, call, waitq, list, handler, starts, raised, taken, got,
                   clean, have, oops, loads, irqFailed, early, busy>>

ExitLock ==
    /\ ExitGoes("lock", "empty")
    /\ msg_mutex = "free" /\ msg_mutex' = "exit"
    /\ UNCHANGED <<engine, owner, call, waitq, msg, queue, heap, handler, history,
                   have, oops, loads, irqFailed, early, busy>>

\* The loop that frees the messages of the list.
ExitEmpty ==
    /\ ExitGoes("empty", "unmap")
    /\ heap' = [a \in Addr |-> IF \E i \in DOMAIN queue : queue[i] = a THEN Free ELSE heap[a]]
    /\ queue' = <<>>
    /\ UNCHANGED <<engine, owner, call, waitq, msg, msg_mutex, handler, history,
                   have, oops, loads, irqFailed, early, busy>>

ExitUnmap ==
    /\ ExitGoes("unmap", "free irq")
    /\ have' = have \ {"accel", "slcr"}
    /\ UNCHANGED <<vars, oops, loads, irqFailed, early, busy>>

\* Mutant: the mutex is not given back.
ExitFreeIrqLocked ==
    /\ ExitGoes("free irq", "destroy")
    /\ isr = "idle"
    /\ have' = have \ {"irq"}
    /\ UNCHANGED <<vars, oops, loads, irqFailed, early, busy>>

\* free_irq waits for a handler that runs; then the mutex is given back.
ExitFreeIrq ==
    /\ ExitGoes("free irq", "destroy")
    /\ isr = "idle"
    /\ have' = have \ {"irq"}
    /\ msg_mutex' = "free"
    /\ UNCHANGED <<engine, owner, call, waitq, msg, queue, heap, handler, history,
                   oops, loads, irqFailed, early, busy>>

\* The static variables go with the module.
ExitDestroy ==
    /\ ExitGoes("destroy", "unloaded")
    /\ have' = have \ {"device", "class", "chrdev"}
    /\ msg' = NULL
    /\ UNCHANGED <<engine, owner, call, waitq, queue, msg_mutex, heap, handler,
                   history, oops, loads, irqFailed, early, busy>>

Exit ==
    ExitReset \/ ExitLock \/ ExitEmpty \/ ExitUnmap \/ ExitFreeIrq \/ ExitDestroy
-----------------------------------------------------------------------------
(***************************************************************************)
(* The handler and the system calls.                                       *)
(***************************************************************************)
Mapped(r) == r \in have

Oops ==
    /\ oops' = TRUE
    /\ UNCHANGED <<vars, lifecycle, early, busy>>

\* The handler runs, or the line asks for it and it is installed.
Interrupted == isr # "idle" \/ (external_irq /\ "irq" \in have)

HandlerTouches == isr \in {"idle", "candidate", "ack"}

HandlerStep ==
    /\ Interrupted
    /\ HandlerTouches => Mapped("accel")
    /\ IsrStep
    /\ UNCHANGED <<lifecycle, oops, early, busy>>

HandlerOops == Interrupted /\ HandlerTouches /\ ~Mapped("accel") /\ Oops

\* try_module_get succeeds until rmmod, during init, too.
OpenDevice(p) ==
    /\ Open(p)
    /\ "device" \in have /\ (Loading \/ place = "loaded")
    /\ early' = (early \/ Loading)
    /\ UNCHANGED <<lifecycle, oops, busy>>

Hardware == Running /\ UNCHANGED <<lifecycle, oops, early, busy>>

LifecycleStep == Insmod \/ Acquire \/ Fail \/ Rmmod \/ Exit
-----------------------------------------------------------------------------
(***************************************************************************)
(* Correctness.                                                            *)
(***************************************************************************)
ExitPlaces == {"reset", "lock", "empty", "unmap", "free irq", "destroy"}

\* The type invariant: that of the driver unless exit holds the mutex.
LifecycleTypeOK ==
    /\ place \in Resources \cup {"unloaded", "loaded"} \cup ExitPlaces
    /\ IF place \in {"empty", "unmap", "free irq"} THEN msg_mutex = "exit" ELSE TypeOK
    /\ have \subseteq Resources \cup {"stray"}
    /\ loads \in Nat
    /\ oops \in BOOLEAN /\ irqFailed \in BOOLEAN
    /\ early \in BOOLEAN /\ busy \in BOOLEAN

(***************************************************************************)
(* "if anything goes wrong, free the allocated ressources": when the       *)
(* module is not loaded, the kernel still holds nothing for it, neither    *)
(* after rmmod nor after an init that failed - but for the device node of  *)
(* a failed init and, once request_irq has failed, the registers of the    *)
(* accelerator, without which the module cannot be loaded again.  Nor does *)
(* rmmod leave a message behind, whatever the handler was about to do.     *)
(***************************************************************************)
UnloadLeavesNothing ==
    place = "unloaded" /\ ~oops =>
        /\ have \subseteq {"stray"} \cup (IF irqFailed THEN {"accel"} ELSE {})
        /\ Allocated = {}

(***************************************************************************)
(* Registers that are not mapped are touched in two races only: a program  *)
(* opens the device before init is over, or an interrupt is in progress    *)
(* when rmmod begins.  So a search that is under way when the device is    *)
(* closed does no harm to an rmmod that follows at once.                   *)
(***************************************************************************)
OopsNeedsRace == oops => early \/ busy

(***************************************************************************)
(* rmmod comes to its end, although exit keeps the mutex the handler needs *)
(* while it waits for the handler - unless an interrupt was in progress    *)
(* when it began.                                                          *)
(***************************************************************************)
ExitEnds == place \in ExitPlaces ~> place = "unloaded" \/ busy
=============================================================================
