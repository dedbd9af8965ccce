--------------------------- MODULE TestProgramProofs ---------------------------
(***************************************************************************)
(* Theorems about TestProgram and ModuleLifecycle: the test program on the *)
(* driver that is loaded and unloaded, for any number of loads, searches,  *)
(* programs, addresses, nonces and jobs.                                   *)
(***************************************************************************)
EXTENDS TestProgram, KernelDriverProofs

-----------------------------------------------------------------------------
(***************************************************************************)
(* Steps.                                                                  *)
(***************************************************************************)
Exiting == place \in ExitPlaces

\* All but Rmmod and the statements of exit are steps of the driver.
LEMMA DriverOrExit ==
    ASSUME ProgNext
    PROVE  (Rmmod \/ Exit) \/ [Next]_vars
<1>1. CASE UNCHANGED vars
  BY <1>1
<1>2. CASE ThreadStep \/ Signal \/ SelectTimeout \/ Running \/ IsrStep
  BY <1>2 DEF Next
<1>3. CASE \/ (\E p \in Procs : Open(p)) \/ Release \/ IoctlReset \/ IoctlStart
           \/ (\E j \in Jobs : IoctlSet(j)) \/ Select
  BY <1>3 DEF Next, Syscall
<1>4. CASE Read(MSGSIZE, FALSE)
  <2>1. MSGSIZE \in 0 .. MSGSIZE /\ FALSE \in BOOLEAN
    BY SizeAssumption
  <2> QED
    BY <1>4, <2>1 DEF Next, Syscall
<1>5. CASE ProgStep \/ ProgKilled
  BY <1>1, <1>3, <1>4, <1>5
  DEF ProgStep, ProgOpen, ProgClock, ProgReset, ProgReady, ProgSet, ProgStart, ProgSelect,
      ProgSelected, ProgRead, ProgClose, ProgKilled, OpenDevice
<1>6. CASE ProgOops \/ HandlerOops \/ Insmod \/ Acquire \/ Fail
  BY <1>1, <1>6 DEF ProgOops, HandlerOops, Oops, Insmod, Acquire, Fail
<1>7. CASE InKernel \/ Disturbed \/ HandlerStep \/ Hardware
  BY <1>2, <1>7 DEF InKernel, Disturbed, HandlerStep, Hardware
<1> QED
  BY <1>5, <1>6, <1>7 DEF ProgNext, KernelStep, LifecycleStep

\* What a step does to the lifecycle.
LEMMA LifecycleKept ==
    ASSUME \/ ProgStep \/ ProgKilled \/ ProgOops \/ InKernel \/ Disturbed
           \/ HandlerStep \/ HandlerOops \/ Hardware
    PROVE  UNCHANGED lifecycle
BY DEF ProgStep, ProgOpen, ProgClock, ProgReset, ProgReady, ProgSet, ProgStart, ProgSelect,
   ProgSelected, ProgRead, ProgClose, ProgKilled, OpenDevice, Calls, ProgOops, HandlerOops,
   Oops, InKernel, Disturbed, HandlerStep, Hardware

-----------------------------------------------------------------------------
(***************************************************************************)
(* What the module has got, place by place: at least Got, and of older     *)
(* loads what Left says.                                                   *)
(***************************************************************************)
Got ==
    CASE place \in {"unloaded", "chrdev"} -> {}
      [] place = "class"  -> {"chrdev"}
      [] place = "device" -> {"chrdev", "class"}
      [] place = "slcr"   -> {"chrdev", "class", "device"}
      [] place = "accel"  -> {"chrdev", "class", "device", "slcr"}
      [] place = "irq"    -> {"chrdev", "class", "device", "slcr", "accel"}
      [] place \in {"loaded", "reset", "lock", "empty", "unmap"} ->
            {"chrdev", "class", "device", "slcr", "accel", "irq"}
      [] place = "free irq" -> {"chrdev", "class", "device", "irq"}
      [] place = "destroy"  -> {"chrdev", "class", "device"}

Left == {"stray"} \cup (IF irqFailed THEN {"accel"} ELSE {})

Has ==
    /\ place \in Resources \cup {"unloaded", "loaded"} \cup ExitPlaces
    /\ Got \subseteq have /\ have \subseteq Got \cup Left
    /\ loads \in Nat /\ irqFailed \in BOOLEAN

\* What init asks for, and in which order.
LEMMA Sequence ==
    /\ Resources = {"chrdev", "class", "device", "slcr", "accel", "irq"}
    /\ After("chrdev") = "class" /\ After("class") = "device"
    /\ After("device") = "slcr" /\ After("slcr") = "accel"
    /\ After("accel") = "irq" /\ After("irq") = "loaded"
<1>1. DOMAIN Order = 1 .. 6
  BY DEF Order
<1>2. /\ Order[1] = "chrdev" /\ Order[2] = "class" /\ Order[3] = "device"
      /\ Order[4] = "slcr" /\ Order[5] = "accel" /\ Order[6] = "irq"
  BY DEF Order
<1>3. Resources = {"chrdev", "class", "device", "slcr", "accel", "irq"}
  BY <1>1, <1>2 DEF Resources
<1>4. ASSUME NEW k \in 1 .. 6
      PROVE  (CHOOSE i \in DOMAIN Order : Order[i] = Order[k]) = k
  <2>1. \A i \in 1 .. 6 : Order[i] = Order[k] => i = k
    BY <1>2
  <2> QED
    BY <1>1, <2>1
<1>5. \A k \in 1 .. 5 : After(Order[k]) = Order[1 + k]
  <2> TAKE k \in 1 .. 5
  <2>1. (CHOOSE i \in DOMAIN Order : Order[i] = Order[k]) = k
    BY <1>4
  <2>2. Order[k] # "irq"
    BY <1>2
  <2> QED
    BY <2>1, <2>2 DEF After
<1>6. /\ After(Order[1]) = Order[2] /\ After(Order[2]) = Order[3]
      /\ After(Order[3]) = Order[4] /\ After(Order[4]) = Order[5]
      /\ After(Order[5]) = Order[6]
  BY <1>5
<1>7. After("irq") = "loaded"
  BY DEF After
<1> QED
  BY <1>2, <1>3, <1>6, <1>7

\* Every step leaves the module with what its place says.
LEMMA HasStep ==
    ASSUME Has, [ProgNext]_progVars
    PROVE  Has'
<1> USE Sequence DEF Has, Got, Left, ExitPlaces
<1>1. CASE UNCHANGED lifecycle
  BY <1>1 DEF lifecycle
<1>2. CASE Insmod
  BY <1>2 DEF Insmod
<1>3. CASE Acquire
  <2>1. /\ Loading /\ have' = have \cup {place} /\ place' = After(place)
        /\ loads' = loads /\ irqFailed' = irqFailed
    BY <1>3 DEF Acquire
  <2>2. CASE place \in {"chrdev", "class"}
    BY <2>1, <2>2
  <2>3. CASE place \in {"device", "slcr"}
    BY <2>1, <2>3
  <2>4. CASE place \in {"accel", "irq"}
    BY <2>1, <2>4
  <2> QED
    BY <2>1, <2>2, <2>3, <2>4 DEF Loading
<1>4. CASE Fail
  <2>1. /\ Loading /\ place' = "unloaded" /\ have' = Strayed(have \ Unwound(place))
        /\ irqFailed' = (irqFailed \/ place = "irq")
        /\ loads' = loads
    BY <1>4 DEF Fail
  <2>2. /\ Unwound(place) \subseteq {"slcr", "class", "chrdev"}
        /\ {"class", "chrdev"} \cap Got \subseteq Unwound(place)
        /\ "slcr" \in Got => "slcr" \in Unwound(place)
    BY <2>1 DEF Unwound, Loading
  <2>3. have' \subseteq (have \ (Unwound(place) \cup {"device"})) \cup {"stray"}
    BY <2>1 DEF Strayed
  <2>4. Got \ {"class", "chrdev", "slcr", "device"} \subseteq
            IF place = "irq" THEN {"accel"} ELSE {}
    BY <2>1 DEF Loading
  <2>5. have' \subseteq Left'
    <3>1. have \subseteq Got \cup Left
      OBVIOUS
    <3>2. Left \subseteq Left' /\ (place = "irq" => "accel" \in Left') /\ "stray" \in Left'
      BY <2>1
    <3> HIDE DEF Got, Left
    <3> QED
      BY <2>2, <2>3, <2>4, <3>1, <3>2
  <2> QED
    BY <2>1, <2>5
<1>5. CASE Rmmod
  BY <1>5 DEF Rmmod, ExitGoes
<1>6. CASE Exit
  BY <1>6 DEF Exit, ExitReset, ExitLock, ExitEmpty, ExitUnmap, ExitFreeIrq, ExitDestroy, ExitGoes
<1>7. CASE UNCHANGED progVars
  BY <1>1, <1>7 DEF progVars, lvars
<1> QED
  BY <1>1, <1>2, <1>3, <1>4, <1>5, <1>6, <1>7, LifecycleKept DEF ProgNext, KernelStep, LifecycleStep

-----------------------------------------------------------------------------
(***************************************************************************)
(* Who has the device open, as long as there was no oops: only the         *)
(* program, and during init only after it has won that race.  A closed     *)
(* device has no thread in the kernel.                                     *)
(***************************************************************************)
Users ==
    /\ oops \in BOOLEAN /\ early \in BOOLEAN /\ busy \in BOOLEAN
    /\ owner = NULL => pc = "user"
    /\ ~oops =>
         /\ prog = "idle" <=> owner = NULL
         /\ owner # NULL => place = "loaded" \/ (Loading /\ early)

\* What happens in the kernel does not change who has the device open.
LEMMA OwnerKept ==
    ASSUME ThreadStep \/ Signal \/ SelectTimeout \/ Running \/ IsrStep
    PROVE  owner' = owner
<1>1. CASE ThreadStep
  BY <1>1 DEF ThreadStep, Lock, LockInterrupted, Pop, Avail, Availed, Wait, Waiting,
     WakeUp, Copy, FreeCurrent, Poll, Polled, SelectWakeUp
<1>2. CASE IsrStep
  BY <1>2 DEF IsrStep, IsrStatus, IsrCandidate, IsrAck, IsrLock, IsrAdd, IsrWake
<1> QED
  BY <1>1, <1>2 DEF Signal, SelectTimeout, Running

\* The thread goes on in the kernel only when it is there.
LEMMA InKernelPlaces ==
    ASSUME ThreadStep \/ Signal \/ SelectTimeout
    PROVE  pc # "user" /\ UNCHANGED <<isr, isrMsg, engine>>
<1>1. CASE ThreadStep
  BY <1>1 DEF ThreadStep, Lock, LockInterrupted, Pop, Avail, Availed, Wait, Waiting,
     WakeUp, Copy, FreeCurrent, Poll, Polled, SelectWakeUp, handler
<1>2. CASE Signal \/ SelectTimeout
  BY <1>2 DEF Signal, SelectTimeout, handler
<1> QED
  BY <1>1, <1>2

\* The handler and the hardware leave the thread alone.
LEMMA CallKept ==
    ASSUME IsrStep \/ Running
    PROVE  pc' = pc
<1>1. UNCHANGED call
  BY DEF IsrStep, IsrStatus, IsrCandidate, IsrAck, IsrLock, IsrAdd, IsrWake, Running
<1> QED
  BY <1>1 DEF call

\* Every step keeps the program, the device and the lifecycle together.
LEMMA UsersStep ==
    ASSUME Has, Users, [ProgNext]_progVars
    PROVE  Users'
<1>0. Resources = {"chrdev", "class", "device", "slcr", "accel", "irq"} /\ NULL \notin Procs
  BY Sequence, NullAssumption
<1> USE <1>0 DEF Users, Loading
<1>1. CASE ProgOpen
  <2>1. /\ ~oops /\ prog = "idle" /\ prog' = "clock" /\ oops' = oops /\ busy' = busy
        /\ place' = place /\ early' = (early \/ Loading)
        /\ Loading \/ place = "loaded"
        /\ owner = NULL /\ owner' \in Procs
    BY <1>1 DEF ProgOpen, ProgGoes, OpenDevice, lifecycle, Open
  <2>2. owner' # NULL
    BY <2>1
  <2>3. early' \in BOOLEAN
    BY <2>1
  <2> QED
    BY <2>1, <2>2, <2>3
<1>2. CASE \/ ProgClock \/ ProgReset \/ ProgReady \/ ProgSet \/ ProgStart \/ ProgSelect
           \/ ProgSelected \/ ProgRead
  <2>1. /\ prog # "idle" /\ prog' # "idle" /\ UNCHANGED <<oops, early, busy, place>>
    BY <1>2 DEF ProgClock, ProgReset, ProgReady, ProgSet, ProgStart, ProgSelect, ProgSelected,
       ProgRead, ProgGoes, Calls, lifecycle
  <2>2. owner' = owner
    BY <1>2 DEF ProgClock, ProgReset, ProgReady, ProgSet, ProgStart, ProgSelect, ProgSelected,
       ProgRead, vars, IoctlReset, IoctlSet, IoctlStart, Select, Read
  <2>3. owner # NULL \/ oops
    BY <2>1
  <2>4. ~oops
    BY <1>2 DEF ProgClock, ProgReset, ProgReady, ProgSet, ProgStart, ProgSelect, ProgSelected,
       ProgRead, Calls
  <2> QED
    BY <2>1, <2>2, <2>3, <2>4
<1>3. CASE ProgClose \/ ProgKilled
  <2>1. /\ prog' = "idle" /\ owner' = NULL /\ pc' = pc /\ pc = "user"
        /\ UNCHANGED <<oops, early, busy>>
    BY <1>3 DEF ProgClose, ProgKilled, ProgGoes, Calls, Release, call
  <2> QED
    BY <2>1
<1>4. CASE InKernel \/ Disturbed
  <2>1. /\ UNCHANGED <<oops, early, busy, place, prog>>
        /\ ThreadStep \/ Signal \/ SelectTimeout
    BY <1>4 DEF InKernel, Disturbed, lifecycle
  <2>2. owner' = owner /\ pc # "user"
    BY <2>1, OwnerKept, InKernelPlaces
  <2> QED
    BY <2>1, <2>2
<1>5. CASE (HandlerStep \/ Hardware) /\ UNCHANGED prog
  <2>1. /\ UNCHANGED <<oops, early, busy, place, prog>>
        /\ IsrStep \/ Running
    BY <1>5 DEF HandlerStep, Hardware, lifecycle
  <2>2. owner' = owner /\ pc' = pc
    BY <2>1, OwnerKept, CallKept
  <2> QED
    BY <2>1, <2>2
<1>6. CASE ProgOops \/ (HandlerOops /\ UNCHANGED prog)
  <2>1. oops' = TRUE /\ UNCHANGED <<early, busy, owner, pc>>
    BY <1>6 DEF ProgOops, HandlerOops, Oops, vars, call
  <2> QED
    BY <2>1
<1>7. CASE (Insmod \/ Acquire) /\ UNCHANGED prog
  <2>1. UNCHANGED <<prog, oops, early, busy, owner, pc>>
    BY <1>7 DEF Insmod, Acquire, vars, call
  <2>2. \/ place = "unloaded"
        \/ Loading /\ place' \in Resources \cup {"loaded"}
    BY <1>7, Sequence DEF Insmod, Acquire
  <2> QED
    BY <2>1, <2>2
<1>8. CASE Fail /\ ~oops /\ UNCHANGED prog
  <2>1. /\ UNCHANGED <<prog, early, busy, owner, pc>>
        /\ oops' = (owner # NULL)
    BY <1>8 DEF Fail, vars, call
  <2>2. oops' \in BOOLEAN /\ (~oops' => owner = NULL)
    BY <2>1
  <2>3. CASE oops'
    BY <2>1, <2>2, <2>3
  <2>4. CASE ~oops'
    BY <1>8, <2>1, <2>2, <2>4
  <2> QED
    BY <2>3, <2>4
<1>9. CASE (Rmmod \/ Exit) /\ UNCHANGED prog
  <2>1. /\ UNCHANGED <<prog, early, oops, owner, pc>>
        /\ busy' \in BOOLEAN
    BY <1>9 DEF Rmmod, Exit, ExitReset, ExitLock, ExitEmpty, ExitUnmap, ExitFreeIrq, ExitDestroy,
       call, vars, InterruptInProgress
  <2>2. owner = NULL \/ oops
    BY <1>9 DEF Rmmod, Exit, ExitReset, ExitLock, ExitEmpty, ExitUnmap, ExitFreeIrq, ExitDestroy,
       ExitGoes
  <2> QED
    BY <2>1, <2>2
<1>10. CASE UNCHANGED progVars
  BY <1>10 DEF progVars, lvars, vars, lifecycle, call
<1>11. ProgNext => ~oops
  BY DEF ProgNext
<1> QED
  BY <1>1, <1>2, <1>3, <1>4, <1>5, <1>6, <1>7, <1>8, <1>9, <1>10, <1>11
  DEF ProgNext, ProgStep, KernelStep, LifecycleStep

-----------------------------------------------------------------------------
(***************************************************************************)
(* Quiet exits: if no interrupt was in progress when rmmod began, none is  *)
(* from then on, since nobody has the device open to start a search.       *)
(* Before the handler is installed it does not run.                        *)
(***************************************************************************)
Silent ==
    /\ irq \in BOOLEAN /\ external_irq \in BOOLEAN
    /\ ~oops /\ Exiting /\ ~busy => ~InterruptInProgress
    /\ ~oops /\ "irq" \notin have => isr = "idle"

\* No search, no interrupt: what the accelerator does by itself when it does nothing.
LEMMA EdgeSilent ==
    ASSUME NEW c, NEW a \in BOOLEAN, Device!Edge(c, a), irq \in BOOLEAN, external_irq \in BOOLEAN
    PROVE  /\ irq' \in BOOLEAN /\ external_irq' \in BOOLEAN
           /\ status \notin {"BUSY", "FIN"} => irq' = FALSE
           /\ ~irq /\ ~external_irq => ~external_irq'
<1>1. external_irq' = (~a /\ (external_irq \/ irq))
  BY DEF Device!Edge, Device!Latch
<1>2. irq' \in BOOLEAN /\ (status \notin {"BUSY", "FIN"} => irq' = FALSE)
  BY DEF Device!Edge, Device!Reset, Device!Begin, Device!Stay, Device!Drain, Device!Exhaust,
     Device!Report
<1> QED
  BY <1>1, <1>2

\* The types of the two interrupt lines.
LEMMA LinesStep ==
    ASSUME irq \in BOOLEAN /\ external_irq \in BOOLEAN, [ProgNext]_progVars
    PROVE  irq' \in BOOLEAN /\ external_irq' \in BOOLEAN
<1>1. CASE UNCHANGED engine
  BY <1>1 DEF engine
<1>2. CASE \E c \in {{}, {"RST"}, {"RUN"}}, a \in BOOLEAN : Device!Edge(c, a)
  BY <1>2, EdgeSilent
<1>3. CASE Rmmod \/ Exit
  BY <1>1, <1>2, <1>3 DEF Rmmod, Exit, ExitReset, ExitLock, ExitEmpty, ExitUnmap, ExitFreeIrq,
     ExitDestroy, Control, vars
<1>4. CASE [Next]_vars
  <2>1. CASE Running \/ Release \/ IoctlReset \/ IoctlStart \/ IsrAck
    BY <1>2, <2>1 DEF Running, Release, IoctlReset, IoctlStart, IsrAck, Control
  <2>2. CASE \E j \in Jobs : IoctlSet(j)
    BY <2>2 DEF IoctlSet, Device!Configure
  <2>3. CASE \/ (\E p \in Procs : Open(p)) \/ Select
             \/ \E n \in 0 .. MSGSIZE, nb \in BOOLEAN : Read(n, nb)
    BY <1>1, <2>3 DEF Open, Select, Read
  <2>4. CASE ThreadStep \/ Signal \/ SelectTimeout
    BY <1>1, <2>4, InKernelPlaces
  <2>5. CASE IsrStatus \/ IsrCandidate \/ IsrLock \/ IsrAdd \/ IsrWake
    BY <1>1, <2>5 DEF IsrStatus, IsrCandidate, IsrLock, IsrAdd, IsrWake
  <2>6. CASE UNCHANGED vars
    BY <1>1, <2>6 DEF vars
  <2> QED
    BY <1>4, <2>1, <2>2, <2>3, <2>4, <2>5, <2>6 DEF Next, Syscall, IsrStep
<1>5. CASE UNCHANGED progVars
  BY <1>1, <1>5 DEF progVars, lvars, vars
<1> QED
  BY <1>3, <1>4, <1>5, DriverOrExit

\* The engine of a closed device stays stopped, also during exit.
LEMMA StoppedStep ==
    ASSUME ClosedMeansStopped, [ProgNext]_progVars
    PROVE  ClosedMeansStopped'
<1>1. CASE [Next]_vars
  BY <1>1, ClosedStep
<1>2. CASE ExitReset
  BY <1>2 DEF ExitReset, Control, Device!Edge, Device!Reset, ClosedMeansStopped
<1>3. CASE Rmmod \/ ExitLock \/ ExitEmpty \/ ExitUnmap \/ ExitFreeIrq \/ ExitDestroy
  BY <1>3 DEF Rmmod, ExitLock, ExitEmpty, ExitUnmap, ExitFreeIrq, ExitDestroy, engine, vars,
     ClosedMeansStopped
<1>4. CASE UNCHANGED progVars
  BY <1>4 DEF progVars, lvars, vars, engine, ClosedMeansStopped
<1> QED
  BY <1>1, <1>2, <1>3, <1>4, DriverOrExit DEF Exit

\* Which steps are possible while the device is closed and exit goes on.
LEMMA ExitingSteps ==
    ASSUME Has, Users, Exiting, ProgNext
    PROVE  /\ owner = NULL /\ pc = "user" /\ prog = "idle" /\ ~oops
           /\ UNCHANGED prog
           /\ Exit \/ HandlerStep \/ HandlerOops \/ Hardware
<1>1. ~oops
  BY DEF ProgNext
<1>2. /\ place \notin Resources /\ place # "loaded" /\ place # "unloaded"
  BY Sequence DEF Exiting, ExitPlaces
<1>3. owner = NULL /\ pc = "user" /\ prog = "idle"
  BY <1>1, <1>2 DEF Users, Loading
<1>4. ~ProgStep
  BY <1>2, <1>3 DEF ProgStep, ProgOpen, ProgClock, ProgReset, ProgReady, ProgSet, ProgStart,
     ProgSelect, ProgSelected, ProgRead, ProgClose, ProgGoes, OpenDevice, Loading
<1>5. ~(ProgKilled \/ ProgOops)
  BY <1>3 DEF ProgKilled, ProgOops
<1>6. ~(InKernel \/ Disturbed)
  BY <1>3, InKernelPlaces DEF InKernel, Disturbed
<1>7. ~(Insmod \/ Acquire \/ Fail \/ Rmmod)
  BY <1>2 DEF Insmod, Acquire, Fail, Rmmod, Loading, ExitGoes
<1> QED
  BY <1>1, <1>3, <1>4, <1>5, <1>6, <1>7 DEF ProgNext, KernelStep, LifecycleStep

\* Steps that leave the handler where it is.
LEMMA HandlerIdle ==
    ASSUME [ProgNext]_progVars, ~HandlerStep
    PROVE  isr' = isr
<1>1. CASE UNCHANGED vars
  BY <1>1 DEF vars, handler
<1>2. CASE ThreadStep \/ Signal \/ SelectTimeout
  BY <1>2, InKernelPlaces
<1>3. CASE \/ (\E p \in Procs : Open(p)) \/ Release \/ IoctlReset \/ IoctlStart \/ Running
           \/ (\E j \in Jobs : IoctlSet(j)) \/ Select \/ Read(MSGSIZE, FALSE)
  BY <1>3 DEF Open, Release, IoctlReset, IoctlStart, Running, IoctlSet, Select, Read, handler
<1>4. CASE Rmmod \/ Exit
  BY <1>4 DEF Rmmod, Exit, ExitReset, ExitLock, ExitEmpty, ExitUnmap, ExitFreeIrq, ExitDestroy,
     vars, handler
<1>5. CASE ProgStep \/ ProgKilled
  BY <1>1, <1>3, <1>5
  DEF ProgStep, ProgOpen, ProgClock, ProgReset, ProgReady, ProgSet, ProgStart, ProgSelect,
      ProgSelected, ProgRead, ProgClose, ProgKilled, OpenDevice
<1>6. CASE ProgOops \/ HandlerOops \/ Insmod \/ Acquire \/ Fail
  BY <1>1, <1>6 DEF ProgOops, HandlerOops, Oops, Insmod, Acquire, Fail
<1>7. CASE InKernel \/ Disturbed \/ Hardware
  BY <1>2, <1>3, <1>7 DEF InKernel, Disturbed, Hardware
<1>8. CASE UNCHANGED progVars
  BY <1>1, <1>8 DEF progVars, lvars
<1> QED
  BY <1>4, <1>5, <1>6, <1>7, <1>8 DEF ProgNext, KernelStep, LifecycleStep

\* Only rmmod begins an exit, and only free_irq takes the handler out.
LEMMA EntersAndLeaves ==
    ASSUME Has, [ProgNext]_progVars
    PROVE  /\ ~Exiting /\ Exiting' => Rmmod
           /\ "irq" \in have /\ "irq" \notin have' => ExitFreeIrq
<1> USE Sequence DEF Exiting, ExitPlaces, Loading
<1>1. CASE UNCHANGED lifecycle
  BY <1>1 DEF lifecycle
<1>2. CASE Insmod
  BY <1>2 DEF Insmod
<1>3. CASE Acquire
  BY <1>3 DEF Acquire
<1>4. CASE Fail
  <2>1. "irq" \notin have
    BY <1>4 DEF Fail, Has, Got, Left
  <2> QED
    BY <1>4, <2>1 DEF Fail
<1>5. CASE Rmmod
  BY <1>5 DEF Rmmod
<1>6. CASE Exit
  BY <1>6 DEF Exit, ExitReset, ExitLock, ExitEmpty, ExitUnmap, ExitFreeIrq, ExitDestroy, ExitGoes
<1>7. CASE UNCHANGED progVars
  BY <1>1, <1>7 DEF progVars, lvars
<1> QED
  BY <1>1, <1>2, <1>3, <1>4, <1>5, <1>6, <1>7, LifecycleKept DEF ProgNext, KernelStep, LifecycleStep

\* An exit that began in silence goes on in silence.
LEMMA SilentStep ==
    ASSUME Has, Users, ClosedMeansStopped, Silent, [ProgNext]_progVars
    PROVE  Silent'
<1>1. irq' \in BOOLEAN /\ external_irq' \in BOOLEAN
  BY LinesStep DEF Silent
<1>2. ASSUME ~oops', "irq" \notin have'
      PROVE  isr' = "idle"
  <2>1. CASE HandlerStep
    <3>2. ~oops /\ UNCHANGED lifecycle
      BY <1>2, <2>1 DEF HandlerStep
    <3>3. have' = have
      BY <3>2 DEF lifecycle
    <3>4. isr = "idle"
      BY <1>2, <3>2, <3>3 DEF Silent
    <3> QED
      BY <1>2, <2>1, <3>3, <3>4 DEF HandlerStep, Interrupted
  <2>2. CASE ~HandlerStep
    <3>1. isr' = isr
      BY <2>2, HandlerIdle
    <3>2. CASE "irq" \notin have /\ ~oops
      BY <3>1, <3>2 DEF Silent
    <3>3. CASE "irq" \in have
      <4>1. ExitFreeIrq
        BY <1>2, <3>3, EntersAndLeaves
      <4> QED
        BY <3>1, <4>1 DEF ExitFreeIrq
    <3>4. ~oops
      BY <1>2 DEF ProgNext, progVars, lvars
    <3> QED
      BY <3>2, <3>3, <3>4
  <2> QED
    BY <2>1, <2>2
<1>3. ASSUME ~oops', Exiting', ~busy'
      PROVE  ~InterruptInProgress'
  <2>1. CASE Exiting
    <3>1. CASE UNCHANGED progVars
      BY <1>3, <2>1, <3>1 DEF progVars, lvars, vars, engine, handler, Silent, InterruptInProgress
    <3>2. CASE ProgNext
      <4>1. /\ owner = NULL /\ ~oops
            /\ Exit \/ HandlerStep \/ HandlerOops \/ Hardware
        BY <2>1, <3>2, ExitingSteps
      <4>2. busy' = busy
        BY <4>1 DEF Exit, ExitReset, ExitLock, ExitEmpty, ExitUnmap, ExitFreeIrq, ExitDestroy,
           HandlerStep, HandlerOops, Oops, Hardware
      <4>3. ~irq /\ ~external_irq /\ isr = "idle"
        BY <1>3, <2>1, <4>1, <4>2 DEF Silent, InterruptInProgress
      <4>4. ~HandlerStep
        BY <4>3 DEF HandlerStep, Interrupted
      <4>5. isr' = "idle"
        BY <4>3, <4>4, HandlerIdle
      <4>6. CASE UNCHANGED engine
        BY <4>3, <4>5, <4>6 DEF engine, InterruptInProgress
      <4>7. CASE \E c \in {{}, {"RST"}} : Device!Edge(c, FALSE)
        <5>1. status \notin {"BUSY", "FIN"}
          BY <4>1 DEF ClosedMeansStopped
        <5>2. irq' = FALSE /\ ~external_irq'
          BY <4>3, <4>7, <5>1, EdgeSilent DEF Silent
        <5> QED
          BY <4>5, <5>2 DEF InterruptInProgress
      <4> QED
        BY <4>1, <4>4, <4>6, <4>7 DEF Exit, ExitReset, ExitLock, ExitEmpty, ExitUnmap, ExitFreeIrq,
           ExitDestroy, HandlerOops, Oops, Hardware, Running, Control, vars
    <3> QED
      BY <3>1, <3>2
  <2>2. CASE ~Exiting
    <3>1. Rmmod
      BY <1>3, <2>2, EntersAndLeaves
    <3> QED
      BY <1>3, <3>1 DEF Rmmod, InterruptInProgress, engine, handler
  <2> QED
    BY <2>1, <2>2
<1> QED
  BY <1>1, <1>2, <1>3 DEF Silent

-----------------------------------------------------------------------------
(***************************************************************************)
(* An oops is one of the two races: in an exit only an interrupt that was  *)
(* in progress can run the handler, and a program can only be there before *)
(* the registers are when it has won the race with init.                   *)
(***************************************************************************)
LEMMA OopsStep ==
    ASSUME Has, Users, Silent, OopsNeedsRace, [ProgNext]_progVars
    PROVE  OopsNeedsRace'
<1> USE DEF OopsNeedsRace
<1>1. CASE ProgNext /\ ProgOops
  <2>1. ~oops /\ owner # NULL /\ "accel" \notin have /\ early' = early
    BY <1>1 DEF ProgNext, ProgOops, Users, Mapped, Oops
  <2>2. place # "loaded"
    BY <2>1 DEF Has, Got
  <2> QED
    BY <2>1, <2>2 DEF Users
<1>2. CASE ProgNext /\ HandlerOops
  <2>1. /\ ~oops /\ "accel" \notin have /\ Interrupted /\ early' = early /\ busy' = busy
    BY <1>2 DEF ProgNext, HandlerOops, Mapped, Oops
  <2>2. "irq" \in have
    BY <2>1 DEF Silent, Interrupted
  <2>3. Exiting
    BY <2>1, <2>2, Sequence DEF Has, Got, Left, Exiting
  <2>4. InterruptInProgress
    BY <2>1 DEF Interrupted, InterruptInProgress
  <2> QED
    BY <2>1, <2>3, <2>4 DEF Silent
<1>3. CASE ProgNext /\ Fail
  <2>1. ~oops /\ Loading /\ oops' = (owner # NULL) /\ early' = early
    BY <1>3 DEF ProgNext, Fail
  <2>2. place # "loaded"
    BY <2>1, Sequence DEF Loading
  <2> QED
    BY <2>1, <2>2 DEF Users
<1>4. CASE ProgNext /\ ~ProgOops /\ ~HandlerOops /\ ~Fail
  <2>1. oops' = oops
    BY <1>4 DEF ProgNext, ProgStep, ProgOpen, ProgClock, ProgReset, ProgReady, ProgSet, ProgStart,
       ProgSelect, ProgSelected, ProgRead, ProgClose, ProgKilled, OpenDevice, Calls, InKernel,
       Disturbed, KernelStep, LifecycleStep, HandlerStep, Hardware, Insmod, Acquire, Rmmod, Exit,
       ExitReset, ExitLock, ExitEmpty, ExitUnmap, ExitFreeIrq, ExitDestroy
  <2>2. CASE oops
    BY <1>4, <2>2 DEF ProgNext
  <2>3. CASE ~oops
    BY <2>1, <2>3
  <2> QED
    BY <2>2, <2>3
<1>5. CASE UNCHANGED progVars
  BY <1>5 DEF progVars, lvars
<1> QED
  BY <1>1, <1>2, <1>3, <1>4, <1>5

-----------------------------------------------------------------------------
(***************************************************************************)
(* Messages.  While the module is not being unloaded, what is proved of    *)
(* the driver holds.  During exit the mutex may be that of exit, and the   *)
(* current message is freed: the others are in the list and in the hands   *)
(* of the handler, until the list is emptied.                              *)
(***************************************************************************)
Normal == ~Exiting => TypeOK /\ Places /\ Ownership

\* The types of the driver but for the mutex.
OpenTypes ==
    /\ Device!TypeOK /\ ThreadTypes /\ FlagTypes /\ HistoryTypes
    /\ msg \in Addr \cup {NULL}
    /\ queue \in Seq(Addr)
    /\ heap \in [Addr -> Message \cup {Free}]
    /\ isr \in IsrPlaces /\ isrMsg \in Addr \cup {NULL}

\* The handler and its message.
InPlace ==
    /\ isrMsg # NULL <=> isr \in {"candidate", "ack", "lock", "add"}
    /\ msg_mutex = "isr" <=> isr = "add"

Owned ==
    /\ Allocated = Queued \cup InHand
    /\ \A i, j \in DOMAIN queue : queue[i] = queue[j] => i = j
    /\ InHand \cap Queued = {}

Emptied == place \in {"unmap", "free irq", "destroy"}

\* How far exit is, and which mutex it has.
Progress ==
    /\ pc = "user"
    /\ IF place \in {"empty", "unmap", "free irq"} THEN msg_mutex = "exit"
                                                  ELSE msg_mutex \in {"free", "isr"}
    /\ Emptied => queue = <<>>
    /\ place = "destroy" => isr = "idle" /\ msg_mutex = "free"

Leaving == Exiting => OpenTypes /\ InPlace /\ Owned /\ Progress

\* Without a handler there are no messages.
NoMessages == place \in Resources \cup {"unloaded"} => Allocated = {}

\* The types in terms of those parts.
LEMMA TypesAre ==
    TypeOK <=> OpenTypes /\ msg_mutex \in {"free", "thread", "isr"}
BY DEF TypeOK, OpenTypes, ThreadTypes, FlagTypes, HistoryTypes

\* rmmod frees the current message and leaves the others to exit.
LEMMA RmmodStep ==
    ASSUME Users, Normal, Rmmod, ~oops
    PROVE  Leaving'
<1>1. /\ place = "loaded" /\ place' = "reset" /\ owner = NULL /\ pc = "user"
      /\ heap' = [a \in Addr |-> IF a = msg THEN Free ELSE heap[a]]
      /\ UNCHANGED <<engine, owner, call, waitq, msg, queue, msg_mutex, handler, history>>
  BY DEF Rmmod, ExitGoes, Users
<1>2. TypeOK /\ Places /\ Ownership
  BY <1>1 DEF Normal, Exiting, ExitPlaces
<1>3. OpenTypes'
  <2>1. OpenTypes
    BY <1>2, TypesAre
  <2>2. Device!TypeOK' /\ ThreadTypes' /\ FlagTypes' /\ HistoryTypes'
    BY <1>1, <2>1 DEF OpenTypes, Device!TypeOK, ThreadTypes, FlagTypes, HistoryTypes, engine, call,
       waitq, history
  <2>3. heap' \in [Addr -> Message \cup {Free}]
    BY <1>1, <2>1 DEF OpenTypes
  <2> QED
    BY <1>1, <2>1, <2>2, <2>3 DEF OpenTypes, handler
<1>4. InPlace' /\ Progress'
  BY <1>1, <1>2 DEF InPlace, Progress, Places, TypeOK, Emptied, call, handler
<1>5. Owned'
  <2>1. UNCHANGED <<queue, isrMsg, msg>>
    BY <1>1 DEF handler
  <2>2. Queued' = Queued /\ InHand' = InHand
    BY <2>1 DEF Queued, InHand
  <2>3. Current = IF msg = NULL THEN {} ELSE {msg}
    BY <1>1 DEF Current, Dangling
  <2>4. Allocated' = Allocated \ {msg}
    BY <1>1 DEF Allocated
  <2>5. Allocated' = Queued \cup InHand
    <3>1. CASE msg = NULL
      <4>1. msg \notin Allocated
        BY <3>1, NullAssumption DEF Allocated
      <4> QED
        BY <1>2, <2>3, <2>4, <3>1, <4>1 DEF Ownership
    <3>2. CASE msg # NULL
      BY <1>2, <2>3, <2>4, <3>2 DEF Ownership
    <3> QED
      BY <3>1, <3>2
  <2> QED
    BY <1>2, <2>1, <2>2, <2>5 DEF Ownership, Owned
<1> QED
  BY <1>3, <1>4, <1>5 DEF Leaving

\* A message at hand during exit.
LEMMA AtHand ==
    ASSUME OpenTypes, InPlace, Owned,
           isr = "candidate" \/ isr = "ack" \/ isr = "lock" \/ isr = "add"
    PROVE  /\ isrMsg \in Addr /\ InHand = {isrMsg} /\ isrMsg \in Allocated
           /\ heap[isrMsg] \in Message
<1>1. isrMsg \in Addr /\ InHand = {isrMsg}
  BY DEF OpenTypes, InPlace, InHand
<1>2. isrMsg \in Allocated
  BY <1>1 DEF Owned
<1> QED
  BY <1>1, <1>2 DEF Allocated, OpenTypes

\* The handler goes on during exit, as far as the mutex lets it.
LEMMA HandlerLeaving ==
    ASSUME Exiting, Leaving, ~oops, Has, Silent, HandlerStep
    PROVE  Leaving'
<1>0. /\ OpenTypes /\ InPlace /\ Owned /\ Progress /\ place' = place
      /\ Interrupted /\ IsrStep
  BY DEF Leaving, HandlerStep, lifecycle
<1>1. place # "destroy"
  <2>1. CASE place = "destroy"
    BY <1>0, <2>1 DEF Progress, Interrupted, Has, Got, Left
  <2> QED
    BY <2>1
<1>2. Device!TypeOK' /\ ThreadTypes' /\ FlagTypes'
  <2>1. [Next]_vars
    BY <1>0 DEF Next
  <2> QED
    BY <1>0, <2>1, EngineTypeStep, ThreadTypeStep, FlagTypeStep DEF OpenTypes
<1>3. /\ UNCHANGED <<pc, msg, taken, got, starts, clean>>
      /\ queue \in Seq(Addr) /\ heap \in [Addr -> Message \cup {Free}]
  <2>1. UNCHANGED <<call, msg, taken, got, starts, clean>>
    BY <1>0 DEF IsrStep, IsrStatus, IsrCandidate, IsrAck, IsrLock, IsrAdd, IsrWake, list, history
  <2> QED
    BY <1>0, <2>1 DEF call, OpenTypes
<1>4. CASE IsrStatus
  <2>1. /\ isr = "idle" /\ isr' = "candidate" /\ raised' = raised + 1
        /\ reported' = (reported \/ Ended)
        /\ UNCHANGED <<queue, msg_mutex>>
    BY <1>4 DEF IsrStatus
  <2>2. PICK a \in Addr :
          /\ heap[a] = Free
          /\ heap' = [heap EXCEPT ![a] =
               [status |-> status, nonce_candidate |-> 0, number |-> raised + 1]]
          /\ isrMsg' = a
    BY <1>4 DEF IsrStatus
  <2>3. [status |-> status, nonce_candidate |-> 0, number |-> raised + 1] \in Message
    BY <1>0, NAssumption DEF OpenTypes, HistoryTypes, Message, Device!TypeOK, Device!Nonces
  <2>4. /\ heap' \in [Addr -> Message \cup {Free}] /\ heap'[a] # Free
        /\ \A b \in Addr : b # a => heap'[b] = heap[b]
    BY <1>3, <2>2, <2>3, FreeAssumption
  <2>5. HistoryTypes'
    <3>1. reported' \in BOOLEAN
      BY <2>1
    <3>2. clean' \in BOOLEAN
      BY <1>0, <1>3 DEF OpenTypes, HistoryTypes
    <3> QED
      BY <1>0, <1>3, <2>1, <3>1, <3>2 DEF OpenTypes, HistoryTypes
  <2>6. isrMsg = NULL /\ a # NULL
    BY <1>0, <2>1, NullAssumption DEF InPlace
  <2>7. Allocated' = Allocated \cup {a} /\ a \notin Allocated
    BY <2>2, <2>4 DEF Allocated
  <2>8. InHand = {} /\ InHand' = {a} /\ Queued' = Queued
    BY <2>1, <2>2, <2>6 DEF InHand, Queued
  <2>9. Owned'
    BY <1>0, <2>1, <2>7, <2>8 DEF Owned
  <2>10. OpenTypes' /\ InPlace' /\ Progress'
    BY <1>0, <1>1, <1>2, <1>3, <2>1, <2>2, <2>4, <2>5, <2>6
    DEF OpenTypes, InPlace, Progress, Emptied, IsrPlaces
  <2> QED
    BY <2>9, <2>10 DEF Leaving
<1>5. CASE IsrCandidate
  <2>1. /\ isr = "candidate" /\ isr' = "ack"
        /\ heap' = [heap EXCEPT ![isrMsg].nonce_candidate = nonce_candidate]
        /\ UNCHANGED <<queue, msg_mutex, isrMsg, raised, reported, clean>>
    BY <1>5 DEF IsrCandidate, history
  <2>2. isrMsg \in Addr /\ isrMsg \in Allocated /\ heap[isrMsg] \in Message
    BY <1>0, <2>1, AtHand
  <2>3. nonce_candidate \in Device!Nonces
    BY <1>0 DEF OpenTypes, Device!TypeOK
  <2>4. [heap[isrMsg] EXCEPT !.nonce_candidate = nonce_candidate] \in Message
    BY <2>2, <2>3 DEF Message
  <2>5. /\ heap' \in [Addr -> Message \cup {Free}]
        /\ heap'[isrMsg] \in Message
        /\ \A b \in Addr : b # isrMsg => heap'[b] = heap[b]
    BY <1>3, <2>1, <2>2, <2>4
  <2>6. Allocated' = Allocated
    BY <2>2, <2>5, FreeAssumption DEF Allocated
  <2>7. Owned'
    BY <1>0, <2>1, <2>6 DEF Owned, Queued, InHand
  <2>8. HistoryTypes'
    BY <1>0, <1>3, <2>1 DEF OpenTypes, HistoryTypes
  <2>9. OpenTypes' /\ InPlace' /\ Progress'
    BY <1>0, <1>1, <1>2, <1>3, <2>1, <2>5, <2>8
    DEF OpenTypes, InPlace, Progress, Emptied, IsrPlaces
  <2> QED
    BY <2>7, <2>9 DEF Leaving
<1>6. CASE IsrAdd
  <2>1. place \notin {"empty", "unmap", "free irq", "destroy"}
    BY <1>0, <1>1, <1>6 DEF IsrAdd, InPlace, Progress
  <2>2. /\ queue' = Append(queue, isrMsg) /\ isrMsg' = NULL /\ msg_mutex' = "free"
        /\ isr = "add" /\ isr' = "wake"
        /\ UNCHANGED <<heap, raised, reported, clean>>
    BY <1>6 DEF IsrAdd, history
  <2>3. isrMsg \in Addr /\ InHand = {isrMsg}
    BY <1>0, <2>2, AtHand
  <2>4. /\ Append(queue, isrMsg) \in Seq(Addr)
        /\ Len(queue) \in Nat
        /\ DOMAIN queue = 1 .. Len(queue)
        /\ DOMAIN Append(queue, isrMsg) = 1 .. (Len(queue) + 1)
        /\ \A i \in DOMAIN queue : Append(queue, isrMsg)[i] = queue[i]
        /\ Append(queue, isrMsg)[Len(queue) + 1] = isrMsg
    BY <1>3, <2>3, AppendFacts
  <2>5. Queued' = Queued \cup {isrMsg} /\ isrMsg \notin Queued
    <3>1. isrMsg \notin Queued
      BY <1>0, <2>3 DEF Owned
    <3> QED
      BY <2>2, <2>4, <3>1 DEF Queued
  <2>6. InHand' = {} /\ Allocated' = Allocated
    BY <2>2 DEF InHand, Allocated
  <2>7. \A i, j \in DOMAIN queue' : queue'[i] = queue'[j] => i = j
    <3>1. \A i \in DOMAIN queue : queue[i] # isrMsg
      BY <2>5 DEF Queued
    <3>2. \A i, j \in DOMAIN queue : queue[i] = queue[j] => i = j
      BY <1>0 DEF Owned
    <3> QED
      BY <2>2, <2>4, <3>1, <3>2
  <2>8. Owned'
    BY <1>0, <2>3, <2>5, <2>6, <2>7 DEF Owned
  <2>9. HistoryTypes'
    BY <1>0, <1>3, <2>2 DEF OpenTypes, HistoryTypes
  <2>10. OpenTypes' /\ InPlace' /\ Progress'
    BY <1>0, <1>2, <1>3, <2>1, <2>2, <2>4, <2>9
    DEF OpenTypes, InPlace, Progress, Emptied, IsrPlaces
  <2> QED
    BY <2>8, <2>10 DEF Leaving
<1>7. CASE IsrAck \/ IsrLock \/ IsrWake
  <2>1. /\ UNCHANGED <<queue, heap, isrMsg, raised, reported, clean>>
        /\ isr' \in IsrPlaces
    BY <1>7 DEF IsrAck, IsrLock, IsrWake, list, history, IsrPlaces
  <2>2. Owned'
    BY <1>0, <2>1 DEF Owned, Allocated, Queued, InHand
  <2>3. HistoryTypes'
    BY <1>0, <1>3, <2>1 DEF OpenTypes, HistoryTypes
  <2>4. OpenTypes'
    BY <1>0, <1>2, <1>3, <2>1, <2>3 DEF OpenTypes
  <2>5. InPlace' /\ Progress'
    BY <1>0, <1>1, <1>3, <1>7, <2>1 DEF InPlace, Progress, Emptied, IsrAck, IsrLock, IsrWake, list
  <2> QED
    BY <2>2, <2>4, <2>5 DEF Leaving
<1> QED
  BY <1>0, <1>4, <1>5, <1>6, <1>7 DEF IsrStep

\* A step that leaves the driver alone but for the mutex, or but for the accelerator.
LEMMA PartsKept ==
    ASSUME OpenTypes, UNCHANGED <<engine, owner, call, waitq, msg, queue, heap, handler, history>>
    PROVE  OpenTypes'
<1>1. /\ UNCHANGED <<msg, queue, heap, isr, isrMsg>>
      /\ Device!TypeOK'
  BY DEF OpenTypes, Device!TypeOK, engine, handler
<1>2. ThreadTypes'
  BY DEF OpenTypes, ThreadTypes, call
<1>3. FlagTypes'
  BY DEF OpenTypes, FlagTypes, call, waitq
<1>4. HistoryTypes'
  BY DEF OpenTypes, HistoryTypes, history
<1> QED
  BY <1>1, <1>2, <1>3, <1>4 DEF OpenTypes

LEMMA ListKept ==
    ASSUME Owned, InPlace, UNCHANGED <<queue, heap, handler>>
    PROVE  /\ Owned' /\ UNCHANGED <<isr, isrMsg>>
           /\ msg_mutex' = msg_mutex => InPlace'
<1>1. UNCHANGED <<queue, heap, isr, isrMsg>>
  BY DEF handler
<1>2. Allocated' = Allocated /\ Queued' = Queued /\ InHand' = InHand
  BY <1>1 DEF Allocated, Queued, InHand
<1> QED
  BY <1>1, <1>2 DEF Owned, InPlace

\* The statements of exit.
LEMMA ExitStep ==
    ASSUME Exiting, Leaving, ~oops, owner = NULL, Exit
    PROVE  Leaving' /\ Normal'
<1>0. OpenTypes /\ InPlace /\ Owned /\ Progress
  BY DEF Leaving
<1>1. CASE ExitReset
  <2>1. /\ place = "reset" /\ place' = "lock" /\ Device!Edge({"RST"}, FALSE)
        /\ UNCHANGED <<owner, call, waitq, list, handler, starts, raised, taken, got, clean>>
        /\ reported' = (reported /\ status' = status)
    BY <1>1 DEF ExitReset, ExitGoes, Control
  <2>2. Device!TypeOK'
    BY <1>0, <2>1, EdgeType DEF OpenTypes
  <2>3. reported' \in BOOLEAN
    BY <2>1
  <2>4. OpenTypes'
    BY <1>0, <2>1, <2>2, <2>3 DEF OpenTypes, ThreadTypes, FlagTypes, HistoryTypes, call, waitq, list,
       handler
  <2>5. Owned' /\ InPlace' /\ Progress'
    BY <1>0, <2>1 DEF Owned, Allocated, Queued, InHand, InPlace, Progress, Emptied, list, handler,
       call
  <2> QED
    BY <2>1, <2>4, <2>5 DEF Leaving, Normal, Exiting, ExitPlaces
<1>2. CASE ExitLock
  <2>1. /\ place = "lock" /\ place' = "empty" /\ msg_mutex = "free" /\ msg_mutex' = "exit"
        /\ UNCHANGED <<engine, owner, call, waitq, msg, queue, heap, handler, history>>
    BY <1>2 DEF ExitLock, ExitGoes
  <2>2. OpenTypes' /\ Owned'
    BY <1>0, <2>1, PartsKept, ListKept
  <2>3. InPlace' /\ Progress'
    BY <1>0, <2>1 DEF InPlace, Progress, Emptied, handler, call
  <2> QED
    BY <2>1, <2>2, <2>3 DEF Leaving, Normal, Exiting, ExitPlaces
<1>3. CASE ExitEmpty
  <2>1. /\ place = "empty" /\ place' = "unmap" /\ queue' = <<>>
        /\ heap' = [a \in Addr |-> IF \E i \in DOMAIN queue : queue[i] = a THEN Free ELSE heap[a]]
        /\ UNCHANGED <<engine, owner, call, waitq, msg, msg_mutex, handler, history>>
    BY <1>3 DEF ExitEmpty, ExitGoes
  <2>2. heap' \in [Addr -> Message \cup {Free}] /\ queue' \in Seq(Addr)
    BY <1>0, <2>1 DEF OpenTypes
  <2>3. OpenTypes'
    BY <1>0, <2>1, <2>2 DEF OpenTypes, Device!TypeOK, ThreadTypes, FlagTypes, HistoryTypes, engine,
       call, waitq, handler, history
  <2>4. Allocated' = Allocated \ Queued
    BY <2>1 DEF Allocated, Queued
  <2>5. Queued' = {} /\ InHand' = InHand /\ DOMAIN queue' = {}
    BY <2>1 DEF Queued, InHand, handler
  <2>6. Owned'
    BY <1>0, <2>4, <2>5 DEF Owned
  <2>7. InPlace' /\ Progress'
    BY <1>0, <2>1 DEF InPlace, Progress, Emptied, handler, call
  <2> QED
    BY <2>1, <2>3, <2>6, <2>7 DEF Leaving, Normal, Exiting, ExitPlaces
<1>4. CASE ExitUnmap
  <2>1. /\ place = "unmap" /\ place' = "free irq"
        /\ UNCHANGED <<engine, owner, call, waitq, msg, queue, heap, handler, history, msg_mutex>>
    BY <1>4 DEF ExitUnmap, ExitGoes, vars, list
  <2>2. OpenTypes'
    BY <1>0, <2>1, PartsKept
  <2>3. Owned' /\ InPlace'
    BY <1>0, <2>1, ListKept
  <2>4. Progress'
    BY <1>0, <2>1 DEF Progress, Emptied, call
  <2> QED
    BY <2>1, <2>2, <2>3, <2>4 DEF Leaving, Normal, Exiting, ExitPlaces
<1>5. CASE ExitFreeIrq
  <2>1. /\ place = "free irq" /\ place' = "destroy" /\ isr = "idle" /\ msg_mutex' = "free"
        /\ UNCHANGED <<engine, owner, call, waitq, msg, queue, heap, handler, history>>
    BY <1>5 DEF ExitFreeIrq, ExitGoes
  <2>2. OpenTypes'
    BY <1>0, <2>1, PartsKept
  <2>3. Owned' /\ UNCHANGED <<isr, isrMsg, queue>>
    BY <1>0, <2>1, ListKept
  <2>4. InPlace'
    BY <1>0, <2>1, <2>3 DEF InPlace
  <2>5. Progress'
    BY <1>0, <2>1, <2>3 DEF Progress, Emptied, call
  <2> QED
    BY <2>1, <2>2, <2>3, <2>4, <2>5 DEF Leaving, Normal, Exiting, ExitPlaces
<1>6. CASE ExitDestroy
  <2>1. /\ place = "destroy" /\ place' = "unloaded" /\ msg' = NULL
        /\ UNCHANGED <<engine, owner, call, waitq, queue, msg_mutex, heap, handler, history>>
    BY <1>6 DEF ExitDestroy, ExitGoes
  <2>2. isr = "idle" /\ msg_mutex = "free" /\ queue = <<>> /\ pc = "user" /\ isrMsg = NULL
    BY <1>0, <2>1 DEF Progress, Emptied, InPlace
  <2>3. OpenTypes'
    BY <1>0, <2>1 DEF OpenTypes, Device!TypeOK, ThreadTypes, FlagTypes, HistoryTypes, engine, call,
       waitq, handler, history
  <2>4. TypeOK'
    <3>1. msg_mutex' = "free"
      BY <2>1, <2>2
    <3>2. (OpenTypes /\ msg_mutex \in {"free", "thread", "isr"} => TypeOK)'
      BY TypesAre, PTL
    <3> QED
      BY <2>3, <3>1, <3>2
  <2>5. Places'
    BY <2>1, <2>2 DEF Places, call, handler
  <2>6. Queued = {} /\ InHand = {} /\ Allocated = {} /\ DOMAIN queue = {}
    BY <1>0, <2>2 DEF Queued, InHand, Owned
  <2>7. /\ Queued' = {} /\ InHand' = {} /\ Allocated' = {} /\ DOMAIN queue' = {}
        /\ Current' = {}
    BY <2>1, <2>6 DEF Queued, InHand, Allocated, Current, handler
  <2>8. Ownership'
    BY <2>7 DEF Ownership
  <2> QED
    BY <2>1, <2>4, <2>5, <2>8 DEF Leaving, Normal, Exiting, ExitPlaces
<1> QED
  BY <1>1, <1>2, <1>3, <1>4, <1>5, <1>6 DEF Exit

\* Every step keeps what is known of the messages, in an exit or not.
LEMMA MessagesStep ==
    ASSUME Has, Users, Silent, Normal, Leaving, [ProgNext]_progVars
    PROVE  Normal' /\ Leaving'
<1>1. CASE UNCHANGED progVars
  <2>1. UNCHANGED vars /\ place' = place
    BY <1>1 DEF progVars, lvars, lifecycle
  <2>2. CASE Exiting
    <3>1. OpenTypes /\ InPlace /\ Owned /\ Progress
      BY <2>2 DEF Leaving
    <3>2. UNCHANGED <<engine, owner, call, waitq, msg, queue, heap, handler, history, msg_mutex>>
      BY <2>1 DEF vars, list
    <3>3. OpenTypes' /\ Owned' /\ InPlace' /\ UNCHANGED <<isr, isrMsg>>
      BY <3>1, <3>2, PartsKept, ListKept
    <3>4. Progress'
      BY <2>1, <3>1, <3>2, <3>3 DEF Progress, Emptied, call
    <3> QED
      BY <2>1, <2>2, <3>3, <3>4 DEF Leaving, Normal, Exiting
  <2>3. CASE ~Exiting
    <3>1. TypeOK' /\ Places' /\ Ownership'
      BY <2>1, <2>3, TypeStep, PlacesStep, OwnershipStep DEF Normal
    <3> QED
      BY <2>1, <2>3, <3>1 DEF Leaving, Normal, Exiting
  <2> QED
    BY <2>2, <2>3
<1>2. CASE ProgNext /\ ~Exiting
  <2>1. ~oops
    BY <1>2 DEF ProgNext
  <2>2. CASE Rmmod
    BY <2>1, <2>2, RmmodStep DEF Rmmod, ExitGoes, Normal, Exiting, ExitPlaces
  <2>3. CASE ~Rmmod
    <3>1. ~Exiting'
      BY <1>2, <2>3, EntersAndLeaves
    <3>2. ~Exit
      BY <1>2 DEF Exit, ExitReset, ExitLock, ExitEmpty, ExitUnmap, ExitFreeIrq, ExitDestroy,
         ExitGoes, Exiting, ExitPlaces
    <3>3. [Next]_vars
      BY <1>2, <2>3, <3>2, DriverOrExit
    <3> QED
      BY <1>2, <3>1, <3>3, TypeStep, PlacesStep, OwnershipStep DEF Normal, Leaving
  <2> QED
    BY <2>2, <2>3
<1>3. CASE ProgNext /\ Exiting
  <2>1. /\ owner = NULL /\ pc = "user" /\ ~oops
        /\ Exit \/ HandlerStep \/ HandlerOops \/ Hardware
    BY <1>3, ExitingSteps
  <2>2. CASE Exit
    BY <1>3, <2>1, <2>2, ExitStep
  <2>3. CASE HandlerStep
    <3>1. place' = place
      BY <2>3 DEF HandlerStep, lifecycle
    <3> QED
      BY <1>3, <2>1, <2>3, <3>1, HandlerLeaving DEF Normal, Exiting
  <2>4. CASE HandlerOops
    <3>1. UNCHANGED vars /\ place' = place
      BY <2>4 DEF HandlerOops, Oops, lifecycle
    <3>2. OpenTypes /\ InPlace /\ Owned /\ Progress
      BY <1>3 DEF Leaving
    <3>3. UNCHANGED <<engine, owner, call, waitq, msg, queue, heap, handler, history, msg_mutex>>
      BY <3>1 DEF vars, list
    <3>4. OpenTypes' /\ Owned' /\ InPlace' /\ UNCHANGED <<isr, isrMsg>>
      BY <3>2, <3>3, PartsKept, ListKept
    <3>5. Progress'
      BY <3>1, <3>2, <3>3, <3>4 DEF Progress, Emptied, call
    <3> QED
      BY <1>3, <3>1, <3>4, <3>5 DEF Leaving, Normal, Exiting
  <2>5. CASE Hardware
    <3>1. /\ Device!Edge({}, FALSE) /\ place' = place
          /\ UNCHANGED <<owner, call, waitq, list, handler, history>>
      BY <2>5 DEF Hardware, Running, lifecycle
    <3>2. OpenTypes /\ InPlace /\ Owned /\ Progress
      BY <1>3 DEF Leaving
    <3>3. Device!TypeOK'
      BY <3>1, <3>2, EdgeType DEF OpenTypes
    <3>4. OpenTypes'
      BY <3>1, <3>2, <3>3 DEF OpenTypes, ThreadTypes, FlagTypes, HistoryTypes, call, waitq, list,
         handler, history
    <3>5. UNCHANGED <<queue, heap, msg_mutex>>
      BY <3>1 DEF list
    <3>6. Owned' /\ InPlace' /\ UNCHANGED <<isr, isrMsg>>
      BY <3>1, <3>2, <3>5, ListKept
    <3>7. Progress'
      BY <3>1, <3>2, <3>5, <3>6 DEF Progress, Emptied, call
    <3> QED
      BY <1>3, <3>1, <3>4, <3>6, <3>7 DEF Leaving, Normal, Exiting
  <2> QED
    BY <2>1, <2>2, <2>3, <2>4, <2>5
<1> QED
  BY <1>1, <1>2, <1>3

\* Apart from the handler and exit, messages are only freed.
LEMMA OnlyFreed ==
    ASSUME ProgNext, ~HandlerStep, ~Rmmod, ~Exit
    PROVE  heap' = heap \/ heap' = [heap EXCEPT ![msg] = Free]
<1>1. CASE UNCHANGED vars
  BY <1>1 DEF vars, list
<1>2. CASE ThreadStep \/ Signal \/ SelectTimeout
  BY <1>2 DEF ThreadStep, Lock, LockInterrupted, Pop, Avail, Availed, Wait, Waiting, WakeUp, Copy,
     FreeCurrent, Poll, Polled, SelectWakeUp, Signal, SelectTimeout, list
<1>3. CASE \/ (\E p \in Procs : Open(p)) \/ Release \/ IoctlReset \/ IoctlStart \/ Running
           \/ (\E j \in Jobs : IoctlSet(j)) \/ Select \/ Read(MSGSIZE, FALSE)
  BY <1>3 DEF Open, Release, IoctlReset, IoctlStart, Running, IoctlSet, Select, Read, list
<1>4. CASE ProgStep \/ ProgKilled
  BY <1>1, <1>3, <1>4
  DEF ProgStep, ProgOpen, ProgClock, ProgReset, ProgReady, ProgSet, ProgStart, ProgSelect,
      ProgSelected, ProgRead, ProgClose, ProgKilled, OpenDevice
<1>5. CASE ProgOops \/ HandlerOops \/ Insmod \/ Acquire \/ Fail
  BY <1>1, <1>5 DEF ProgOops, HandlerOops, Oops, Insmod, Acquire, Fail
<1>6. CASE InKernel \/ Disturbed \/ Hardware
  BY <1>2, <1>3, <1>6 DEF InKernel, Disturbed, Hardware
<1> QED
  BY <1>4, <1>5, <1>6 DEF ProgNext, KernelStep, LifecycleStep

\* Without a handler no message is allocated, however the module got there.
LEMMA NoMessagesStep ==
    ASSUME Has, Users, Silent, Normal, Leaving, NoMessages, [ProgNext]_progVars
    PROVE  NoMessages'
<1> SUFFICES ASSUME place' \in Resources \cup {"unloaded"}
             PROVE  Allocated' = {}
  BY DEF NoMessages
<1>1. CASE UNCHANGED progVars
  <2>1. UNCHANGED <<place, heap>>
    BY <1>1 DEF progVars, lvars, vars, list, lifecycle
  <2> QED
    BY <2>1 DEF NoMessages, Allocated
<1>2. CASE ProgNext /\ Exit
  <2>1. place = "destroy" /\ heap' = heap
    BY <1>2, Sequence DEF Exit, ExitReset, ExitLock, ExitEmpty, ExitUnmap, ExitFreeIrq, ExitDestroy,
       ExitGoes
  <2>2. queue = <<>> /\ isr = "idle" /\ InPlace /\ Owned
    BY <2>1 DEF Leaving, Exiting, ExitPlaces, Progress, Emptied
  <2>3. Queued = {} /\ InHand = {}
    BY <2>2 DEF Queued, InHand, InPlace
  <2> QED
    BY <2>1, <2>2, <2>3 DEF Owned, Allocated
<1>3. CASE ProgNext /\ ~Exit
  <2>1. ~Rmmod /\ ~oops
    BY <1>3, Sequence DEF Rmmod, ExitGoes, ProgNext
  <2>2. place \in Resources \cup {"unloaded"}
    BY <1>3, <2>1, LifecycleKept DEF ProgNext, KernelStep, LifecycleStep, lifecycle, Insmod, Acquire,
       Fail, Loading
  <2>3. "irq" \notin have
    BY <2>2, Sequence DEF Has, Got, Left
  <2>4. ~HandlerStep
    BY <2>1, <2>3 DEF Silent, HandlerStep, Interrupted
  <2>5. heap' = heap \/ heap' = [heap EXCEPT ![msg] = Free]
    BY <1>3, <2>1, <2>4, OnlyFreed
  <2>6. heap \in [Addr -> Message \cup {Free}] /\ Allocated = {}
    BY <2>2, Sequence DEF Normal, NoMessages, Exiting, ExitPlaces, TypeOK
  <2> QED
    BY <2>5, <2>6 DEF Allocated
<1> QED
  BY <1>1, <1>2, <1>3

-----------------------------------------------------------------------------
(***************************************************************************)
(* The inductive invariant.                                                *)
(***************************************************************************)
ProgInvariant ==
    /\ Has /\ Users /\ ClosedMeansStopped /\ Silent /\ OopsNeedsRace
    /\ Normal /\ Leaving /\ NoMessages

LEMMA InitProgInvariant == ProgInit => ProgInvariant
<1> SUFFICES ASSUME ProgInit PROVE ProgInvariant
  OBVIOUS
<1>1. /\ place = "unloaded" /\ have = {} /\ loads = 0 /\ prog = "idle"
      /\ oops = FALSE /\ irqFailed = FALSE /\ early = FALSE /\ busy = FALSE
      /\ Init
  BY DEF ProgInit, LifecycleInit
<1>2. Invariant
  BY <1>1, InitInvariant
<1>3. /\ ~oops /\ ~irqFailed /\ ~early /\ ~busy
      /\ oops \in BOOLEAN /\ irqFailed \in BOOLEAN /\ early \in BOOLEAN /\ busy \in BOOLEAN
  BY <1>1, Zenon
<1>4. /\ owner = NULL /\ pc = "user" /\ isr = "idle"
      /\ \A a \in Addr : heap[a] = Free
  BY <1>1 DEF Init
<1>5. irq \in BOOLEAN /\ external_irq \in BOOLEAN
  BY <1>2 DEF Invariant, TypeOK, Device!TypeOK
<1>6. ~Exiting
  BY <1>1 DEF Exiting, ExitPlaces
<1>7. Has /\ Users /\ Silent /\ OopsNeedsRace
  BY <1>1, <1>3, <1>4, <1>5, <1>6 DEF Has, Got, Left, Users, Silent, OopsNeedsRace
<1>8. ClosedMeansStopped /\ Normal /\ Leaving /\ NoMessages
  BY <1>2, <1>4, <1>6 DEF Invariant, Normal, Leaving, NoMessages, Allocated
<1> QED
  BY <1>7, <1>8 DEF ProgInvariant

LEMMA StepProgInvariant == ProgInvariant /\ [ProgNext]_progVars => ProgInvariant'
BY HasStep, UsersStep, StoppedStep, SilentStep, OopsStep, MessagesStep, NoMessagesStep
DEF ProgInvariant

\* The invariant of every load, search and unload.
THEOREM ProgInductive == ProgSpec => []ProgInvariant
BY InitProgInvariant, StepProgInvariant, PTL DEF ProgSpec

(***************************************************************************)
(* Every variable of the module and of the driver keeps its type; the      *)
(* mutex of the message list is that of exit only where                    *)
(* sha256_accel_exit holds it.                                             *)
(***************************************************************************)
THEOREM LifecycleTypeCorrect == ProgSpec => []LifecycleTypeOK
<1>1. ProgInvariant => LifecycleTypeOK
  <2> SUFFICES ASSUME ProgInvariant PROVE LifecycleTypeOK
    OBVIOUS
  <2>1. Has /\ Users /\ Normal /\ Leaving
    BY DEF ProgInvariant
  <2>2. have \subseteq Resources \cup {"stray"}
    BY <2>1, Sequence DEF Has, Got, Left, ExitPlaces
  <2>3. CASE Exiting
    <3>1. OpenTypes /\ Progress
      BY <2>1, <2>3 DEF Leaving
    <3> QED
      BY <2>1, <2>2, <3>1, TypesAre DEF LifecycleTypeOK, Progress, Has, Users
  <2>4. CASE ~Exiting
    BY <2>1, <2>2, <2>4 DEF LifecycleTypeOK, Normal, Exiting, ExitPlaces, Has, Users
  <2> QED
    BY <2>3, <2>4
<1> QED
  BY <1>1, ProgInductive, PTL

(***************************************************************************)
(* After rmmod, and after an init that failed, the kernel holds nothing    *)
(* for the module but the device node init has lost and, once request_irq  *)
(* has failed, the registers of the accelerator; and no message is left.   *)
(***************************************************************************)
THEOREM NothingIsLeft == ProgSpec => []UnloadLeavesNothing
<1>1. ProgInvariant => UnloadLeavesNothing
  BY DEF ProgInvariant, UnloadLeavesNothing, Has, Got, Left, NoMessages
<1> QED
  BY <1>1, ProgInductive, PTL

(***************************************************************************)
(* Registers that are not mapped are touched only when a program opens the *)
(* device before sha256_accel_init is over, or when an interrupt is in     *)
(* progress as rmmod begins.                                               *)
(***************************************************************************)
THEOREM OopsIsARace == ProgSpec => []OopsNeedsRace
BY ProgInductive, PTL DEF ProgInvariant
-----------------------------------------------------------------------------
(***************************************************************************)
(* More of what the invariant says.                                        *)
(***************************************************************************)

(***************************************************************************)
(* No message is leaked, freed twice or used after it was freed across any *)
(* number of loads and unloads: whoever opens and kills, whatever init     *)
(* fails at, the messages that are allocated are those of the driver, and  *)
(* while exit goes on those of the list and of the handler.                *)
(***************************************************************************)
THEOREM OneOwnerAcrossLoads == ProgSpec => [](IF Exiting THEN Owned ELSE Ownership)
<1>1. ProgInvariant => IF Exiting THEN Owned ELSE Ownership
  BY DEF ProgInvariant, Normal, Leaving
<1> QED
  BY <1>1, ProgInductive, PTL

(***************************************************************************)
(* Exit waits for nobody: when no interrupt was in progress as rmmod       *)
(* began, the mutex is free where exit locks it, and the handler is idle   *)
(* where free_irq would wait for it, holding the mutex the handler wants.  *)
(***************************************************************************)
ExitIsFree ==
    Exiting /\ ~oops /\ ~busy =>
        /\ place = "lock" => msg_mutex = "free"
        /\ place = "free irq" => isr = "idle" /\ msg_mutex = "exit"

\* What is left to liveness of ExitEnds is only that exit is scheduled.
THEOREM ExitWaitsForNobody == ProgSpec => []ExitIsFree
<1>1. ProgInvariant => ExitIsFree
  <2> SUFFICES ASSUME ProgInvariant, Exiting, ~oops, ~busy
               PROVE  /\ place = "lock" => msg_mutex = "free"
                      /\ place = "free irq" => isr = "idle" /\ msg_mutex = "exit"
    BY DEF ExitIsFree
  <2>1. isr = "idle"
    BY DEF ProgInvariant, Silent, InterruptInProgress
  <2>2. InPlace /\ Progress
    BY DEF ProgInvariant, Leaving
  <2> QED
    BY <2>1, <2>2 DEF InPlace, Progress
<1> QED
  BY <1>1, ProgInductive, PTL
-----------------------------------------------------------------------------
(***************************************************************************)
(* The loop of the program.  Something that will end it is always on its   *)
(* way: the search, its pulse, the interrupt line, the message with the    *)
(* handler, in the list or taken from it.                                  *)
(***************************************************************************)
Coming ==
    \/ Computing \/ irq \/ external_irq
    \/ isrMsg # NULL \/ queue # <<>> \/ msg # NULL

\* Where the program is in the kernel, and what it knows of the accelerator.
InCall ==
    /\ prog \in {"clock", "reset", "wait", "set", "start", "select", "read"} => pc = "user"
    /\ prog = "selected" => \/ pc \in {"user", "poll", "polled", "selecting"}
                            \/ pc \in {"lock", "pop"} /\ back = "polled"
    /\ prog \in {"set", "start"} => status = "RDY"
    /\ InLoop => Coming

Looping == oops \/ InCall

\* A clock edge with the handler's acknowledge or without it, and no command.
LEMMA EdgeComing ==
    ASSUME Device!TypeOK, NEW a \in BOOLEAN, Device!Edge({}, a), a => isrMsg' # NULL,
           Computing \/ irq \/ external_irq
    PROVE  Computing' \/ irq' \/ external_irq' \/ isrMsg' # NULL
<1>1. /\ external_irq' = (~a /\ (external_irq \/ irq))
      /\ status' = status \/ status' = "FIN" \/ irq' = TRUE
  BY DEF Device!Edge, Device!Latch, Device!Stay, Device!Drain, Device!Exhaust, Device!Report
<1>2. irq \in BOOLEAN /\ external_irq \in BOOLEAN
  BY DEF Device!TypeOK
<1> QED
  BY <1>1, <1>2 DEF Computing

\* The handler hands on what it has.
LEMMA HandlerComing ==
    ASSUME TypeOK, Places, Coming, IsrStep
    PROVE  Coming'
<1> USE DEF Coming
<1>1. CASE IsrStatus
  <2>1. isrMsg' # NULL
    BY <1>1, NullAssumption DEF IsrStatus
  <2> QED
    BY <2>1
<1>2. CASE IsrCandidate \/ IsrLock \/ IsrWake
  BY <1>2 DEF IsrCandidate, IsrLock, IsrWake, engine, list, Computing
<1>3. CASE IsrAck
  BY <1>3 DEF IsrAck, Places
<1>4. CASE IsrAdd
  <2>1. queue' = Append(queue, isrMsg) /\ queue \in Seq(Addr)
    BY <1>4 DEF IsrAdd, TypeOK
  <2>2. queue' # <<>>
    BY <2>1
  <2> QED
    BY <2>2
<1> QED
  BY <1>1, <1>2, <1>3, <1>4 DEF IsrStep

\* The select of the program loses no message.
LEMMA SelectComing ==
    ASSUME TypeOK, Places, Coming, ThreadStep,
           \/ pc \in {"user", "poll", "polled", "selecting"}
           \/ pc \in {"lock", "pop"} /\ back = "polled"
    PROVE  /\ Coming'
           /\ \/ pc' \in {"user", "poll", "polled", "selecting"}
              \/ pc' \in {"lock", "pop"} /\ back' = "polled"
<1> USE DEF Coming, engine, handler, list, Computing
<1>1. CASE Lock
  BY <1>1 DEF Lock
<1>2. CASE LockInterrupted
  BY <1>2 DEF LockInterrupted, Places
<1>3. CASE Pop
  <2>1. queue # <<>> => Head(queue) # NULL
    BY NullAssumption DEF TypeOK
  <2> QED
    BY <1>3, <2>1 DEF Pop, Places
<1>4. CASE Poll \/ Polled \/ SelectWakeUp
  BY <1>4 DEF Poll, Polled, SelectWakeUp, Dequeue, Return, Continue
<1>5. ~(Avail \/ Availed \/ Wait \/ Waiting \/ WakeUp \/ Copy \/ FreeCurrent)
  BY DEF Avail, Availed, Wait, Waiting, WakeUp, Copy, FreeCurrent
<1> QED
  BY <1>1, <1>2, <1>3, <1>4, <1>5 DEF ThreadStep

\* Nothing takes the driver away from a program.
LEMMA LoopIsNormal ==
    ASSUME Has, Users, Normal, ~oops, prog # "idle"
    PROVE  TypeOK /\ Places
<1>1. ~Exiting
  BY Sequence DEF Users, Loading, Exiting, ExitPlaces
<1> QED
  BY <1>1 DEF Normal

\* Every step of the program keeps it in its loop with a message on its way.
LEMMA LoopStep ==
    ASSUME Has, Users, Normal, Looping, [ProgNext]_progVars
    PROVE  Looping'
<1> USE DEF Looping
<1>1. CASE UNCHANGED <<vars, prog, oops>>
  <2>1. UNCHANGED <<pc, back, status, irq, external_irq, isrMsg, queue, msg, prog, oops>>
    BY <1>1 DEF vars, engine, call, handler, list
  <2> QED
    BY <2>1 DEF InCall, InLoop, Coming, Computing
<1>2. CASE ProgNext /\ ProgOpen
  <2>1. prog' = "clock" /\ pc' = pc /\ owner = NULL
    BY <1>2 DEF ProgOpen, ProgGoes, OpenDevice, Open, call
  <2> QED
    BY <2>1 DEF InCall, InLoop, Users
<1>3. CASE ProgNext /\ (ProgClock \/ ProgReset \/ ProgReady)
  <2>1. /\ pc = "user" /\ pc' = pc
        /\ \/ prog' \in {"reset", "wait"}
           \/ prog' = "set" /\ status' = "RDY"
    BY <1>3 DEF ProgClock, ProgReset, ProgReady, ProgGoes, Calls, IoctlReset, vars, engine, call
  <2> QED
    BY <2>1 DEF InCall, InLoop
<1>4. CASE ProgNext /\ ProgSet
  <2>1. ~oops /\ prog = "set" /\ prog' = "start" /\ pc = "user" /\ pc' = pc /\ status' = status
    BY <1>4 DEF ProgSet, ProgGoes, Calls, IoctlSet, Device!Configure, call
  <2> QED
    BY <2>1 DEF InCall, InLoop
<1>5. CASE ProgNext /\ ProgStart
  <2>1. /\ ~oops /\ prog = "start" /\ prog' = "select" /\ pc = "user" /\ pc' = pc
        /\ Device!Edge({"RUN"}, FALSE)
    BY <1>5 DEF ProgStart, ProgGoes, Calls, IoctlStart, Control, call
  <2>2. status = "RDY"
    BY <2>1 DEF InCall
  <2>3. status' = "BUSY"
    BY <2>1, <2>2 DEF Device!Edge, Device!Begin, Device!Stay, Device!Drain, Device!Exhaust,
       Device!Report
  <2> QED
    BY <2>1, <2>3 DEF InCall, InLoop, Coming, Computing
<1>6. CASE ProgNext /\ ProgSelect
  <2>1. /\ ~oops /\ prog = "select" /\ prog' = "selected" /\ pc' = "poll"
        /\ UNCHANGED <<status, irq, external_irq, isrMsg, queue, msg>>
    BY <1>6 DEF ProgSelect, ProgGoes, Calls, Select, engine, handler, list
  <2> QED
    BY <2>1 DEF InCall, InLoop, Coming, Computing
<1>7. CASE ProgNext /\ ProgSelected
  <2>1. /\ ~oops /\ prog = "selected" /\ prog' \in {"read", "select"} /\ pc = "user"
        /\ UNCHANGED <<pc, status, irq, external_irq, isrMsg, queue, msg>>
    BY <1>7 DEF ProgSelected, Calls, vars, engine, call, handler, list
  <2> QED
    BY <2>1 DEF InCall, InLoop, Coming, Computing
<1>8. CASE ProgNext /\ (ProgRead \/ ProgClose \/ ProgKilled)
  <2>1. prog' \in {"reading", "idle"}
    BY <1>8 DEF ProgRead, ProgClose, ProgKilled, ProgGoes
  <2> QED
    BY <2>1 DEF InCall, InLoop
<1>9. CASE ProgNext /\ (ProgOops \/ HandlerOops)
  BY <1>9 DEF ProgOops, HandlerOops, Oops
<1>10. CASE ProgNext /\ (InKernel \/ Disturbed)
  <2>1. /\ ~oops /\ UNCHANGED <<prog, oops>>
        /\ ThreadStep \/ Signal \/ SelectTimeout
    BY <1>10 DEF ProgNext, InKernel, Disturbed
  <2>2. pc # "user" /\ UNCHANGED <<isr, isrMsg, engine>>
    BY <2>1, InKernelPlaces
  <2>3. InCall
    BY <2>1
  <2>4. CASE prog # "selected"
    BY <2>1, <2>2, <2>3, <2>4 DEF InCall, InLoop
  <2>5. CASE prog = "selected"
    <3>1. TypeOK /\ Places
      BY <2>1, <2>5, LoopIsNormal
    <3>2. /\ Coming
          /\ \/ pc \in {"user", "poll", "polled", "selecting"}
             \/ pc \in {"lock", "pop"} /\ back = "polled"
      BY <2>3, <2>5 DEF InCall, InLoop
    <3>3. CASE ThreadStep
      <4>1. /\ Coming'
            /\ \/ pc' \in {"user", "poll", "polled", "selecting"}
               \/ pc' \in {"lock", "pop"} /\ back' = "polled"
        BY <3>1, <3>2, <3>3, SelectComing
      <4> QED
        BY <2>1, <2>5, <4>1 DEF InCall
    <3>4. CASE Signal \/ SelectTimeout
      <4>1. /\ pc' \in {"user", "poll"}
            /\ UNCHANGED <<status, irq, external_irq, isrMsg, queue, msg>>
        BY <3>4 DEF Signal, SelectTimeout, Return, engine, handler, list
      <4> QED
        BY <2>1, <2>5, <3>2, <4>1 DEF InCall, Coming, Computing
    <3> QED
      BY <2>1, <3>3, <3>4
  <2> QED
    BY <2>4, <2>5
<1>11. CASE ProgNext /\ Hardware /\ UNCHANGED prog
  <2>1. /\ ~oops /\ UNCHANGED <<prog, oops, pc, back, isrMsg, queue, msg>>
        /\ Device!Edge({}, FALSE)
    BY <1>11 DEF ProgNext, Hardware, Running, call, handler, list
  <2>2. InCall
    BY <2>1
  <2>3. status = "RDY" => status' = "RDY"
    BY <2>1 DEF Device!Edge, Device!Stay, Device!Drain, Device!Exhaust, Device!Report
  <2>4. ASSUME InLoop PROVE Coming'
    <3>1. Device!TypeOK
      BY <2>1, <2>4, LoopIsNormal DEF InLoop, TypeOK
    <3> QED
      BY <2>1, <2>2, <2>4, <3>1, EdgeComing DEF InCall, Coming
  <2> QED
    BY <2>1, <2>2, <2>3, <2>4 DEF InCall, InLoop
<1>12. CASE ProgNext /\ HandlerStep /\ UNCHANGED prog
  <2>1. ~oops /\ UNCHANGED <<prog, oops>> /\ IsrStep
    BY <1>12 DEF ProgNext, HandlerStep
  <2>2. InCall
    BY <2>1
  <2>3. UNCHANGED <<pc, back>> /\ (status = "RDY" => status' = "RDY")
    <3>1. CASE IsrAck
      BY <3>1 DEF IsrAck, call, Device!Edge, Device!Stay, Device!Drain, Device!Exhaust,
         Device!Report
    <3>2. CASE IsrStatus \/ IsrCandidate \/ IsrLock \/ IsrAdd \/ IsrWake
      BY <3>2 DEF IsrStatus, IsrCandidate, IsrLock, IsrAdd, IsrWake, call, engine
    <3> QED
      BY <2>1, <3>1, <3>2 DEF IsrStep
  <2>4. ASSUME InLoop PROVE Coming'
    <3>1. TypeOK /\ Places
      BY <2>1, <2>4, LoopIsNormal DEF InLoop
    <3> QED
      BY <2>1, <2>2, <2>4, <3>1, HandlerComing DEF InCall
  <2> QED
    BY <2>1, <2>2, <2>3, <2>4 DEF InCall, InLoop
<1>13. CASE ProgNext /\ (Insmod \/ Acquire) /\ UNCHANGED prog
  BY <1>1, <1>13 DEF Insmod, Acquire
<1>14. CASE ProgNext /\ Fail /\ UNCHANGED prog
  <2>1. ~oops /\ UNCHANGED <<vars, prog>> /\ oops' = (owner # NULL)
    BY <1>14 DEF ProgNext, Fail
  <2>2. CASE owner # NULL
    BY <2>1, <2>2
  <2>3. CASE owner = NULL
    BY <2>1, <2>3 DEF Users, InCall, InLoop
  <2> QED
    BY <2>2, <2>3
<1>15. CASE ProgNext /\ (Rmmod \/ Exit) /\ UNCHANGED prog
  <2>1. ~oops
    BY <1>15 DEF ProgNext
  <2>2. prog = "idle"
    <3>1. CASE Rmmod
      BY <2>1, <3>1 DEF Rmmod, Users
    <3>2. CASE Exit
      <4>1. Exiting
        BY <3>2 DEF Exit, ExitReset, ExitLock, ExitEmpty, ExitUnmap, ExitFreeIrq, ExitDestroy,
           ExitGoes, Exiting, ExitPlaces
      <4> QED
        BY <1>15, <4>1, ExitingSteps
    <3> QED
      BY <1>15, <3>1, <3>2
  <2> QED
    BY <1>15, <2>2 DEF InCall, InLoop
<1>16. CASE UNCHANGED progVars
  BY <1>1, <1>16 DEF progVars, lvars
<1>17. ASSUME ProgNext PROVE Looping'
  BY <1>2, <1>3, <1>4, <1>5, <1>6, <1>7, <1>8, <1>9, <1>10, <1>11, <1>12, <1>13, <1>14, <1>15,
     <1>17 DEF ProgNext, ProgStep, KernelStep, LifecycleStep
<1> QED
  BY <1>16, <1>17

\* During an exit nobody sleeps, so that the driver's own lemma covers the rest.
LEMMA WatchKept ==
    ASSUME Has, Users, Normal, Watch, [ProgNext]_progVars
    PROVE  Watch'
<1>1. CASE UNCHANGED <<pc, back, registered, woken, msg, queue, isr>>
  BY <1>1 DEF Watch, OnQueue, AboutToSleep
<1>2. CASE UNCHANGED progVars
  BY <1>1, <1>2 DEF progVars, lvars, vars, call, waitq, list, handler
<1>3. ASSUME pc = "user", pc' = pc PROVE Watch'
  BY <1>3 DEF Watch, OnQueue, AboutToSleep
<1>4. CASE ProgNext /\ Exiting
  <2>1. pc = "user" /\ (Exit \/ HandlerStep \/ HandlerOops \/ Hardware)
    BY <1>4, ExitingSteps
  <2>2. CASE Exit \/ HandlerOops
    BY <1>3, <2>1, <2>2 DEF Exit, ExitReset, ExitLock, ExitEmpty, ExitUnmap, ExitFreeIrq,
       ExitDestroy, HandlerOops, Oops, vars, call
  <2>3. CASE HandlerStep \/ Hardware
    BY <1>3, <2>1, <2>3, CallKept DEF HandlerStep, Hardware
  <2> QED
    BY <2>1, <2>2, <2>3
<1>5. CASE ProgNext /\ ~Exiting
  <2>1. CASE [Next]_vars
    BY <1>5, <2>1, WatchStep DEF Normal
  <2>2. CASE Rmmod
    BY <1>3, <2>2 DEF Rmmod, Users, call
  <2>3. ~Exit
    BY <1>5 DEF Exit, ExitReset, ExitLock, ExitEmpty, ExitUnmap, ExitFreeIrq, ExitDestroy,
       ExitGoes, Exiting, ExitPlaces
  <2> QED
    BY <1>5, <2>1, <2>2, <2>3, DriverOrExit
<1> QED
  BY <1>2, <1>4, <1>5

(***************************************************************************)
(* The program never waits for a message that will not come.  In its loop  *)
(* there is a search under way, an interrupt, or a message of that or an   *)
(* earlier search, whatever signals, timeouts and kills did before; and    *)
(* when its select sleeps, it has been woken, or the search, the interrupt *)
(* or the handler that is to wake it is still going on.                    *)
(***************************************************************************)
LoopIsHeard ==
    InLoop /\ ~oops =>
        /\ Coming
        /\ pc = "selecting" => woken \/ Computing \/ irq \/ external_irq \/ isr # "idle"

\* What is left to liveness of ProgramEnds is that each of them is scheduled.
THEOREM ProgramIsHeard == ProgSpec => []LoopIsHeard
<1>1. ProgInit => Looping /\ Watch
  BY DEF ProgInit, LifecycleInit, Init, Looping, InCall, InLoop, Watch, OnQueue, AboutToSleep
<1>2. ProgInvariant /\ Looping /\ Watch /\ [ProgNext]_progVars => (Looping /\ Watch)'
  BY LoopStep, WatchKept DEF ProgInvariant
<1>3. ProgInvariant /\ Looping /\ Watch => LoopIsHeard
  <2> SUFFICES ASSUME ProgInvariant, Looping, Watch, InLoop, ~oops
               PROVE  /\ Coming
                      /\ pc = "selecting" =>
                           woken \/ Computing \/ irq \/ external_irq \/ isr # "idle"
    BY DEF LoopIsHeard
  <2>1. Coming
    BY DEF Looping, InCall
  <2>2. Places
    BY LoopIsNormal DEF ProgInvariant, InLoop
  <2> QED
    BY <2>1, <2>2 DEF Coming, Places, Watch, AboutToSleep
<1> QED
  BY <1>1, <1>2, <1>3, ProgInductive, PTL DEF ProgSpec
=============================================================================
