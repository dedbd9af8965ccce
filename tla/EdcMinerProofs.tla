---------------------------- MODULE EdcMinerProofs ----------------------------
(***************************************************************************)
(* Theorems about EdcMiner, for any number of nonces, jobs, addresses and  *)
(* searches.  Whatever the threads of cgminer and the other program do is  *)
(* a step of the kernel driver, so its theorems hold here too.             *)
(***************************************************************************)
EXTENDS EdcMiner, KernelDriverProofs

-----------------------------------------------------------------------------
(***************************************************************************)
(* What the miner and the other program do with the driver.                *)
(***************************************************************************)
LEMMA DriverStep ==
    ASSUME [MinerNext]_minerVars
    PROVE  [Next]_vars
<1>1. CASE UNCHANGED vars
  BY <1>1
<1>2. CASE ThreadStep \/ Signal \/ SelectTimeout \/ Running \/ IsrStep
  BY <1>2 DEF Next
<1>3. CASE \/ Open(Miner) \/ Open(Other) \/ Release \/ IoctlReset \/ IoctlStart
           \/ (\E j \in Jobs : IoctlSet(j)) \/ Select
  BY <1>3, ProcsAssumption DEF Next, Syscall
<1>4. CASE Read(MSGSIZE, FALSE)
  <2>1. MSGSIZE \in 0 .. MSGSIZE /\ FALSE \in BOOLEAN
    BY SizeAssumption
  <2> QED
    BY <1>4, <2>1 DEF Next, Syscall
<1>5. CASE UNCHANGED minerVars
  BY <1>1, <1>5 DEF minerVars
<1>6. CASE Call \/ ScanStep
  BY <1>1, <1>3, <1>4, <1>6
  DEF Call, ScanStep, LockForOpen, OpenDevice, StoreFd, OpenFails, SetClock, ResetDevice,
      WaitReady, SetWork, StartSearch, SelectDevice, SelectReturned, CheckStatus,
      ReadMessage, ReadReturned, Submit, NoResult, CountHashes, LockForClose,
      CloseDevice, ClearFd
<1>7. CASE InKernel \/ Interrupted \/ TimedOut \/ Hardware \/ Handler
  BY <1>2, <1>7 DEF InKernel, Interrupted, TimedOut, Hardware, Handler
<1>8. CASE StatLock \/ StatIoctl \/ StatUnlock \/ Restart \/ OtherStep
  BY <1>1, <1>3, <1>8 DEF StatLock, StatIoctl, StatUnlock, Restart, OtherStep
<1> QED
  BY <1>5, <1>6, <1>7, <1>8 DEF MinerNext

(***************************************************************************)
(* cgminer and the other program use sha256_accel.c as KernelDriver allows *)
(* any process to: with what is proved of it, no message leaks, no order   *)
(* is lost and no wakeup, whatever they do.                                *)
(***************************************************************************)
THEOREM MinerUsesDriver == MinerSpec => Spec
<1>1. MinerInit => Init
  BY DEF MinerInit
<1>2. [MinerNext]_minerVars => [Next]_vars
  BY DriverStep
<1> QED
  BY <1>1, <1>2, PTL DEF MinerSpec, Spec

-----------------------------------------------------------------------------
(***************************************************************************)
(* Who has the device open.  Steps of the driver that are not open or      *)
(* release leave it alone.                                                 *)
(***************************************************************************)
LEMMA OwnerKept ==
    ASSUME \/ ThreadStep \/ Signal \/ SelectTimeout \/ Running \/ IsrStep
           \/ IoctlReset \/ IoctlStart \/ (\E j \in Jobs : IoctlSet(j))
           \/ Select \/ Read(MSGSIZE, FALSE) \/ UNCHANGED vars
    PROVE  owner' = owner
<1>1. CASE ThreadStep
  BY <1>1 DEF ThreadStep, Lock, LockInterrupted, Pop, Avail, Availed, Wait, Waiting,
     WakeUp, Copy, FreeCurrent, Poll, Polled, SelectWakeUp
<1>2. CASE IsrStep
  BY <1>2 DEF IsrStep, IsrStatus, IsrCandidate, IsrAck, IsrLock, IsrAdd, IsrWake
<1> QED
  BY <1>1, <1>2 DEF Signal, SelectTimeout, Running, IoctlReset, IoctlStart, IoctlSet,
     Select, Read, vars

\* The places of a scan that has the device open.
HasDevice ==
    scan \in ScanPlaces \ {"out", "lock", "open", "closed", "disabled"}

(***************************************************************************)
(* The descriptor is open while the scan is in the places of an open       *)
(* device, and changed only with fd_lock in the hands of the scan.         *)
(***************************************************************************)
Access ==
    /\ owner = Miner <=> HasDevice
    /\ fd_lock = "scan" <=> scan \in {"open", "opened", "close", "closed"}
    /\ fd_lock = "stat" <=> stat \in {"ioctl", "unlock"}
    /\ fd => HasDevice \/ scan = "closed"
    /\ stat = "ioctl" => fd

\* The type invariant, without the buffer of the scan.
ControlTypes ==
    /\ scan \in ScanPlaces
    /\ hashes \in BOOLEAN /\ work_restart \in BOOLEAN
    /\ left \in {"nothing", "messages", "interrupt"}
    /\ fd \in BOOLEAN /\ fd_lock \in {"free", "scan", "stat"}
    /\ stat \in {"idle", "ioctl", "unlock"}

\* Every step of cgminer keeps the control state typed.
LEMMA ControlTypesStep ==
    ASSUME ControlTypes, [MinerNext]_minerVars
    PROVE  ControlTypes'
<1> USE DEF ControlTypes, ScanPlaces, shared, scanning
<1>1. CASE \/ Call \/ LockForOpen \/ OpenDevice \/ StoreFd \/ OpenFails
  BY <1>1 DEF Call, LockForOpen, OpenDevice, StoreFd, OpenFails, Go
<1>2. CASE \/ SetClock \/ ResetDevice \/ WaitReady \/ SetWork
  BY <1>2 DEF SetClock, ResetDevice, WaitReady, SetWork, Go
<1>3. CASE StartSearch
  BY <1>3 DEF StartSearch, Go
<1>4. CASE \/ SelectDevice \/ SelectReturned \/ CheckStatus \/ ReadMessage \/ ReadReturned
  BY <1>4 DEF SelectDevice, SelectReturned, CheckStatus, ReadMessage, ReadReturned, Go
<1>5. CASE \/ Submit \/ NoResult \/ CountHashes \/ LockForClose \/ CloseDevice \/ ClearFd
  BY <1>5 DEF Submit, NoResult, CountHashes, LockForClose, CloseDevice, ClearFd, Go
<1>6. CASE \/ InKernel \/ Interrupted \/ TimedOut \/ Hardware \/ Handler \/ OtherStep
  BY <1>6 DEF InKernel, Interrupted, TimedOut, Hardware, Handler, OtherStep
<1>7. CASE StatLock \/ StatIoctl \/ StatUnlock \/ Restart
  BY <1>7 DEF StatLock, StatIoctl, StatUnlock, Restart
<1>8. CASE UNCHANGED minerVars
  BY <1>8 DEF minerVars
<1> QED
  BY <1>1, <1>2, <1>3, <1>4, <1>5, <1>6, <1>7, <1>8 DEF MinerNext, ScanStep

\* Every step keeps the device, the descriptor and the lock together.
LEMMA AccessStep ==
    ASSUME ControlTypes, Access, [MinerNext]_minerVars
    PROVE  Access'
<1> USE ProcsAssumption, NullAssumption
    DEF ControlTypes, Access, HasDevice, ScanPlaces, shared, scanning
<1>1. CASE Call \/ LockForOpen
  <2>1. owner' = owner
    BY <1>1, OwnerKept DEF Call, LockForOpen, shared
  <2>2. fd' = fd
    BY <1>1 DEF Call, LockForOpen, shared
  <2>3. fd' <=> fd
    BY <2>2, Zenon
  <2> QED
    BY <1>1, <2>1, <2>3 DEF Call, LockForOpen, Go
<1>2. CASE OpenDevice
  BY <1>2 DEF OpenDevice, Go, Open
<1>3. CASE StoreFd \/ OpenFails
  BY <1>3 DEF StoreFd, OpenFails, Go, vars
<1>4. CASE SetClock \/ WaitReady
  BY <1>4 DEF SetClock, WaitReady, vars
<1>5. CASE ResetDevice \/ SetWork \/ StartSearch \/ SelectDevice \/ ReadMessage
  <2>1. owner' = owner
    BY <1>5, OwnerKept DEF ResetDevice, SetWork, StartSearch, SelectDevice, ReadMessage
  <2> QED
    BY <1>5, <2>1 DEF ResetDevice, SetWork, StartSearch, SelectDevice, ReadMessage, Go
<1>6. CASE SelectReturned \/ CheckStatus \/ ReadReturned
  BY <1>6 DEF SelectReturned, CheckStatus, ReadReturned, vars
<1>7. CASE Submit \/ NoResult \/ CountHashes \/ LockForClose
  BY <1>7 DEF Submit, NoResult, CountHashes, LockForClose, Go, vars
<1>8. CASE CloseDevice
  BY <1>8 DEF CloseDevice, Go, Release
<1>9. CASE ClearFd
  BY <1>9 DEF ClearFd, vars
<1>10. CASE InKernel \/ Interrupted \/ TimedOut \/ Hardware \/ Handler
  <2>1. owner' = owner
    BY <1>10, OwnerKept DEF shared, InKernel, Interrupted, TimedOut, Hardware, Handler
  <2>2. fd' = fd
    BY <1>10 DEF shared, InKernel, Interrupted, TimedOut, Hardware, Handler
  <2>3. fd' <=> fd
    BY <2>2, Zenon
  <2> QED
    BY <1>10, <2>1, <2>3 DEF InKernel, Interrupted, TimedOut, Hardware, Handler
<1>11. CASE StatLock \/ StatIoctl \/ StatUnlock \/ Restart
  <2>1. owner' = owner
    BY <1>11, OwnerKept DEF shared, StatLock, StatIoctl, StatUnlock, Restart
  <2>2. fd' = fd
    BY <1>11 DEF shared, StatLock, StatIoctl, StatUnlock, Restart
  <2>3. fd' <=> fd
    BY <2>2, Zenon
  <2>4. scan' = scan
    BY <1>11 DEF StatLock, StatIoctl, StatUnlock, Restart
  <2> QED
    BY <1>11, <2>1, <2>3, <2>4 DEF StatLock, StatIoctl, StatUnlock, Restart
<1>12. CASE OtherStep
  <2>1. (owner = Miner) <=> (owner' = Miner)
    <3>1. CASE Open(Other)
      BY <3>1 DEF Open
    <3>2. CASE owner = Other /\ Release
      BY <3>2 DEF Release
    <3>3. CASE owner = Other /\ (IoctlReset \/ IoctlStart)
      BY <3>3, OwnerKept
    <3> QED
      BY <1>12, <3>1, <3>2, <3>3 DEF OtherStep
  <2> QED
    BY <1>12, <2>1 DEF OtherStep
<1>13. CASE UNCHANGED minerVars
  BY <1>13 DEF minerVars, vars
<1> QED
  BY <1>1, <1>2, <1>3, <1>4, <1>5, <1>6, <1>7, <1>8, <1>9, <1>10, <1>11, <1>12, <1>13
  DEF MinerNext, ScanStep

-----------------------------------------------------------------------------
(***************************************************************************)
(* What the messages of this search look like.                             *)
(***************************************************************************)
Looking ==
    scan \in {"loop", "selected", "status", "read", "reading", "submit", "no result"}

Fresh(m) ==
    Ended /\ m.status = status /\ m.nonce_candidate = nonce_candidate

\* The handler has not read the candidate into this message yet.
Unfinished(a) == isr = "candidate" /\ isrMsg = a

\* The interrupt, its latch and the messages tell of the end of this search.
Messages ==
    /\ irq \/ external_irq => Ended
    /\ \A a \in Allocated :
         /\ Ended /\ heap[a].status = status
         /\ Unfinished(a) \/ heap[a].nonce_candidate = nonce_candidate

\* So does the buffer of the scan once a message has been copied.
Known ==
    /\ scan = "reading" /\ (pc = "free" \/ Dangling) => Fresh(umsg)
    /\ scan = "reading" /\ pc = "user" /\ ret = MSGSIZE => Fresh(umsg)
    /\ scan = "submit" => Fresh(umsg) /\ umsg.status = "FOUND"
    /\ scan = "no result" => Fresh(umsg) /\ umsg.status # "FOUND"

(***************************************************************************)
(* When nothing of an older search was left, everything that tells of an   *)
(* end tells of that of this search.                                       *)
(***************************************************************************)
OwnSearch == Looking /\ left = "nothing" => Messages /\ Known

\* A search is started in RDY, and read is not in the places of select.
Prepared ==
    /\ scan \in {"set", "start"} => status = "RDY"
    /\ scan = "reading" =>
          /\ pc \notin {"poll", "polled", "selecting"}
          /\ pc \in {"lock", "pop"} => back # "polled"

\* By itself, the accelerator leaves RDY and an end of a search alone.
LEMMA EdgeKeeps ==
    ASSUME NEW a \in BOOLEAN, Device!TypeOK, Device!Edge({}, a)
    PROVE  /\ status = "RDY" => status' = "RDY"
           /\ Ended => /\ status' = status /\ nonce_candidate' = nonce_candidate
                       /\ Ended'
           /\ irq' => Ended'
           /\ external_irq' => external_irq \/ irq
BY DEF Device!TypeOK, Device!Edge, Device!Latch, Device!Stay, Device!Drain, Device!Exhaust,
   Device!Report, Ended

\* The messages that are allocated, and the one at hand when it is copied.
LEMMA AtHand ==
    ASSUME Invariant
    PROVE  /\ pc = "copy" => msg \in Allocated /\ ~Unfinished(msg) /\ msg \in Addr
           /\ isr = "candidate" => isrMsg \in Allocated /\ isrMsg \in Addr
           /\ queue = <<>> /\ msg = NULL /\ isr = "idle" => Allocated = {}
<1>1. TypeOK /\ Places /\ Ownership
  BY DEF Invariant
<1>2. ASSUME pc = "copy"
      PROVE  msg \in Allocated /\ ~Unfinished(msg) /\ msg \in Addr
  <2>1. Current = {msg} /\ msg \in Addr
    BY <1>1, <1>2 DEF Places, Current, Dangling, TypeOK
  <2>2. msg \in Allocated /\ msg \notin InHand
    BY <1>1, <2>1 DEF Ownership
  <2>3. isr = "candidate" => InHand = {isrMsg}
    BY <1>1 DEF Places, InHand
  <2>4. ~Unfinished(msg)
    BY <2>2, <2>3 DEF Unfinished
  <2> QED
    BY <2>1, <2>2, <2>4
<1>3. isr = "candidate" => isrMsg \in Allocated /\ isrMsg \in Addr
  BY <1>1 DEF Places, Ownership, InHand, TypeOK
<1>4. queue = <<>> /\ msg = NULL /\ isr = "idle" => Allocated = {}
  BY <1>1 DEF Places, Ownership, InHand, Current, Queued
<1> QED
  BY <1>2, <1>3, <1>4

\* What the other program could do to the engine it cannot do during a scan.
LEMMA OtherExcluded ==
    ASSUME Access, HasDevice, OtherStep
    PROVE  FALSE
<1>1. owner = Miner /\ Miner # NULL /\ Miner # Other
  BY ProcsAssumption, NullAssumption DEF Access
<1> QED
  BY <1>1 DEF OtherStep, Open

\* In the kernel the engine is left alone, and a read stays in its places.
LEMMA ThreadKeeps ==
    ASSUME TypeOK, ThreadStep
    PROVE  /\ UNCHANGED <<engine, isr, isrMsg, owner>>
           /\ FreeCurrent \/ heap' = heap
           /\ pc \notin {"poll", "polled", "selecting"}
                /\ (pc \in {"lock", "pop"} => back # "polled")
              => pc' \notin {"poll", "polled", "selecting"}
                /\ (pc' \in {"lock", "pop"} => back' # "polled")
<1> USE DEF TypeOK
<1>1. CASE Lock \/ LockInterrupted \/ Pop
  BY <1>1 DEF Lock, LockInterrupted, Pop, handler
<1>2. CASE Avail \/ Availed \/ Wait \/ Waiting \/ WakeUp
  BY <1>2 DEF Avail, Availed, Wait, Waiting, WakeUp, handler, list, Dequeue, Continue, Return
<1>3. CASE Copy \/ FreeCurrent
  BY <1>3 DEF Copy, FreeCurrent, handler, list, Dequeue
<1>4. CASE Poll \/ Polled \/ SelectWakeUp
  BY <1>4 DEF Poll, Polled, SelectWakeUp, handler, list, Dequeue, Continue, Return
<1> QED
  BY <1>1, <1>2, <1>3, <1>4 DEF ThreadStep

\* The handler writes no register but the acknowledge.
LEMMA HandlerKeeps ==
    ASSUME IsrStep
    PROVE  /\ UNCHANGED call
           /\ Device!Edge({}, TRUE) \/ UNCHANGED engine
BY DEF IsrStep, IsrStatus, IsrCandidate, IsrAck, IsrLock, IsrAdd, IsrWake

\* A search is started in RDY, and a read stays in the places of read.
LEMMA PreparedStep ==
    ASSUME Invariant, Access, ControlTypes, Prepared, [MinerNext]_minerVars
    PROVE  Prepared'
<1>0. TypeOK /\ Device!TypeOK
  BY DEF Invariant, TypeOK
<1> USE DEF Prepared, shared, scanning
<1>1. CASE \/ Call \/ LockForOpen \/ OpenDevice \/ StoreFd \/ OpenFails
           \/ SetClock \/ ResetDevice \/ StartSearch
  BY <1>1 DEF Call, LockForOpen, OpenDevice, StoreFd, OpenFails, SetClock, ResetDevice,
     StartSearch, Go
<1>2. CASE WaitReady
  BY <1>2 DEF WaitReady, vars, engine
<1>3. CASE SetWork
  BY <1>3 DEF SetWork, Go, IoctlSet, Device!Configure
<1>4. CASE SelectDevice \/ SelectReturned \/ CheckStatus
  BY <1>4 DEF SelectDevice, SelectReturned, CheckStatus, Go
<1>5. CASE ReadMessage
  BY <1>5, SizeAssumption DEF ReadMessage, Go, Read
<1>6. CASE \/ ReadReturned \/ Submit \/ NoResult \/ CountHashes \/ LockForClose
           \/ CloseDevice \/ ClearFd
  BY <1>6 DEF ReadReturned, Submit, NoResult, CountHashes, LockForClose, CloseDevice,
     ClearFd, Go
<1>7. CASE InKernel
  <2>1. ThreadStep /\ scan' = scan
    BY <1>7 DEF InKernel
  <2> QED
    BY <1>0, <2>1, ThreadKeeps DEF engine
<1>8. CASE Interrupted \/ TimedOut
  BY <1>8 DEF Interrupted, TimedOut, Signal, SelectTimeout, Return, engine
<1>9. CASE Hardware \/ Handler
  <2>1. /\ scan' = scan /\ UNCHANGED call
        /\ (\E a \in BOOLEAN : Device!Edge({}, a)) \/ UNCHANGED engine
    BY <1>9, HandlerKeeps DEF Hardware, Handler, Running
  <2>2. status = "RDY" => status' = "RDY"
    BY <1>0, <2>1, EdgeKeeps DEF engine
  <2> QED
    BY <2>1, <2>2 DEF call
<1>10. CASE StatLock \/ StatIoctl \/ StatUnlock \/ Restart
  BY <1>10 DEF StatLock, StatIoctl, StatUnlock, Restart, vars, engine, call
<1>11. CASE OtherStep
  <2>1. scan' = scan /\ ~HasDevice
    BY <1>11, OtherExcluded DEF OtherStep
  <2> QED
    BY <2>1 DEF HasDevice, ScanPlaces
<1>12. CASE UNCHANGED minerVars
  BY <1>12 DEF minerVars, vars, engine, call
<1> QED
  BY <1>1, <1>2, <1>3, <1>4, <1>5, <1>6, <1>7, <1>8, <1>9, <1>10, <1>11, <1>12
  DEF MinerNext, ScanStep

\* A search begins without a message or an interrupt, so all to come are its own.
LEMMA Started ==
    ASSUME Invariant, Prepared, StartSearch, left' = "nothing"
    PROVE  Messages' /\ Known'
<1>1. scan = "start" /\ scan' = "loop" /\ status = "RDY" /\ IoctlStart
  BY DEF StartSearch, Go, Prepared
<1>2. clean' /\ isr = "idle" /\ queue = <<>> /\ msg = NULL
  BY DEF StartSearch
<1>3. ~irq /\ ~external_irq /\ heap' = heap
  BY <1>1, <1>2 DEF IoctlStart, list
<1>4. Allocated' = {}
  BY <1>2, <1>3, AtHand DEF Allocated
<1>5. ~irq' /\ ~external_irq'
  BY <1>1, <1>3 DEF IoctlStart, Control, Device!Edge, Device!Latch, Device!Begin, Device!Drain,
     Device!Exhaust, Device!Report
<1> QED
  BY <1>1, <1>4, <1>5 DEF Messages, Known

\* The engine and the acknowledge do not spoil what is known of an end.
LEMMA EngineStep ==
    ASSUME Device!TypeOK, Messages, NEW a \in BOOLEAN, Device!Edge({}, a)
    PROVE  /\ irq' \/ external_irq' => Ended'
           /\ Ended => Ended' /\ status' = status /\ nonce_candidate' = nonce_candidate
<1>1. /\ Ended => Ended' /\ status' = status /\ nonce_candidate' = nonce_candidate
      /\ irq' => Ended'
      /\ external_irq' => external_irq \/ irq
  BY EdgeKeeps
<1> QED
  BY <1>1 DEF Messages

\* What the scan knows it keeps knowing while its thread does nothing.
LEMMA KnownKept ==
    ASSUME Known, UNCHANGED <<scan, umsg, pc, back, ret>>,
           Ended => Ended' /\ status' = status /\ nonce_candidate' = nonce_candidate
    PROVE  Known'
BY DEF Known, Fresh, Dangling

\* A message keeps its place in the invariant while nobody writes it.
LEMMA MessagesKept ==
    ASSUME Messages, UNCHANGED <<heap, isr, isrMsg>>,
           irq' \/ external_irq' => Ended',
           Ended => Ended' /\ status' = status /\ nonce_candidate' = nonce_candidate
    PROVE  Messages'
BY DEF Messages, Allocated, Unfinished

\* The handler makes messages of this search only.
LEMMA HandlerStep ==
    ASSUME Invariant, Messages, IsrStep
    PROVE  /\ Messages'
           /\ Ended => Ended' /\ status' = status /\ nonce_candidate' = nonce_candidate
<1>0. TypeOK /\ Device!TypeOK /\ heap \in [Addr -> Message \cup {Free}]
  BY DEF Invariant, TypeOK
<1>1. CASE IsrStatus
  <2>1. /\ status' = status /\ nonce_candidate' = nonce_candidate
        /\ Ended /\ Ended' /\ isr = "idle" /\ isr' = "candidate"
    BY <1>1 DEF IsrStatus, Messages, Ended, engine
  <2>2. PICK a \in Addr :
          /\ heap' = [heap EXCEPT ![a] =
               [status |-> status, nonce_candidate |-> 0, number |-> raised + 1]]
          /\ isrMsg' = a
    BY <1>1 DEF IsrStatus
  <2>3. heap'[a].status = status /\ Unfinished(a)'
    BY <1>0, <2>1, <2>2 DEF Unfinished
  <2>4. \A b \in Addr : b # a => heap'[b] = heap[b]
    BY <1>0, <2>2
  <2>5. \A b \in Allocated' : b = a \/ b \in Allocated
    BY <2>4 DEF Allocated
  <2>6. \A b \in Allocated : ~Unfinished(b)
    BY <2>1 DEF Unfinished
  <2>7. \A b \in Allocated' :
          /\ heap'[b].status = status
          /\ Unfinished(b)' \/ heap'[b].nonce_candidate = nonce_candidate
    <3> TAKE b \in Allocated'
    <3>1. CASE b = a
      BY <2>3, <3>1
    <3>2. CASE b # a
      <4>1. b \in Allocated /\ b \in Addr
        BY <2>5, <3>2 DEF Allocated
      <4> QED
        BY <2>4, <2>6, <3>2, <4>1 DEF Messages
    <3> QED
      BY <3>1, <3>2
  <2>8. \A b \in Allocated' :
          /\ Ended' /\ heap'[b].status = status'
          /\ Unfinished(b)' \/ heap'[b].nonce_candidate = nonce_candidate'
    BY <2>1, <2>7
  <2> QED
    BY <2>1, <2>8 DEF Messages
<1>2. CASE IsrCandidate
  <2>1. /\ status' = status /\ nonce_candidate' = nonce_candidate /\ (Ended' <=> Ended)
        /\ irq' = irq /\ external_irq' = external_irq
        /\ isr = "candidate"
    BY <1>2 DEF IsrCandidate, Ended, engine
  <2>2. heap' = [heap EXCEPT ![isrMsg].nonce_candidate = nonce_candidate]
    BY <1>2 DEF IsrCandidate
  <2>3. isrMsg \in Addr /\ isrMsg \in Allocated /\ heap[isrMsg] \in Message
    BY <1>0, <2>1, AtHand DEF Allocated
  <2>4. /\ heap'[isrMsg].status = heap[isrMsg].status
        /\ heap'[isrMsg].nonce_candidate = nonce_candidate
    BY <1>0, <2>2, <2>3 DEF Message
  <2>5. \A b \in Addr : b # isrMsg => heap'[b] = heap[b]
    BY <1>0, <2>2, <2>3
  <2>6. \A b \in Allocated' : b \in Allocated /\ b \in Addr
    BY <2>3, <2>5 DEF Allocated
  <2>7. \A b \in Allocated' :
           heap'[b].status = status /\ heap'[b].nonce_candidate = nonce_candidate
    BY <2>3, <2>4, <2>5, <2>6 DEF Messages, Unfinished
  <2>8. Allocated' # {} => Ended
    BY <2>6 DEF Messages
  <2>9. irq' \/ external_irq' => Ended'
    BY <2>1 DEF Messages
  <2>10. \A b \in Allocated' :
           /\ Ended' /\ heap'[b].status = status'
           /\ Unfinished(b)' \/ heap'[b].nonce_candidate = nonce_candidate'
    BY <2>1, <2>7, <2>8
  <2> QED
    BY <2>1, <2>9, <2>10 DEF Messages
<1>3. CASE IsrAck
  <2>1. Device!Edge({}, TRUE) /\ heap' = heap /\ isr = "ack" /\ isr' = "lock"
    BY <1>3 DEF IsrAck, list
  <2>2. /\ irq' \/ external_irq' => Ended'
        /\ Ended => Ended' /\ status' = status /\ nonce_candidate' = nonce_candidate
    BY <1>0, <2>1, EngineStep
  <2> QED
    BY <2>1, <2>2 DEF Messages, Allocated, Unfinished
<1>4. CASE IsrLock \/ IsrAdd \/ IsrWake
  <2>1. UNCHANGED engine /\ heap' = heap /\ isr # "candidate"
    BY <1>4 DEF IsrLock, IsrAdd, IsrWake, list
  <2> QED
    BY <2>1 DEF Messages, Allocated, Unfinished, Ended, engine
<1> QED
  BY <1>1, <1>2, <1>3, <1>4 DEF IsrStep

\* The thread copies a message of this search, and frees what it has copied.
LEMMA CopyStep ==
    ASSUME Invariant, Prepared, Looking, Messages, Known, InKernel
    PROVE  Messages' /\ Known'
<1>0. /\ TypeOK /\ Device!TypeOK /\ heap \in [Addr -> Message \cup {Free}]
      /\ ThreadStep /\ scan' = scan
  BY DEF Invariant, TypeOK, InKernel
<1>1. UNCHANGED <<engine, isr, isrMsg>>
  BY <1>0, ThreadKeeps
<1>2. /\ Ended' = Ended /\ status' = status /\ nonce_candidate' = nonce_candidate
      /\ irq' = irq /\ external_irq' = external_irq
  BY <1>1 DEF engine, Ended
<1>3. Messages'
  <2>1. CASE heap' = heap
    BY <1>1, <1>2, <2>1 DEF Messages, Allocated, Unfinished
  <2>2. CASE FreeCurrent
    <3>1. heap' = [heap EXCEPT ![msg] = Free]
      BY <2>2 DEF FreeCurrent
    <3>2. \A b \in Allocated' : b \in Allocated /\ heap'[b] = heap[b]
      BY <1>0, <3>1 DEF Allocated
    <3> QED
      BY <1>1, <1>2, <3>2 DEF Messages, Unfinished
  <2> QED
    BY <1>0, <2>1, <2>2, ThreadKeeps
<1>4. CASE Copy
  <2>1. pc = "copy" /\ pc' = "free" /\ umsg' = heap[msg]
    BY <1>4 DEF Copy, InKernel
  <2>2. msg \in Allocated /\ ~Unfinished(msg)
    BY <2>1, AtHand
  <2>3. Fresh(umsg)'
    BY <1>2, <2>1, <2>2 DEF Messages, Fresh
  <2>4. scan = "submit" \/ scan = "no result" => Fresh(umsg)
    BY DEF Known
  <2>5. (scan = "submit" => umsg'.status = "FOUND")
        /\ (scan = "no result" => umsg'.status # "FOUND")
    BY <1>2, <2>3, <2>4 DEF Known, Fresh
  <2> QED
    BY <1>0, <1>3, <2>1, <2>3, <2>5 DEF Known
<1>5. CASE ~Copy
  <2>1. umsg' = umsg /\ (Fresh(umsg)' <=> Fresh(umsg))
    <3>1. pc # "copy"
      BY <1>0, <1>5 DEF ThreadStep, Lock, LockInterrupted, Pop, Avail, Availed, Wait, Waiting,
         WakeUp, FreeCurrent, Poll, Polled, SelectWakeUp
    <3> QED
      BY <1>2, <3>1 DEF InKernel, Fresh
  <2>2. /\ scan = "reading" /\ (pc' = "free" \/ Dangling') => pc = "free" \/ Dangling
        /\ scan = "reading" /\ pc' = "user" /\ ret' = MSGSIZE => Dangling
    <3>1. CASE Lock \/ LockInterrupted \/ Pop
      BY <1>0, <3>1 DEF TypeOK, Prepared, Lock, LockInterrupted, Pop, Dangling
    <3>2. CASE Avail \/ Wait \/ Waiting \/ WakeUp
      BY <3>2 DEF Avail, Wait, Waiting, WakeUp, Dequeue, Dangling
    <3>3. CASE Availed
      BY <3>3, SizeAssumption DEF Availed, Continue, Return, Dangling, EAGAIN
    <3>4. CASE FreeCurrent
      BY <3>4 DEF FreeCurrent, Dequeue, Dangling
    <3>5. CASE Poll \/ Polled \/ SelectWakeUp
      BY <3>5 DEF Prepared, Poll, Polled, SelectWakeUp
    <3> QED
      BY <1>0, <1>5, <3>1, <3>2, <3>3, <3>4, <3>5 DEF ThreadStep
  <2> QED
    BY <1>0, <1>3, <2>1, <2>2 DEF Known
<1> QED
  BY <1>4, <1>5

\* Every step keeps what is known of the end of this search.
LEMMA OwnSearchStep ==
    ASSUME Invariant, Access, ControlTypes, Prepared, OwnSearch, [MinerNext]_minerVars
    PROVE  OwnSearch'
<1> SUFFICES ASSUME Looking', left' = "nothing"
             PROVE  Messages' /\ Known'
  BY DEF OwnSearch
<1>0. TypeOK /\ Device!TypeOK /\ (Looking => HasDevice)
  BY DEF Invariant, TypeOK, Looking, HasDevice, ScanPlaces
<1>1. CASE StartSearch
  BY <1>1, Started
<1>2. CASE ~StartSearch /\ ~UNCHANGED left
  BY <1>2 DEF MinerNext, ScanStep, Call, LockForOpen, OpenDevice, StoreFd, OpenFails, SetClock,
     ResetDevice, WaitReady, SetWork, SelectDevice, SelectReturned, CheckStatus, ReadMessage,
     ReadReturned, Submit, NoResult, CountHashes, LockForClose, CloseDevice, ClearFd,
     InKernel, Interrupted, TimedOut, Hardware, Handler, StatLock, StatIoctl, StatUnlock,
     Restart, OtherStep, minerVars
<1>3. CASE UNCHANGED left /\ Looking
  <2> USE <1>3
  <2>0. Messages /\ Known
    BY DEF OwnSearch
  <2>1. CASE UNCHANGED <<vars, scan, umsg>>
    <3>1. /\ UNCHANGED <<heap, isr, isrMsg, pc, back, ret, scan, umsg>>
          /\ UNCHANGED <<status, nonce_candidate, irq, external_irq>>
      BY <2>1 DEF vars, engine, call, list, handler
    <3>2. /\ irq' \/ external_irq' => Ended'
          /\ Ended => Ended' /\ status' = status /\ nonce_candidate' = nonce_candidate
      BY <2>0, <3>1 DEF Messages, Ended
    <3> QED
      BY <2>0, <3>1, <3>2, KnownKept, MessagesKept
  <2>2. CASE SelectDevice \/ ReadMessage
    <3>1. /\ UNCHANGED <<heap, isr, isrMsg>>
          /\ UNCHANGED <<status, nonce_candidate, irq, external_irq>>
      BY <2>2 DEF SelectDevice, Select, ReadMessage, Read, engine, list, handler
    <3>2. /\ irq' \/ external_irq' => Ended'
          /\ Ended => Ended' /\ status' = status /\ nonce_candidate' = nonce_candidate
      BY <2>0, <3>1 DEF Messages, Ended
    <3>3. Messages'
      BY <2>0, <3>1, <3>2, MessagesKept
    <3>4. scan' = "selected" \/ (scan' = "reading" /\ pc' = "avail")
      BY <2>2, SizeAssumption DEF SelectDevice, ReadMessage, Read, Go
    <3> QED
      BY <3>3, <3>4 DEF Known, Dangling
  <2>3. CASE SelectReturned \/ CheckStatus \/ ReadReturned
    <3>1. UNCHANGED vars /\ umsg' = umsg
      BY <2>3 DEF SelectReturned, CheckStatus, ReadReturned
    <3>2. /\ UNCHANGED <<heap, isr, isrMsg, pc, back, ret>>
          /\ UNCHANGED <<status, nonce_candidate, irq, external_irq>>
      BY <3>1 DEF vars, engine, call, list, handler
    <3>3. /\ irq' \/ external_irq' => Ended'
          /\ Ended => Ended' /\ status' = status /\ nonce_candidate' = nonce_candidate
      BY <2>0, <3>2 DEF Messages, Ended
    <3>4. Messages'
      BY <2>0, <3>2, <3>3, MessagesKept
    <3>5. CASE SelectReturned \/ CheckStatus
      BY <3>4, <3>5 DEF SelectReturned, CheckStatus, Known
    <3>6. CASE ReadReturned
      <4>1. /\ scan = "reading" /\ pc = "user"
            /\ scan' \in {"nonce", "submit", "no result"}
            /\ scan' # "nonce" => ret = MSGSIZE
            /\ scan' = "submit" => umsg.status = "FOUND"
            /\ scan' = "no result" => umsg.status # "FOUND"
        BY <3>6 DEF ReadReturned
      <4>2. scan' # "nonce" => Fresh(umsg)'
        BY <2>0, <3>1, <3>3, <4>1 DEF Known, Fresh
      <4> QED
        BY <3>1, <3>4, <4>1, <4>2 DEF Known
    <3> QED
      BY <2>3, <3>5, <3>6
  <2>4. CASE Submit \/ NoResult \/ CountHashes
    BY <2>4 DEF Submit, NoResult, CountHashes, Go, Looking
  <2>5. CASE InKernel
    BY <2>0, <2>5, CopyStep
  <2>6. CASE Interrupted \/ TimedOut
    <3>1. /\ UNCHANGED <<heap, isr, isrMsg, scan, umsg>>
          /\ UNCHANGED <<status, nonce_candidate, irq, external_irq>>
      BY <2>6 DEF Interrupted, TimedOut, Signal, SelectTimeout, engine, list, handler, scanning
    <3>2. /\ irq' \/ external_irq' => Ended'
          /\ Ended => Ended' /\ status' = status /\ nonce_candidate' = nonce_candidate
      BY <2>0, <3>1 DEF Messages, Ended
    <3>3. Messages'
      BY <2>0, <3>1, <3>2, MessagesKept
    <3>4. pc' \in {"user", "poll"} /\ (pc' = "user" => ret' = EINTR)
      BY <2>6 DEF Interrupted, TimedOut, Signal, SelectTimeout, Return
    <3>5. EINTR # MSGSIZE
      BY SizeAssumption DEF EINTR
    <3>6. Fresh(umsg) => Fresh(umsg)'
      BY <3>1, <3>2 DEF Fresh
    <3> QED
      BY <2>0, <3>1, <3>3, <3>4, <3>5, <3>6 DEF Known, Dangling
  <2>7. CASE Hardware
    <3>1. /\ Device!Edge({}, FALSE)
          /\ UNCHANGED <<heap, isr, isrMsg, pc, back, ret, scan, umsg>>
      BY <2>7 DEF Hardware, Running, call, list, handler, scanning
    <3>2. /\ irq' \/ external_irq' => Ended'
          /\ Ended => Ended' /\ status' = status /\ nonce_candidate' = nonce_candidate
      BY <1>0, <2>0, <3>1, EngineStep
    <3> QED
      BY <2>0, <3>1, <3>2, KnownKept, MessagesKept
  <2>8. CASE Handler
    <3>1. IsrStep /\ UNCHANGED <<scan, umsg>>
      BY <2>8 DEF Handler, scanning
    <3>2. UNCHANGED <<scan, umsg, pc, back, ret>>
      BY <3>1, HandlerKeeps DEF call
    <3>3. /\ Messages'
          /\ Ended => Ended' /\ status' = status /\ nonce_candidate' = nonce_candidate
      BY <2>0, <3>1, HandlerStep
    <3> QED
      BY <2>0, <3>2, <3>3, KnownKept
  <2>9. CASE OtherStep
    BY <1>0, <2>9, OtherExcluded
  <2>10. CASE StatLock \/ StatIoctl \/ StatUnlock \/ Restart \/ UNCHANGED minerVars
    <3>1. UNCHANGED <<vars, scan, umsg>>
      BY <2>10 DEF StatLock, StatIoctl, StatUnlock, Restart, minerVars, scanning
    <3> QED
      BY <2>1, <3>1
  <2>11. ~(\/ Call \/ LockForOpen \/ OpenDevice \/ StoreFd \/ OpenFails \/ SetClock
           \/ ResetDevice \/ WaitReady \/ SetWork \/ StartSearch \/ LockForClose
           \/ CloseDevice \/ ClearFd)
    BY DEF Looking, Call, LockForOpen, OpenDevice, StoreFd, OpenFails, SetClock, ResetDevice,
       WaitReady, SetWork, StartSearch, LockForClose, CloseDevice, ClearFd, Go
  <2> QED
    BY <2>2, <2>3, <2>4, <2>5, <2>6, <2>7, <2>8, <2>9, <2>10, <2>11 DEF MinerNext, ScanStep
<1>4. CASE ~StartSearch /\ ~Looking
  <2>1. scan' # scan
    BY <1>4 DEF Looking
  <2> QED
    BY <1>4, <2>1 DEF Looking, Go, MinerNext, ScanStep, Call, LockForOpen, OpenDevice, StoreFd,
       OpenFails, SetClock, ResetDevice, WaitReady, SetWork, SelectDevice, SelectReturned,
       CheckStatus, ReadMessage, ReadReturned, Submit, NoResult, CountHashes, LockForClose,
       CloseDevice, ClearFd, InKernel, Interrupted, TimedOut, Hardware, Handler, StatLock,
       StatIoctl, StatUnlock, Restart, OtherStep, minerVars, scanning
<1> QED
  BY <1>1, <1>2, <1>3, <1>4
-----------------------------------------------------------------------------
\* The buffer of the scan holds a message from the first one on.
LEMMA BufferStep ==
    ASSUME Invariant, umsg \in Message, [MinerNext]_minerVars
    PROVE  umsg' \in Message
<1>1. CASE InKernel
  <2>1. CASE pc = "copy"
    <3>1. umsg' = heap[msg] /\ msg \in Allocated /\ msg \in Addr /\ TypeOK
      BY <1>1, <2>1, AtHand DEF InKernel, Invariant
    <3> QED
      BY <3>1, MessageFields
  <2>2. CASE pc # "copy"
    BY <1>1, <2>2 DEF InKernel
  <2> QED
    BY <2>1, <2>2
<1>2. CASE ClearFd
  BY <1>2, NAssumption DEF ClearFd, NoMessage, Message, Device!Nonces
<1>3. CASE ~InKernel /\ ~ClearFd
  BY <1>3 DEF MinerNext, ScanStep, Call, LockForOpen, OpenDevice, StoreFd, OpenFails, SetClock,
     ResetDevice, WaitReady, SetWork, StartSearch, SelectDevice, SelectReturned, CheckStatus,
     ReadMessage, ReadReturned, Submit, NoResult, CountHashes, LockForClose, CloseDevice,
     Interrupted, TimedOut, Hardware, Handler, StatLock, StatIoctl, StatUnlock, Restart,
     OtherStep, minerVars, scanning
<1> QED
  BY <1>1, <1>2, <1>3
-----------------------------------------------------------------------------
MinerInvariant ==
    /\ Invariant
    /\ ControlTypes /\ umsg \in Message
    /\ Access /\ Prepared /\ OwnSearch

\* The invariant holds initially.
LEMMA MinerInitInvariant == MinerInit => MinerInvariant
<1> SUFFICES ASSUME MinerInit PROVE MinerInvariant
  OBVIOUS
<1>1. Invariant
  BY InitInvariant DEF MinerInit
<1>2. ControlTypes
  BY DEF MinerInit, ControlTypes, ScanPlaces
<1>3. umsg \in Message
  BY NAssumption DEF MinerInit, NoMessage, Message, Device!Nonces
<1>4. Access
  BY ProcsAssumption, NullAssumption DEF MinerInit, Init, Access, HasDevice, ScanPlaces
<1>5. Prepared /\ OwnSearch
  BY DEF MinerInit, Prepared, OwnSearch, Looking
<1> QED
  BY <1>1, <1>2, <1>3, <1>4, <1>5 DEF MinerInvariant

\* Every step keeps the invariant.
LEMMA MinerStepInvariant == MinerInvariant /\ [MinerNext]_minerVars => MinerInvariant'
BY DriverStep, StepInvariant, ControlTypesStep, BufferStep, AccessStep, PreparedStep,
   OwnSearchStep
DEF MinerInvariant

\* The invariant behind all theorems on driver-edc.c.
THEOREM MinerInductive == MinerSpec => []MinerInvariant
BY MinerInitInvariant, MinerStepInvariant, PTL DEF MinerSpec

(***************************************************************************)
(* The variables of the miner keep their types: what the scan copies from  *)
(* the driver is a message.                                                *)
(***************************************************************************)
THEOREM MinerTypeCorrect == MinerSpec => []MinerTypeOK
<1>1. MinerInvariant => MinerTypeOK
  BY DEF MinerInvariant, ControlTypes, MinerTypeOK
<1> QED
  BY <1>1, MinerInductive, PTL

(***************************************************************************)
(* The status line thread never uses a descriptor that is closed already.  *)
(***************************************************************************)
THEOREM StatlineIsSafe == MinerSpec => []StatlineFdOpen
<1>1. MinerInvariant => StatlineFdOpen
  BY DEF MinerInvariant, Access, ControlTypes, StatlineFdOpen
<1> QED
  BY <1>1, MinerInductive, PTL

(***************************************************************************)
(* A scan that has returned, and a device that was given up, have closed   *)
(* the file: edc_scanhash leaks no descriptor on any of its ways out.      *)
(***************************************************************************)
THEOREM DeviceIsClosed == MinerSpec => []ScanClosesDevice
<1>1. MinerInvariant => ScanClosesDevice
  BY DEF MinerInvariant, Access, HasDevice, ControlTypes, ScanClosesDevice
<1> QED
  BY <1>1, MinerInductive, PTL

(***************************************************************************)
(* A nonce is submitted, and a range called exhausted, only on the word of *)
(* the accelerator about this search, if nothing of an older one was left. *)
(***************************************************************************)
THEOREM ResultIsFresh == MinerSpec => []FreshResult
<1>1. MinerInvariant => FreshResult
  BY DEF MinerInvariant, OwnSearch, Known, Looking, Fresh, Ended, FreshResult
<1> QED
  BY <1>1, MinerInductive, PTL
-----------------------------------------------------------------------------
(***************************************************************************)
(* What the scan waits for.  Its thread is in the kernel only in select    *)
(* and in read, and it reads only when select has found a message, which   *)
(* nobody else can take: the thread has the device alone.                  *)
(***************************************************************************)
InSelect ==
    pc \in {"user", "poll", "polled", "selecting"} \/ (pc \in {"lock", "pop"} /\ back = "polled")

InRead ==
    pc \in {"user", "avail", "copy", "free"} \/ (pc \in {"lock", "pop"} /\ back = "user")

Waits ==
    /\ scan \notin {"selected", "reading"} => pc = "user"
    /\ scan = "selected" => InSelect
    /\ scan = "selected" /\ pc = "user" => ret \in {0, 1, EINTR} /\ (ret = 1 => msg # NULL)
    /\ scan = "read" => msg # NULL
    /\ scan = "reading" => InRead /\ (pc = "avail" => msg # NULL)

\* In the kernel, a select finds a message or returns without one ...
LEMMA SelectGoesOn ==
    ASSUME TypeOK, ThreadStep, InSelect
    PROVE  /\ InSelect'
           /\ pc' = "user" => ret' \in {0, 1, EINTR} /\ (ret' = 1 => msg' # NULL)
<1> USE DEF InSelect
<1>1. CASE Lock \/ LockInterrupted \/ Pop
  BY <1>1 DEF Lock, LockInterrupted, Pop
<1>2. CASE Poll \/ SelectWakeUp
  BY <1>2 DEF Poll, SelectWakeUp, Dequeue
<1>3. CASE Polled
  BY <1>3 DEF Polled, Return, Continue, list
<1>4. ~(Avail \/ Availed \/ Wait \/ Waiting \/ WakeUp \/ Copy \/ FreeCurrent)
  BY DEF Avail, Availed, Wait, Waiting, WakeUp, Copy, FreeCurrent
<1> QED
  BY <1>1, <1>2, <1>3, <1>4 DEF ThreadStep

\* ... and a read that has one copies it.
LEMMA ReadGoesOn ==
    ASSUME ThreadStep, InRead, pc = "avail" => msg # NULL
    PROVE  InRead' /\ pc' # "avail"
<1> USE DEF InRead
<1>1. CASE Lock \/ LockInterrupted \/ Pop
  BY <1>1 DEF Lock, LockInterrupted, Pop
<1>2. CASE Avail \/ Copy \/ FreeCurrent
  BY <1>2 DEF Avail, Copy, FreeCurrent, Dequeue
<1>3. ~(Availed \/ Wait \/ Waiting \/ WakeUp \/ Poll \/ Polled \/ SelectWakeUp)
  BY DEF Availed, Wait, Waiting, WakeUp, Poll, Polled, SelectWakeUp
<1> QED
  BY <1>1, <1>2, <1>3 DEF ThreadStep

\* Every step of cgminer keeps it so.
LEMMA WaitsStep ==
    ASSUME TypeOK, Waits, [MinerNext]_minerVars
    PROVE  Waits'
<1> USE DEF Waits, scanning
<1>1. CASE UNCHANGED <<scan, pc, back, ret, msg>>
  BY <1>1 DEF InSelect, InRead
<1>2. CASE \/ Call \/ LockForOpen \/ OpenDevice \/ StoreFd \/ OpenFails \/ SetClock \/ ResetDevice
           \/ WaitReady \/ SetWork \/ StartSearch
  <2>1. pc' = pc
    BY <1>2 DEF Call, LockForOpen, OpenDevice, Open, StoreFd, OpenFails, SetClock, ResetDevice,
       IoctlReset, WaitReady, SetWork, IoctlSet, StartSearch, IoctlStart, vars, call
  <2>2. /\ scan \notin {"selected", "reading"}
        /\ scan' \notin {"selected", "reading", "read"}
    BY <1>2 DEF Call, LockForOpen, OpenDevice, StoreFd, OpenFails, SetClock, ResetDevice,
       WaitReady, SetWork, StartSearch, Go
  <2> QED
    BY <2>1, <2>2
<1>3. CASE SelectDevice
  BY <1>3 DEF SelectDevice, Go, Select, InSelect
<1>4. CASE SelectReturned
  <2>1. /\ scan = "selected" /\ pc = "user" /\ pc' = "user" /\ msg' = msg
        /\ scan' \in {"nonce", "status"} \/ (scan' = "read" /\ ret \notin {0, EINTR})
    BY <1>4 DEF SelectReturned, vars, call, list
  <2> QED
    BY <2>1
<1>5. CASE ReadMessage
  BY <1>5, SizeAssumption DEF ReadMessage, Go, Read, InRead, list
<1>6. CASE CheckStatus \/ ReadReturned \/ Submit \/ NoResult \/ CountHashes \/ LockForClose \/ ClearFd
  <2>1. pc' = pc
    BY <1>6 DEF CheckStatus, ReadReturned, Submit, NoResult, CountHashes, LockForClose, ClearFd,
       vars, call
  <2>2. /\ scan \notin {"selected", "reading"} \/ pc = "user"
        /\ scan' \notin {"selected", "reading", "read"}
    BY <1>6 DEF CheckStatus, ReadReturned, Submit, NoResult, CountHashes, LockForClose, ClearFd, Go
  <2> QED
    BY <2>1, <2>2
<1>7. CASE CloseDevice
  BY <1>7 DEF CloseDevice, Go, Release, call
<1>8. CASE InKernel
  <2>1. ThreadStep /\ scan' = scan
    BY <1>8 DEF InKernel
  <2>2. pc # "user"
    BY <2>1 DEF ThreadStep, Lock, LockInterrupted, Pop, Avail, Availed, Wait, Waiting, WakeUp,
       Copy, FreeCurrent, Poll, Polled, SelectWakeUp
  <2>3. CASE scan = "selected"
    BY <2>1, <2>3, SelectGoesOn
  <2>4. CASE scan = "reading"
    BY <2>1, <2>4, ReadGoesOn
  <2> QED
    BY <2>2, <2>3, <2>4
<1>9. CASE Interrupted \/ TimedOut
  <2>1. /\ scan' = scan /\ pc \in {"asleep", "selecting"}
        /\ \/ pc' = "user" /\ ret' = EINTR
           \/ pc' = "poll"
    BY <1>9 DEF Interrupted, TimedOut, Signal, SelectTimeout, Return
  <2>2. scan = "selected"
    BY <2>1 DEF InRead
  <2> QED
    BY <2>1, <2>2 DEF InSelect, EINTR
<1>10. CASE Hardware \/ Handler
  BY <1>1, <1>10 DEF Hardware, Running, Handler, IsrStep, IsrStatus, IsrCandidate, IsrAck, IsrLock,
     IsrAdd, IsrWake, call, list
<1>11. CASE StatLock \/ StatIoctl \/ StatUnlock \/ Restart \/ UNCHANGED minerVars
  BY <1>1, <1>11 DEF StatLock, StatIoctl, StatUnlock, Restart, minerVars, vars, call, list
<1>12. CASE OtherStep
  BY <1>1, <1>12 DEF OtherStep, Open, IoctlReset, Release, IoctlStart, call, list
<1> QED
  BY <1>2, <1>3, <1>4, <1>5, <1>6, <1>7, <1>8, <1>9, <1>10, <1>11, <1>12 DEF MinerNext, ScanStep

(***************************************************************************)
(* The scan never waits for something that may not come.  The read after   *)
(* its select, which has no timeout, never sleeps; the loop that waits for *)
(* RDY ends with its first look; and the lock is never wanted by the one   *)
(* who has it, nor kept by the status line thread while it is idle.  So    *)
(* all a scan ever sleeps in is a select, which times out, and a restart   *)
(* is looked at after each.                                                *)
(***************************************************************************)
ScanGoesOn ==
    /\ scan = "reading" => pc \notin {"availed", "wait", "waiting", "asleep"}
    /\ scan = "ready" => status = "RDY"
    /\ scan \in {"lock", "lock to close"} /\ fd_lock # "free" => stat \in {"ioctl", "unlock"}
    /\ scan = "close" => owner = Miner /\ pc = "user"

\* A reset and what comes before the start of a search leave it in RDY.
ResetSeen == scan = "ready" => status = "RDY"

\* Nothing starts a search between the reset and the look at the status.
LEMMA ResetSeenStep ==
    ASSUME TypeOK, Access, ControlTypes, ResetSeen, [MinerNext]_minerVars
    PROVE  ResetSeen'
<1> USE DEF ResetSeen, scanning
<1>1. CASE ResetDevice
  BY <1>1 DEF ResetDevice, IoctlReset, Control, Device!Edge, Device!Reset
<1>2. CASE Hardware \/ Handler
  <2>1. /\ scan' = scan
        /\ (\E a \in BOOLEAN : Device!Edge({}, a)) \/ UNCHANGED engine
    BY <1>2, HandlerKeeps DEF Hardware, Handler, Running
  <2> QED
    BY <2>1, EdgeKeeps DEF TypeOK, engine
<1>3. CASE InKernel \/ Interrupted \/ TimedOut
  <2>1. scan' = scan /\ UNCHANGED engine
    BY <1>3, ThreadKeeps DEF InKernel, Interrupted, TimedOut, Signal, SelectTimeout
  <2> QED
    BY <2>1 DEF engine
<1>4. CASE OtherStep
  <2>1. scan' = scan /\ ~HasDevice
    BY <1>4, OtherExcluded DEF OtherStep
  <2> QED
    BY <2>1 DEF HasDevice, ScanPlaces
<1>5. CASE StatLock \/ StatIoctl \/ StatUnlock \/ Restart \/ UNCHANGED minerVars \/ WaitReady
  BY <1>5 DEF StatLock, StatIoctl, StatUnlock, Restart, minerVars, WaitReady, vars, engine
<1>6. CASE Call \/ (ScanStep /\ ~ResetDevice /\ ~WaitReady)
  BY <1>6 DEF Call, ScanStep, LockForOpen, OpenDevice, StoreFd, OpenFails, SetClock, SetWork,
     StartSearch, SelectDevice, SelectReturned, CheckStatus, ReadMessage, ReadReturned, Submit,
     NoResult, CountHashes, LockForClose, CloseDevice, ClearFd, Go
<1> QED
  BY <1>1, <1>2, <1>3, <1>4, <1>5, <1>6 DEF MinerNext

\* What RestartEndsScan needs besides the scheduling of the threads and the timeout.
THEOREM ScanWaitsForNothing == MinerSpec => []ScanGoesOn
<1>1. MinerInit => Waits /\ ResetSeen
  BY DEF MinerInit, Init, Waits, ResetSeen
<1>2. MinerInvariant => TypeOK /\ Access /\ ControlTypes
  BY DEF MinerInvariant, Invariant
<1>3. MinerInvariant /\ Waits /\ ResetSeen /\ [MinerNext]_minerVars => (Waits /\ ResetSeen)'
  BY <1>2, WaitsStep, ResetSeenStep
<1>4. MinerInvariant /\ Waits /\ ResetSeen => ScanGoesOn
  BY <1>2 DEF Waits, ResetSeen, InRead, ScanGoesOn, Access, HasDevice, ControlTypes, ScanPlaces
<1> QED
  BY <1>1, <1>3, <1>4, MinerInductive, PTL DEF MinerSpec
=============================================================================
