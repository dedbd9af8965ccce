-------------------------- MODULE KernelDriverProofs --------------------------
(***************************************************************************)
(* Proofs of the safety properties of KernelDriver, for any number of      *)
(* nonces, jobs, processes, addresses and searches.                        *)
(***************************************************************************)
EXTENDS KernelDriver, TLAPS

-----------------------------------------------------------------------------
(***************************************************************************)
(* The accelerator keeps its types whatever is written to it.              *)
(***************************************************************************)
LEMMA EdgeType ==
    ASSUME Device!TypeOK, NEW c, NEW a \in BOOLEAN, Device!Edge(c, a)
    PROVE  Device!TypeOK'
<1>1. \A n \in Device!Nonces : Device!Plus(n, 1) \in Device!Nonces
  BY NAssumption DEF Device!Plus, Device!Nonces
<1>2. job.first \in Device!Nonces
  BY JobsAssumption DEF Device!TypeOK, Device!Nonces
<1>3. external_irq' \in BOOLEAN /\ job' = job
  BY DEF Device!Edge, Device!Latch
<1>4. CASE "RST" \in c /\ Device!Reset
  BY <1>3, <1>4 DEF Device!Reset, Device!TypeOK
<1>5. CASE "RUN" \in c /\ status = "RDY" /\ Device!Begin(job.first)
  BY <1>2, <1>3, <1>5 DEF Device!Begin, Device!TypeOK
<1>6. CASE Device!Begin(Device!Plus(nonce_candidate, 1))
  BY <1>1, <1>3, <1>6 DEF Device!Begin, Device!TypeOK
<1>7. CASE Device!Stay
  BY <1>3, <1>7 DEF Device!Stay, Device!TypeOK
<1>8. CASE Device!Drain
  BY <1>3, <1>8 DEF Device!Drain, Device!TypeOK
<1>9. CASE Device!Exhaust
  BY <1>3, <1>9 DEF Device!Exhaust, Device!TypeOK
<1>10. CASE \E n \in Device!Nonces : Device!Report(n)
  BY <1>3, <1>10 DEF Device!Report, Device!TypeOK
<1> QED
  BY <1>4, <1>5, <1>6, <1>7, <1>8, <1>9, <1>10 DEF Device!Edge

\* Writing the parameter registers keeps the types of the accelerator.
LEMMA ConfigureType ==
    ASSUME Device!TypeOK, NEW j \in Jobs, Device!Configure(j)
    PROVE  Device!TypeOK'
BY DEF Device!Configure, Device!TypeOK
-----------------------------------------------------------------------------
(***************************************************************************)
(* What the places of the thread and of the handler say of the pointers    *)
(* and of the mutex.                                                       *)
(***************************************************************************)
Places ==
    /\ msg_mutex = "thread" <=> pc = "pop"
    /\ msg_mutex = "isr" <=> isr = "add"
    /\ isrMsg # NULL <=> isr \in {"candidate", "ack", "lock", "add"}
    /\ pc \in {"copy", "free"} => msg # NULL
    /\ pc \in {"wait", "asleep", "selecting"} => msg = NULL
    /\ pc \in {"lock", "pop"} /\ back # "user" => msg = NULL

\* Every step keeps the program counters, the mutex and the pointers in their places.
LEMMA PlacesStep ==
    ASSUME TypeOK, Places, [Next]_vars
    PROVE  Places'
<1> USE DEF TypeOK, Places, engine, call, waitq, list, handler, history
<1>1. CASE Running \/ Syscall
  BY <1>1 DEF Running, Syscall, Open, Release, IoctlReset, IoctlStart, IoctlSet,
     Read, Select, Return, Control
<1>2. CASE Lock \/ LockInterrupted \/ Pop
  BY <1>2 DEF Lock, LockInterrupted, Pop
<1>3. CASE Avail \/ Availed \/ Wait \/ Waiting \/ WakeUp
  BY <1>3 DEF Avail, Availed, Wait, Waiting, WakeUp, Dequeue, Return, Continue
<1>4. CASE Copy \/ FreeCurrent
  BY <1>4 DEF Copy, FreeCurrent, Dequeue
<1>5. CASE Poll \/ Polled \/ SelectWakeUp \/ SelectTimeout \/ Signal
  BY <1>5 DEF Poll, Polled, SelectWakeUp, SelectTimeout, Signal, Dequeue, Return,
     Continue
<1>6. CASE IsrStatus \/ IsrCandidate \/ IsrAck
  BY <1>6, NullAssumption DEF IsrStatus, IsrCandidate, IsrAck
<1>7. CASE IsrLock \/ IsrAdd \/ IsrWake
  BY <1>7 DEF IsrLock, IsrAdd, IsrWake
<1>8. CASE UNCHANGED vars
  BY <1>8 DEF vars
<1> QED
  BY <1>1, <1>2, <1>3, <1>4, <1>5, <1>6, <1>7, <1>8 DEF Next, ThreadStep, IsrStep
-----------------------------------------------------------------------------
(***************************************************************************)
(* Types.  Ownership is needed where the thread reads the current message  *)
(* and where the handler completes its own: both are allocated.            *)
(***************************************************************************)
LEMMA MessageFields ==
    ASSUME TypeOK, NEW a \in Addr, a \in Allocated
    PROVE  /\ heap[a] \in Message
           /\ heap[a].number \in Nat
BY DEF TypeOK, Allocated, Message

\* The type invariant in parts, each disturbed by few actions.
ThreadTypes ==
    /\ owner \in Procs \cup {NULL}
    /\ pc \in ThreadPlaces /\ back \in {"user", "availed", "waiting", "polled"}
    /\ length \in 0 .. MSGSIZE /\ copied \in 0 .. MSGSIZE
    /\ ret \in 0 .. MSGSIZE \cup {1, EAGAIN, EINTR}

FlagTypes ==
    nonblock \in BOOLEAN /\ registered \in BOOLEAN /\ woken \in BOOLEAN

MessageTypes ==
    /\ msg \in Addr \cup {NULL}
    /\ queue \in Seq(Addr)
    /\ msg_mutex \in {"free", "thread", "isr"}
    /\ heap \in [Addr -> Message \cup {Free}]
    /\ isr \in IsrPlaces /\ isrMsg \in Addr \cup {NULL}

HistoryTypes ==
    /\ starts \in Nat /\ raised \in Nat /\ taken \in Nat /\ got \in Nat
    /\ clean \in BOOLEAN /\ reported \in BOOLEAN

\* A step of the driver moves the accelerator only as Accel allows.
LEMMA EngineTypeStep ==
    ASSUME Device!TypeOK, [Next]_vars
    PROVE  Device!TypeOK'
<1>1. CASE UNCHANGED engine
  BY <1>1 DEF engine, Device!TypeOK
<1>2. CASE \/ Running \/ Release \/ IoctlReset \/ IoctlStart \/ IsrAck
  BY <1>2, EdgeType DEF Running, Release, IoctlReset, IoctlStart, IsrAck, Control
<1>3. CASE \E j \in Jobs : IoctlSet(j)
  BY <1>3, ConfigureType DEF IoctlSet
<1>4. CASE \/ \E p \in Procs : Open(p)
           \/ \E n \in 0 .. MSGSIZE, nb \in BOOLEAN : Read(n, nb)
           \/ Select \/ Signal \/ SelectTimeout
  BY <1>1, <1>4 DEF Open, Read, Select, Signal, SelectTimeout
<1>5. CASE ThreadStep
  BY <1>1, <1>5 DEF ThreadStep, Lock, LockInterrupted, Pop, Avail, Availed, Wait,
     Waiting, WakeUp, Copy, FreeCurrent, Poll, Polled, SelectWakeUp
<1>6. CASE IsrStatus \/ IsrCandidate \/ IsrLock \/ IsrAdd \/ IsrWake
  BY <1>1, <1>6 DEF IsrStatus, IsrCandidate, IsrLock, IsrAdd, IsrWake
<1>7. CASE UNCHANGED vars
  BY <1>1, <1>7 DEF vars
<1> QED
  BY <1>2, <1>3, <1>4, <1>5, <1>6, <1>7 DEF Next, Syscall, IsrStep

\* The counters and history variables keep their types.
LEMMA HistoryTypeStep ==
    ASSUME TypeOK, Places, Ownership, [Next]_vars
    PROVE  HistoryTypes'
<1> USE DEF TypeOK, HistoryTypes
<1>1. CASE UNCHANGED history
  BY <1>1 DEF history
<1>2. CASE Release \/ IoctlReset \/ IoctlStart
  <2>1. reported' \in BOOLEAN /\ clean' \in BOOLEAN
    BY <1>2, Zenon DEF Release, IoctlReset, IoctlStart, Control
  <2> QED
    BY <1>2, <2>1 DEF Release, IoctlReset, IoctlStart
<1>3. CASE Copy
  <2>1. heap[msg].number \in Nat
    BY <1>3, MessageFields DEF Copy, Places, Ownership, Current, Dangling
  <2> QED
    BY <1>3, <2>1 DEF Copy
<1>4. CASE IsrStatus
  BY <1>4 DEF IsrStatus
<1>5. CASE Running \/ (\E p \in Procs : Open(p)) \/ (\E j \in Jobs : IoctlSet(j))
           \/ (\E n \in 0 .. MSGSIZE, nb \in BOOLEAN : Read(n, nb))
           \/ Select \/ Signal \/ SelectTimeout
  BY <1>1, <1>5 DEF Running, Open, IoctlSet, Read, Select, Signal, SelectTimeout
<1>6. CASE ThreadStep /\ ~Copy
  BY <1>1, <1>6 DEF ThreadStep, Lock, LockInterrupted, Pop, Avail, Availed, Wait,
     Waiting, WakeUp, FreeCurrent, Poll, Polled, SelectWakeUp
<1>7. CASE IsrCandidate \/ IsrAck \/ IsrLock \/ IsrAdd \/ IsrWake
  BY <1>1, <1>7 DEF IsrCandidate, IsrAck, IsrLock, IsrAdd, IsrWake
<1>8. CASE UNCHANGED vars
  BY <1>1, <1>8 DEF vars
<1> QED
  BY <1>2, <1>3, <1>4, <1>5, <1>6, <1>7, <1>8 DEF Next, Syscall, IsrStep

\* The control state of a system call keeps its type.
LEMMA ThreadTypeStep ==
    ASSUME ThreadTypes, [Next]_vars
    PROVE  ThreadTypes'
<1> USE SizeAssumption DEF ThreadTypes, ThreadPlaces, EAGAIN, EINTR
<1>1. CASE UNCHANGED <<owner, call>>
  BY <1>1 DEF call
<1>2. CASE UNCHANGED call /\ owner' \in Procs \cup {NULL}
  BY <1>2 DEF call
<1>3. CASE Running \/ IoctlReset \/ IoctlStart \/ (\E j \in Jobs : IoctlSet(j))
           \/ IsrStep
  BY <1>1, <1>3 DEF Running, IoctlReset, IoctlStart, IoctlSet, IsrStep, IsrStatus,
     IsrCandidate, IsrAck, IsrLock, IsrAdd, IsrWake
<1>4. CASE (\E p \in Procs : Open(p)) \/ Release
  BY <1>2, <1>4 DEF Open, Release
<1>5. ASSUME NEW n \in 0 .. MSGSIZE, NEW nb \in BOOLEAN, Read(n, nb)
      PROVE  ThreadTypes'
  BY <1>5 DEF Read, Return
<1>6. CASE Lock \/ LockInterrupted \/ Pop
  BY <1>6 DEF Lock, LockInterrupted, Pop
<1>7. CASE Avail \/ Availed
  BY <1>7 DEF Avail, Availed, Dequeue, Return, Continue
<1>8. CASE Wait \/ Waiting \/ WakeUp
  BY <1>8 DEF Wait, Waiting, WakeUp, Dequeue
<1>9. CASE Copy
  <2>1. \A m \in 0 .. MSGSIZE : \A r \in 0 .. m :
          m - r \in 0 .. MSGSIZE /\ r \in 0 .. MSGSIZE
    OBVIOUS
  <2>2. (IF MSGSIZE >= length THEN length ELSE MSGSIZE) \in 0 .. MSGSIZE
    OBVIOUS
  <2>3. copied' \in 0 .. MSGSIZE /\ ret' \in 0 .. MSGSIZE
    BY <1>9, <2>1, <2>2 DEF Copy
  <2> QED
    BY <1>9, <2>3 DEF Copy
<1>10. CASE FreeCurrent
  BY <1>10 DEF FreeCurrent, Dequeue
<1>11. CASE Poll \/ Polled
  BY <1>11 DEF Poll, Polled, Dequeue, Return, Continue
<1>12. CASE Select \/ SelectWakeUp \/ SelectTimeout \/ Signal
  BY <1>12 DEF Select, SelectWakeUp, SelectTimeout, Signal, Return
<1>13. CASE UNCHANGED vars
  BY <1>1, <1>13 DEF vars
<1> QED
  BY <1>3, <1>4, <1>5, <1>6, <1>7, <1>8, <1>9, <1>10, <1>11, <1>12, <1>13
  DEF Next, Syscall, ThreadStep

\* The flags of a call and of the wait queue keep their types.
LEMMA FlagTypeStep ==
    ASSUME FlagTypes, [Next]_vars
    PROVE  FlagTypes'
<1>1. CASE UNCHANGED <<nonblock, waitq>>
  BY <1>1 DEF FlagTypes, waitq
<1>2. CASE UNCHANGED waitq /\ nonblock' \in BOOLEAN
  BY <1>2 DEF FlagTypes, waitq
<1>3. CASE Running \/ Release \/ IoctlReset \/ IoctlStart \/ Select
           \/ (\E p \in Procs : Open(p)) \/ (\E j \in Jobs : IoctlSet(j))
  BY <1>1, <1>3 DEF Running, Release, IoctlReset, IoctlStart, Select, Open,
     IoctlSet, call
<1>4. ASSUME NEW n \in 0 .. MSGSIZE, NEW nb \in BOOLEAN, Read(n, nb)
      PROVE  FlagTypes'
  <2>1. nonblock' \in BOOLEAN
    BY <1>4, Zenon DEF Read, Return, FlagTypes
  <2> QED
    BY <1>2, <1>4, <2>1 DEF Read
<1>5. CASE Lock \/ LockInterrupted \/ Pop \/ Avail \/ WakeUp \/ Copy \/ SelectWakeUp
  BY <1>1, <1>5 DEF Lock, LockInterrupted, Pop, Avail, WakeUp, Copy, SelectWakeUp
<1>6. CASE Availed
  BY <1>6, Zenon DEF FlagTypes, Availed, Return, Continue, waitq
<1>7. CASE Wait \/ Waiting \/ Poll
  BY <1>7, Zenon DEF FlagTypes, Wait, Waiting, Poll
<1>8. CASE FreeCurrent \/ SelectTimeout
  BY <1>8, Zenon DEF FlagTypes, FreeCurrent, SelectTimeout, waitq
<1>9. CASE Polled \/ Signal
  BY <1>9, Zenon DEF FlagTypes, Polled, Signal, Return, Continue
<1>10. CASE IsrStep /\ ~IsrWake
  BY <1>1, <1>10 DEF IsrStep, IsrStatus, IsrCandidate, IsrAck, IsrLock, IsrAdd, call
<1>11. CASE IsrWake
  BY <1>11, Zenon DEF FlagTypes, IsrWake, call
<1>12. CASE UNCHANGED vars
  BY <1>1, <1>12 DEF vars, call
<1> QED
  BY <1>3, <1>4, <1>5, <1>6, <1>7, <1>8, <1>9, <1>10, <1>11, <1>12
  DEF Next, Syscall, ThreadStep

\* Messages, list and current pointer keep their types; needs Ownership.
LEMMA MessageTypeStep ==
    ASSUME TypeOK, Places, Ownership, [Next]_vars
    PROVE  MessageTypes'
<1> USE DEF TypeOK, MessageTypes, IsrPlaces
<1>1. CASE UNCHANGED <<list, handler>>
  BY <1>1 DEF list, handler
<1>2. CASE Running \/ Syscall
  BY <1>1, <1>2 DEF Running, Syscall, Open, Release, IoctlReset, IoctlStart,
     IoctlSet, Read, Select
<1>3. CASE \/ Avail \/ Availed \/ Wait \/ Waiting \/ WakeUp \/ Copy
           \/ Poll \/ Polled \/ SelectWakeUp \/ SelectTimeout \/ Signal
  BY <1>1, <1>3 DEF Avail, Availed, Wait, Waiting, WakeUp, Copy, Poll, Polled,
     SelectWakeUp, SelectTimeout, Signal
<1>4. CASE Lock \/ LockInterrupted
  BY <1>4 DEF Lock, LockInterrupted, handler
<1>5. CASE Pop
  <2>1. queue # <<>> => Head(queue) \in Addr /\ Tail(queue) \in Seq(Addr)
    OBVIOUS
  <2> QED
    BY <1>5, <2>1 DEF Pop, handler
<1>6. CASE FreeCurrent
  BY <1>6 DEF FreeCurrent, handler
<1>7. CASE IsrStatus
  <2>1. [status |-> status, nonce_candidate |-> 0, number |-> raised + 1]
           \in Message
    BY NAssumption DEF Device!TypeOK, Message, Device!Nonces
  <2> QED
    BY <1>7, <2>1 DEF IsrStatus
<1>8. CASE IsrCandidate
  <2>1. isrMsg \in Addr /\ heap[isrMsg] \in Message
    BY <1>8, MessageFields DEF IsrCandidate, Places, Ownership, InHand
  <2>2. nonce_candidate \in Device!Nonces
    BY DEF Device!TypeOK
  <2>3. [heap[isrMsg] EXCEPT !.nonce_candidate = nonce_candidate] \in Message
    BY <2>1, <2>2 DEF Message
  <2> QED
    BY <1>8, <2>1, <2>3 DEF IsrCandidate
<1>9. CASE IsrAck \/ IsrWake
  BY <1>9 DEF IsrAck, IsrWake, list
<1>10. CASE IsrLock
  BY <1>10 DEF IsrLock
<1>11. CASE IsrAdd
  <2>1. isrMsg \in Addr
    BY <1>11 DEF IsrAdd, Places
  <2> QED
    BY <1>11, <2>1 DEF IsrAdd
<1>12. CASE UNCHANGED vars
  BY <1>1, <1>12 DEF vars
<1> QED
  BY <1>2, <1>3, <1>4, <1>5, <1>6, <1>7, <1>8, <1>9, <1>10, <1>11, <1>12
  DEF Next, ThreadStep, IsrStep

\* Every step keeps all types.
LEMMA TypeStep ==
    ASSUME TypeOK, Places, Ownership, [Next]_vars
    PROVE  TypeOK'
<1>1. Device!TypeOK'
  BY EngineTypeStep DEF TypeOK
<1>2. ThreadTypes /\ FlagTypes
  BY DEF TypeOK, ThreadTypes, FlagTypes
<1>3. ThreadTypes' /\ FlagTypes' /\ MessageTypes' /\ HistoryTypes'
  BY <1>2, ThreadTypeStep, FlagTypeStep, MessageTypeStep, HistoryTypeStep
<1> QED
  BY <1>1, <1>3 DEF TypeOK, ThreadTypes, FlagTypes, MessageTypes, HistoryTypes
-----------------------------------------------------------------------------
(***************************************************************************)
(* No search without a user: the invariant is inductive by itself.  Only   *)
(* RUN and the engine itself move the status to BUSY and FIN.              *)
(***************************************************************************)
LEMMA ClosedStep ==
    ASSUME ClosedMeansStopped, [Next]_vars
    PROVE  ClosedMeansStopped'
<1> USE DEF ClosedMeansStopped
<1>1. CASE UNCHANGED <<status, owner>>
  BY <1>1
<1>2. ASSUME NEW a \in BOOLEAN, Device!Edge({}, a), UNCHANGED owner
      PROVE  ClosedMeansStopped'
  <2>1. status \notin {"BUSY", "FIN"} => status' \notin {"BUSY", "FIN"}
    BY <1>2 DEF Device!Edge, Device!Stay, Device!Drain, Device!Exhaust,
       Device!Report
  <2> QED
    BY <1>2, <2>1
<1>3. CASE Running \/ IsrAck
  BY <1>2, <1>3 DEF Running, IsrAck
<1>4. CASE Release \/ IoctlReset
  <2>1. Device!Edge({"RST"}, FALSE)
    BY <1>4 DEF Release, IoctlReset, Control
  <2>2. status' = "RDY"
    BY <2>1 DEF Device!Edge, Device!Reset
  <2> QED
    BY <2>2
<1>5. CASE \/ IoctlStart \/ \E j \in Jobs : IoctlSet(j)
  BY <1>5 DEF IoctlStart, IoctlSet
<1>6. CASE \E p \in Procs : Open(p)
  BY <1>6, NullAssumption DEF Open
<1>7. CASE \/ \E n \in 0 .. MSGSIZE, nb \in BOOLEAN : Read(n, nb)
           \/ Select \/ Signal \/ SelectTimeout
  BY <1>1, <1>7 DEF Read, Select, Signal, SelectTimeout, engine
<1>8. CASE ThreadStep
  BY <1>1, <1>8 DEF ThreadStep, Lock, LockInterrupted, Pop, Avail, Availed, Wait,
     Waiting, WakeUp, Copy, FreeCurrent, Poll, Polled, SelectWakeUp, engine
<1>9. CASE IsrStatus \/ IsrCandidate \/ IsrLock \/ IsrAdd \/ IsrWake
  BY <1>1, <1>9 DEF IsrStatus, IsrCandidate, IsrLock, IsrAdd, IsrWake, engine
<1>10. CASE UNCHANGED vars
  BY <1>1, <1>10 DEF vars, engine
<1> QED
  BY <1>3, <1>4, <1>5, <1>6, <1>7, <1>8, <1>9, <1>10 DEF Next, Syscall, IsrStep
-----------------------------------------------------------------------------
(***************************************************************************)
(* NoLostWakeup needs to know who is on the wait queue, and that it        *)
(* already holds when the thread is about to sleep: has looked at the list *)
(* and found nothing, or could not look because the handler was adding.    *)
(***************************************************************************)
OnQueue ==
    \/ pc \in {"asleep", "selecting", "waiting", "polled"}
    \/ pc \in {"lock", "pop"} /\ back \in {"waiting", "polled"}

AboutToSleep ==
    \/ pc \in {"asleep", "selecting"}
    \/ pc \in {"waiting", "polled"} /\ msg = NULL

Watch ==
    /\ OnQueue => registered
    /\ AboutToSleep /\ queue # <<>> => woken \/ isr \in {"add", "wake"}

\* A thread about to sleep has registered, and what it missed is still to wake it.
LEMMA WatchStep ==
    ASSUME TypeOK, Places, Watch, [Next]_vars
    PROVE  Watch'
<1>0. /\ registered \in BOOLEAN /\ woken \in BOOLEAN
      /\ back \in {"user", "availed", "waiting", "polled"}
      /\ queue \in Seq(Addr)
      /\ msg_mutex \in {"free", "thread", "isr"}
  BY DEF TypeOK
<1> USE <1>0 DEF Watch, OnQueue, AboutToSleep
<1>1. CASE UNCHANGED <<pc, back, registered, woken, msg, queue, isr>>
  BY <1>1
<1>2. CASE \/ Running \/ Release \/ IoctlReset \/ IoctlStart \/ Copy
           \/ (\E p \in Procs : Open(p)) \/ (\E j \in Jobs : IoctlSet(j))
  BY <1>1, <1>2 DEF Running, Release, IoctlReset, IoctlStart, Open, IoctlSet, Copy,
     call, waitq, list, handler
<1>3. CASE \/ \E n \in 0 .. MSGSIZE, nb \in BOOLEAN : Read(n, nb)
           \/ Select \/ Signal \/ SelectTimeout
  BY <1>3 DEF Read, Return, Select, Signal, SelectTimeout, waitq, list, handler
<1>4. CASE Lock
  BY <1>4 DEF Lock, waitq, handler
<1>5. CASE LockInterrupted
  BY <1>5 DEF LockInterrupted, Places, waitq, handler
<1>6. CASE Pop
  <2>1. queue # <<>> => Head(queue) # NULL
    BY NullAssumption
  <2> QED
    BY <1>6, <2>1 DEF Pop, waitq, handler
<1>7. CASE Avail \/ Availed \/ WakeUp \/ SelectWakeUp \/ FreeCurrent
  BY <1>7 DEF Avail, Availed, WakeUp, SelectWakeUp, FreeCurrent, Dequeue, Return,
     Continue, waitq, list, handler
<1>8. CASE Wait \/ Poll
  BY <1>8 DEF Wait, Poll, Dequeue, list, handler
<1>9. CASE Waiting \/ Polled
  BY <1>9 DEF Waiting, Polled, Return, Continue, list, handler
<1>10. CASE IsrStatus \/ IsrCandidate \/ IsrAck \/ IsrLock \/ IsrAdd
  BY <1>10 DEF IsrStatus, IsrCandidate, IsrAck, IsrLock, IsrAdd, call, waitq, list
<1>11. CASE IsrWake
  BY <1>11 DEF IsrWake, call, list
<1>12. CASE UNCHANGED vars
  BY <1>1, <1>12 DEF vars, call, waitq, list, handler
<1> QED
  BY <1>2, <1>3, <1>4, <1>5, <1>6, <1>7, <1>8, <1>9, <1>10, <1>11, <1>12
  DEF Next, Syscall, ThreadStep, IsrStep
-----------------------------------------------------------------------------
(***************************************************************************)
(* What the list operations of the kernel do to the sequence.              *)
(***************************************************************************)
LEMMA TailFacts ==
    ASSUME NEW S, NEW q \in Seq(S), q # <<>>
    PROVE  /\ Head(q) = q[1] /\ 1 \in DOMAIN q
           /\ Tail(q) \in Seq(S)
           /\ Len(q) \in Nat /\ Len(Tail(q)) = Len(q) - 1
           /\ DOMAIN q = 1 .. Len(q) /\ DOMAIN Tail(q) = 1 .. (Len(q) - 1)
           /\ \A i \in DOMAIN Tail(q) : i + 1 \in DOMAIN q /\ Tail(q)[i] = q[i + 1]
OBVIOUS

\* The elements of a sequence to which one is appended.
LEMMA AppendFacts ==
    ASSUME NEW S, NEW q \in Seq(S), NEW e \in S
    PROVE  /\ Append(q, e) \in Seq(S)
           /\ Len(q) \in Nat /\ Len(Append(q, e)) = Len(q) + 1
           /\ DOMAIN q = 1 .. Len(q) /\ DOMAIN Append(q, e) = 1 .. (Len(q) + 1)
           /\ \A i \in DOMAIN q : Append(q, e)[i] = q[i]
           /\ Append(q, e)[Len(q) + 1] = e
OBVIOUS

(***************************************************************************)
(* Most steps change neither a message nor its owner.  The exceptions are  *)
(* named here, Pop only when there is a message to take.                   *)
(***************************************************************************)
Quiet ==
    /\ UNCHANGED <<queue, heap, isrMsg, raised, taken, got>>
    /\ Current' = Current /\ Unread' = Unread
    /\ Current # {} => msg' = msg

\* All but six kinds of steps change neither a message nor its owner.
LEMMA QuietOrNot ==
    ASSUME TypeOK, Places, [Next]_vars
    PROVE  \/ Quiet
           \/ Pop /\ queue # <<>>
           \/ Copy \/ FreeCurrent
           \/ IsrStatus \/ IsrCandidate \/ IsrAdd
<1>0. back \in {"user", "availed", "waiting", "polled"}
  BY DEF TypeOK
<1> USE <1>0 DEF Quiet, Current, Unread, Dangling
<1>1. CASE UNCHANGED <<pc, back, list, isrMsg, raised, taken, got>>
  BY <1>1 DEF list
<1>2. CASE \/ Running \/ Release \/ IoctlReset \/ IoctlStart
           \/ (\E p \in Procs : Open(p)) \/ (\E j \in Jobs : IoctlSet(j))
           \/ IsrAck
  BY <1>1, <1>2 DEF Running, Release, IoctlReset, IoctlStart, Open, IoctlSet,
     IsrAck, call, handler, history
<1>3. CASE IsrLock \/ IsrWake
  BY <1>3 DEF IsrLock, IsrWake, call, list, history
<1>4. CASE \/ \E n \in 0 .. MSGSIZE, nb \in BOOLEAN : Read(n, nb)
           \/ Select \/ Signal \/ SelectTimeout
  BY <1>4 DEF Read, Return, Select, Signal, SelectTimeout, list, handler, history
<1>5. CASE Lock
  BY <1>5 DEF Lock, handler, history
<1>6. CASE LockInterrupted \/ (Pop /\ queue = <<>>)
  <2>1. Current = {} /\ UNCHANGED queue
    BY <1>6 DEF LockInterrupted, Pop, Places
  <2>2. Current' = {}
    BY <1>6 DEF LockInterrupted, Pop
  <2> QED
    BY <1>6, <2>1, <2>2 DEF LockInterrupted, Pop, handler, history
<1>7. CASE Avail \/ Availed \/ Wait \/ Waiting \/ WakeUp
  BY <1>7 DEF Avail, Availed, Wait, Waiting, WakeUp, Dequeue, Return, Continue,
     list, handler, history
<1>8. CASE Poll \/ Polled \/ SelectWakeUp
  BY <1>8 DEF Poll, Polled, SelectWakeUp, Dequeue, Return, Continue, list, handler,
     history
<1>9. CASE UNCHANGED vars
  BY <1>1, <1>9 DEF vars, call, handler, history
<1> QED
  BY <1>2, <1>3, <1>4, <1>5, <1>6, <1>7, <1>8, <1>9
  DEF Next, Syscall, ThreadStep, IsrStep

(***************************************************************************)
(* What the exceptions do, in terms of who owns which message.             *)
(***************************************************************************)
LEMMA PopFacts ==
    ASSUME TypeOK, Places, Pop, queue # <<>>
    PROVE  /\ Current = {} /\ Current' = {Head(queue)}
           /\ Unread = 0 /\ Unread' = 1
           /\ queue' = Tail(queue) /\ msg' = Head(queue)
           /\ UNCHANGED <<heap, isrMsg, raised, taken, got>>
<1>1. Head(queue) # NULL
  BY NullAssumption DEF TypeOK
<1>2. back \in {"user", "availed", "waiting", "polled"}
  BY DEF TypeOK
<1> QED
  BY <1>1, <1>2 DEF Pop, Places, Current, Unread, Dangling, handler, history

\* Copying marks the current message read and moves nothing.
LEMMA CopyFacts ==
    ASSUME TypeOK, Places, Copy
    PROVE  /\ Current = {msg} /\ Current' = {msg} /\ msg' = msg
           /\ Unread = 1 /\ Unread' = 0
           /\ taken' = taken + 1 /\ got' = heap[msg].number
           /\ UNCHANGED <<queue, heap, isrMsg, raised>>
BY DEF Copy, Places, Current, Unread, Dangling, list, handler

\* Freeing takes the current message from the reader, and from nobody else.
LEMMA FreeFacts ==
    ASSUME TypeOK, Places, FreeCurrent
    PROVE  /\ Current = {msg} /\ Current' = {} /\ msg \in Addr
           /\ Unread = 0 /\ Unread' = 0
           /\ heap' = [heap EXCEPT ![msg] = Free]
           /\ UNCHANGED <<queue, isrMsg, raised, taken, got>>
<1>1. msg \in Addr \cup {NULL}
  BY DEF TypeOK
<1> QED
  BY <1>1 DEF FreeCurrent, Dequeue, Places, Current, Unread, Dangling, handler,
     history

\* The handler never touches the current message.
LEMMA IsrFacts ==
    ASSUME TypeOK, Places, IsrStatus \/ IsrCandidate \/ IsrAdd
    PROVE  Current' = Current /\ Unread' = Unread /\ msg' = msg
BY DEF IsrStatus, IsrCandidate, IsrAdd, Current, Unread, Dangling, call
-----------------------------------------------------------------------------
(***************************************************************************)
(* Ownership.  Each exception moves a message from one owner to the next:  *)
(* nobody -> handler -> list -> current -> nobody.                         *)
(***************************************************************************)
LEMMA OwnershipStep ==
    ASSUME TypeOK, Places, Ownership, [Next]_vars
    PROVE  Ownership'
<1>0. /\ queue \in Seq(Addr)
      /\ heap \in [Addr -> Message \cup {Free}]
      /\ isrMsg \in Addr \cup {NULL}
  BY DEF TypeOK
<1>1. CASE Quiet
  BY <1>1 DEF Quiet, Ownership, Allocated, Queued, InHand
<1>2. CASE Pop /\ queue # <<>>
  <2>1. /\ Current = {} /\ Current' = {Head(queue)}
        /\ queue' = Tail(queue)
        /\ UNCHANGED <<heap, isrMsg>>
    BY <1>2, PopFacts
  <2>2. Queued = {Head(queue)} \cup Queued'
    <3>1. \A i \in DOMAIN queue : i = 1 \/ i - 1 \in DOMAIN Tail(queue)
      BY <1>0, <1>2, TailFacts
    <3>2. \A i \in DOMAIN queue : i = 1 \/ Tail(queue)[i - 1] = queue[i]
      BY <1>0, <1>2, <3>1, TailFacts
    <3>3. Queued \subseteq {Head(queue)} \cup Queued'
      BY <1>0, <1>2, <2>1, <3>1, <3>2, TailFacts DEF Queued
    <3>4. {Head(queue)} \cup Queued' \subseteq Queued
      BY <1>0, <1>2, <2>1, TailFacts DEF Queued
    <3> QED
      BY <3>3, <3>4
  <2>3. Head(queue) \notin Queued'
    BY <1>0, <1>2, <2>1, TailFacts DEF Queued, Ownership
  <2>4. \A i, j \in DOMAIN queue' : queue'[i] = queue'[j] => i = j
    BY <1>0, <1>2, <2>1, TailFacts DEF Ownership
  <2> QED
    BY <2>1, <2>2, <2>3, <2>4 DEF Ownership, Allocated, InHand
<1>3. CASE Copy
  BY <1>3, CopyFacts DEF Ownership, Allocated, Queued, InHand
<1>4. CASE FreeCurrent
  <2>1. /\ Current = {msg} /\ Current' = {} /\ msg \in Addr
        /\ heap' = [heap EXCEPT ![msg] = Free]
        /\ UNCHANGED <<queue, isrMsg>>
    BY <1>4, FreeFacts
  <2>2. Allocated' = Allocated \ {msg}
    BY <1>0, <2>1 DEF Allocated
  <2> QED
    BY <2>1, <2>2 DEF Ownership, Queued, InHand
<1>5. CASE IsrStatus
  <2>1. PICK a \in Addr :
          /\ heap[a] = Free /\ isrMsg' = a
          /\ heap' = [heap EXCEPT ![a] = [status |-> status,
                        nonce_candidate |-> 0, number |-> raised + 1]]
    BY <1>5 DEF IsrStatus
  <2>2. [status |-> status, nonce_candidate |-> 0, number |-> raised + 1]
           \in Message
    BY NAssumption DEF TypeOK, Device!TypeOK, Message, Device!Nonces
  <2>3. Allocated' = Allocated \cup {a} /\ a \notin Allocated
    BY <1>0, <2>1, <2>2, FreeAssumption DEF Allocated
  <2>4. InHand = {} /\ InHand' = {a}
    BY <1>5, <2>1, NullAssumption DEF IsrStatus, Places, InHand
  <2>5. Current' = Current /\ queue' = queue
    BY <1>5, IsrFacts DEF IsrStatus
  <2> QED
    BY <2>3, <2>4, <2>5 DEF Ownership, Queued
<1>6. CASE IsrCandidate
  <2>1. isrMsg \in Allocated /\ isrMsg \in Addr
    BY <1>6 DEF IsrCandidate, TypeOK, Places, Ownership, InHand
  <2>2. /\ heap[isrMsg] \in Message /\ nonce_candidate \in Device!Nonces
    BY <2>1, MessageFields DEF TypeOK, Device!TypeOK
  <2>3. [heap[isrMsg] EXCEPT !.nonce_candidate = nonce_candidate] \in Message
    BY <2>2 DEF Message
  <2>4. Allocated' = Allocated
    BY <1>0, <1>6, <2>1, <2>3, FreeAssumption DEF IsrCandidate, Allocated
  <2>5. Current' = Current /\ UNCHANGED <<queue, isrMsg>>
    BY <1>6, IsrFacts DEF IsrCandidate
  <2> QED
    BY <2>4, <2>5 DEF Ownership, Queued, InHand
<1>7. CASE IsrAdd
  <2>1. isrMsg \in Addr /\ isrMsg # NULL
    BY <1>0, <1>7 DEF IsrAdd, Places
  <2>2. /\ queue' = Append(queue, isrMsg)
        /\ InHand = {isrMsg} /\ InHand' = {}
        /\ heap' = heap /\ Current' = Current
    BY <1>7, <2>1, IsrFacts DEF IsrAdd, InHand
  <2>3. Queued' = Queued \cup {isrMsg}
    BY <1>0, <2>1, <2>2, AppendFacts DEF Queued
  <2>4. \A i, j \in DOMAIN queue' : queue'[i] = queue'[j] => i = j
    <3>1. \A i \in DOMAIN queue : queue[i] # isrMsg
      BY <2>2 DEF Ownership, Queued
    <3> QED
      BY <1>0, <2>1, <2>2, <3>1, AppendFacts DEF Ownership
  <2> QED
    BY <2>2, <2>3, <2>4 DEF Ownership, Allocated
<1> QED
  BY <1>1, <1>2, <1>3, <1>4, <1>5, <1>6, <1>7, QuietOrNot
-----------------------------------------------------------------------------
(***************************************************************************)
(* Order.  The numbers of the messages are counted along the same way; the *)
(* message that a step writes or frees is not one of the others because    *)
(* each has one owner.                                                     *)
(***************************************************************************)
LEMMA InOrderStep ==
    ASSUME TypeOK, Places, Ownership, InOrder, [Next]_vars
    PROVE  InOrder'
<1>0. /\ queue \in Seq(Addr) /\ Len(queue) \in Nat
      /\ heap \in [Addr -> Message \cup {Free}]
      /\ isrMsg \in Addr \cup {NULL}
      /\ taken \in Nat /\ raised \in Nat
      /\ DOMAIN queue = 1 .. Len(queue)
      /\ \A i \in DOMAIN queue : queue[i] \in Addr
  BY DEF TypeOK
<1>1. CASE Quiet
  BY <1>1 DEF Quiet, InOrder, InHand, Held, Current
<1>2. CASE Pop /\ queue # <<>>
  <2>1. /\ Current = {} /\ Current' = {Head(queue)}
        /\ Unread = 0 /\ Unread' = 1
        /\ queue' = Tail(queue) /\ msg' = Head(queue)
        /\ UNCHANGED <<heap, isrMsg, raised, taken, got>>
    BY <1>2, PopFacts
  <2>2. heap[Head(queue)].number = taken + 1
    BY <1>0, <1>2, <2>1, TailFacts DEF InOrder
  <2>3. ASSUME NEW i \in DOMAIN queue'
        PROVE  heap[queue'[i]].number = taken + 1 + i
    <3>1. i + 1 \in DOMAIN queue /\ queue'[i] = queue[i + 1] /\ i \in Nat
      BY <1>0, <1>2, <2>1, <2>3, TailFacts
    <3>2. heap[queue[i + 1]].number = taken + Unread + (i + 1)
      BY <3>1 DEF InOrder
    <3> QED
      BY <1>0, <2>1, <3>1, <3>2
  <2>4. Len(queue') = Len(queue) - 1
    BY <1>0, <1>2, <2>1, TailFacts
  <2>5. Held' = Held /\ Held \in Nat /\ InHand' = InHand
    BY <2>1 DEF Held, InHand
  <2>6. raised' = taken' + Unread' + Len(queue') + Held'
    <3>1. raised = taken + Unread + Len(queue) + Held
      BY DEF InOrder
    <3>2. raised = taken + 1 + (Len(queue) - 1) + Held
      BY <1>0, <2>1, <2>5, <3>1
    <3> QED
      BY <2>1, <2>4, <2>5, <3>2
  <2> QED
    BY <2>1, <2>2, <2>3, <2>5, <2>6 DEF InOrder
<1>3. CASE Copy
  <2>1. /\ Current = {msg} /\ Current' = {msg} /\ msg' = msg
        /\ Unread = 1 /\ Unread' = 0
        /\ taken' = taken + 1 /\ got' = heap[msg].number
        /\ UNCHANGED <<queue, heap, isrMsg, raised>>
    BY <1>3, CopyFacts
  <2>2. heap[msg].number = taken + 1
    BY <2>1 DEF InOrder
  <2>3. Held' = Held /\ Held \in Nat /\ InHand' = InHand
    BY <2>1 DEF Held, InHand
  <2> QED
    BY <1>0, <2>1, <2>2, <2>3 DEF InOrder
<1>4. CASE FreeCurrent
  <2>1. /\ Current = {msg} /\ Current' = {} /\ msg \in Addr
        /\ Unread = 0 /\ Unread' = 0
        /\ heap' = [heap EXCEPT ![msg] = Free]
        /\ UNCHANGED <<queue, isrMsg, raised, taken, got>>
    BY <1>4, FreeFacts
  <2>2. \A a \in Addr : a # msg => heap'[a] = heap[a]
    BY <1>0, <2>1
  <2>3. \A i \in DOMAIN queue : queue[i] # msg
    BY <2>1 DEF Ownership, Queued
  <2>4. isrMsg # NULL => isrMsg # msg
    BY <2>1 DEF Ownership, InHand
  <2> QED
    BY <1>0, <2>1, <2>2, <2>3, <2>4 DEF InOrder, InHand, Held
<1>5. CASE IsrStatus
  <2>1. PICK a \in Addr :
          /\ heap[a] = Free /\ isrMsg' = a
          /\ heap' = [heap EXCEPT ![a] = [status |-> status,
                        nonce_candidate |-> 0, number |-> raised + 1]]
    BY <1>5 DEF IsrStatus
  <2>2. /\ isrMsg = NULL /\ raised' = raised + 1 /\ a # NULL
        /\ UNCHANGED <<queue, taken, got>>
        /\ Current' = Current /\ Unread' = Unread /\ msg' = msg
    BY <1>5, IsrFacts, NullAssumption DEF IsrStatus, Places
  <2>3. Held = 0 /\ Held' = 1
    BY <2>1, <2>2 DEF Held
  <2>4. heap'[a].number = raised' /\ \A b \in Addr : b # a => heap'[b] = heap[b]
    BY <1>0, <2>1, <2>2
  <2>5. /\ \A i \in DOMAIN queue : queue[i] # a
        /\ Current # {} => msg # a /\ msg \in Addr
    BY <2>1 DEF Ownership, Allocated, Queued, Current
  <2>6. Unread \in Nat
    BY DEF Unread
  <2> QED
    BY <1>0, <2>1, <2>2, <2>3, <2>4, <2>5, <2>6 DEF InOrder
<1>6. CASE IsrCandidate
  <2>1. isrMsg \in Addr /\ heap[isrMsg] \in Message
    BY <1>6, MessageFields DEF IsrCandidate, TypeOK, Places, Ownership, InHand
  <2>2. \A b \in Addr : heap'[b].number = heap[b].number
    <3>1. heap' = [heap EXCEPT ![isrMsg] =
                      [heap[isrMsg] EXCEPT !.nonce_candidate = nonce_candidate]]
      BY <1>6 DEF IsrCandidate
    <3>2. [heap[isrMsg] EXCEPT !.nonce_candidate = nonce_candidate].number
             = heap[isrMsg].number
      BY <2>1 DEF Message
    <3> QED
      BY <1>0, <2>1, <3>1, <3>2
  <2>3. /\ UNCHANGED <<queue, isrMsg, raised, taken, got>>
        /\ Current' = Current /\ Unread' = Unread /\ msg' = msg
    BY <1>6, IsrFacts DEF IsrCandidate, history
  <2>4. Current # {} => msg \in Addr
    BY DEF Current, TypeOK
  <2> QED
    BY <1>0, <2>1, <2>2, <2>3, <2>4 DEF InOrder, InHand, Held
<1>7. CASE IsrAdd
  <2>1. isrMsg \in Addr /\ isrMsg # NULL
    BY <1>0, <1>7 DEF IsrAdd, Places
  <2>2. /\ queue' = Append(queue, isrMsg) /\ isrMsg' = NULL
        /\ UNCHANGED <<heap, raised, taken, got>>
        /\ Current' = Current /\ Unread' = Unread /\ msg' = msg
    BY <1>7, IsrFacts DEF IsrAdd, history
  <2>3. Held = 1 /\ Held' = 0 /\ InHand = {isrMsg} /\ InHand' = {}
    BY <2>1, <2>2 DEF Held, InHand
  <2>4. Unread \in Nat
    BY DEF Unread
  <2>5. raised = taken + Unread + (Len(queue) + 1)
    BY <1>0, <2>3, <2>4 DEF InOrder
  <2>6. \A i \in DOMAIN queue' : heap[queue'[i]].number = taken + Unread + i
    BY <1>0, <2>1, <2>2, <2>3, <2>5, AppendFacts DEF InOrder
  <2>7. Len(queue') = Len(queue) + 1
    BY <1>0, <2>1, <2>2, AppendFacts
  <2> QED
    BY <1>0, <2>2, <2>3, <2>4, <2>5, <2>6, <2>7 DEF InOrder
<1> QED
  BY <1>1, <1>2, <1>3, <1>4, <1>5, <1>6, <1>7, QuietOrNot
-----------------------------------------------------------------------------
(***************************************************************************)
(* The inductive invariant, and what follows from it.                      *)
(***************************************************************************)
Invariant ==
    /\ TypeOK /\ Places /\ Ownership /\ InOrder /\ Watch /\ ClosedMeansStopped

\* The invariant holds initially.
LEMMA InitInvariant == Init => Invariant
<1> SUFFICES ASSUME Init PROVE Invariant
  OBVIOUS
<1>1. Device!TypeOK
  <2>1. irq \in BOOLEAN /\ external_irq \in BOOLEAN
    BY Zenon DEF Init, Device!Init
  <2>2. job \in Jobs /\ 0 \in Device!Nonces
    BY NAssumption DEF Init, Device!Init, Device!Nonces
  <2> QED
    BY <2>1, <2>2 DEF Init, Device!Init, Device!TypeOK
<1>2. TypeOK
  <2>1. ThreadTypes /\ MessageTypes
    BY SizeAssumption DEF Init, ThreadTypes, MessageTypes, ThreadPlaces, IsrPlaces
  <2>2. starts \in Nat /\ raised \in Nat /\ taken \in Nat /\ got \in Nat
    BY DEF Init
  <2>3. FlagTypes /\ clean \in BOOLEAN /\ reported \in BOOLEAN
    BY Zenon DEF Init, FlagTypes
  <2> QED
    BY <1>1, <2>1, <2>2, <2>3 DEF TypeOK, ThreadTypes, FlagTypes, MessageTypes
<1>3. Places /\ Watch
  BY DEF Init, Places, Watch, OnQueue, AboutToSleep
<1>4. /\ Current = {} /\ InHand = {} /\ Queued = {} /\ Allocated = {}
      /\ Unread = 0 /\ Held = 0
  BY DEF Init, Current, InHand, Queued, Allocated, Unread, Held
<1>5. Ownership /\ InOrder
  BY <1>4 DEF Init, Ownership, InOrder
<1>6. ClosedMeansStopped
  BY DEF Init, Device!Init, ClosedMeansStopped
<1> QED
  BY <1>2, <1>3, <1>5, <1>6 DEF Invariant

\* Every step keeps the invariant.
LEMMA StepInvariant == Invariant /\ [Next]_vars => Invariant'
BY TypeStep, PlacesStep, OwnershipStep, InOrderStep, WatchStep, ClosedStep
DEF Invariant

\* The invariant behind all theorems on the driver of sha256_accel.c.
THEOREM Inductive == Spec => []Invariant
BY InitInvariant, StepInvariant, PTL DEF Spec

(***************************************************************************)
(* Every variable of the driver keeps its type, whatever the system calls, *)
(* the handler and the hardware do: no field of a message is ever read     *)
(* from an address that holds none.                                        *)
(***************************************************************************)
THEOREM TypeCorrect == Spec => []TypeOK
BY Inductive, PTL DEF Invariant

(***************************************************************************)
(* No message is leaked, freed twice or used after it was freed, although  *)
(* sha256_accel_msg is not protected by the mutex.                         *)
(***************************************************************************)
THEOREM OneOwner == Spec => []Ownership
BY Inductive, PTL DEF Invariant

(***************************************************************************)
(* Every interrupt gives one message, and read hands them over in order,   *)
(* each at most once and without a gap.                                    *)
(***************************************************************************)
THEOREM Fifo == Spec => []InOrder
BY Inductive, PTL DEF Invariant

(***************************************************************************)
(* A thread does not sleep on a list that is not empty, unless it is being *)
(* woken.                                                                  *)
(***************************************************************************)
THEOREM WakeupKept == Spec => []NoLostWakeup
<1>1. Invariant => NoLostWakeup
  BY DEF Invariant, Watch, AboutToSleep, NoLostWakeup
<1> QED
  BY <1>1, Inductive, PTL

(***************************************************************************)
(* While nobody has the device open the engine does not compute.           *)
(***************************************************************************)
THEOREM ClosedIsStopped == Spec => []ClosedMeansStopped
BY Inductive, PTL DEF Invariant
-----------------------------------------------------------------------------
(***************************************************************************)
(* The end of a search.  Of a search that began with no interrupt in       *)
(* progress, the end raises the line, and until the handler reads the      *)
(* status no acknowledge can be on its way that would lower it.            *)
(***************************************************************************)
Computing == status \in {"BUSY", "FIN"}
Unreported == Ended /\ ~reported

EndHeard ==
    /\ reported => Ended
    /\ clean /\ Computing => ~irq /\ ~external_irq
    /\ clean /\ Unreported => irq \/ external_irq
    /\ clean /\ (Computing \/ Unreported) => isr \notin {"candidate", "ack"}

\* A clock edge: the end of the search, or nothing that concerns it.
LEMMA EdgeHeard ==
    ASSUME Device!TypeOK, EndHeard, NEW a \in BOOLEAN, Device!Edge({}, a),
           a => isr = "ack", isr' = isr \/ isr' \notin {"candidate", "ack"},
           UNCHANGED <<clean, reported>>
    PROVE  EndHeard'
<1>1. /\ external_irq' = (~a /\ (external_irq \/ irq))
      /\ \/ status' = status /\ irq' = FALSE
         \/ status = "BUSY" /\ status' = "FIN" /\ irq' = FALSE
         \/ Computing /\ Ended' /\ irq' = TRUE
  BY DEF Device!Edge, Device!Latch, Device!Stay, Device!Drain, Device!Exhaust, Device!Report,
     Computing, Ended
<1>2. irq \in BOOLEAN /\ external_irq \in BOOLEAN
  BY DEF Device!TypeOK
<1>3. ASSUME status' = status, irq' = FALSE PROVE EndHeard'
  BY <1>1, <1>2, <1>3 DEF EndHeard, Computing, Unreported, Ended
<1>4. ASSUME status = "BUSY", status' = "FIN", irq' = FALSE PROVE EndHeard'
  BY <1>1, <1>2, <1>4 DEF EndHeard, Computing, Unreported, Ended
<1>5. ASSUME Computing, Ended', irq' = TRUE PROVE EndHeard'
  BY <1>1, <1>2, <1>5 DEF EndHeard, Computing, Unreported, Ended
<1> QED
  BY <1>1, <1>3, <1>4, <1>5

\* A search that is reset is not to be reported; one that begins forgets the last.
LEMMA HeardStep ==
    ASSUME Device!TypeOK, reported \in BOOLEAN, EndHeard, [Next]_vars
    PROVE  EndHeard'
<1>1. CASE UNCHANGED <<status, irq, external_irq, isr, clean, reported>>
  BY <1>1 DEF EndHeard, Computing, Unreported, Ended
<1>2. CASE Running \/ IsrAck
  <2>1. CASE Running
    <3>1. Device!Edge({}, FALSE) /\ UNCHANGED <<isr, clean, reported>>
      BY <2>1 DEF Running, handler, history
    <3> QED
      BY <3>1, EdgeHeard
  <2>2. CASE IsrAck
    <3>1. /\ Device!Edge({}, TRUE) /\ isr = "ack" /\ isr' = "lock"
          /\ UNCHANGED <<clean, reported>>
      BY <2>2 DEF IsrAck, history
    <3> QED
      BY <3>1, EdgeHeard
  <2> QED
    BY <1>2, <2>1, <2>2
<1>3. CASE Release \/ IoctlReset
  <2>1. status' = "RDY" /\ reported' = (reported /\ status' = status)
    BY <1>3 DEF Release, IoctlReset, Control, Device!Edge, Device!Reset
  <2>2. ~reported'
    BY <2>1 DEF EndHeard, Ended
  <2> QED
    BY <2>1, <2>2 DEF EndHeard, Computing, Unreported, Ended
<1>4. CASE IoctlStart
  <2>1. /\ Device!Edge({"RUN"}, FALSE) /\ reported' = (reported /\ status' = status)
        /\ isr' = isr
        /\ clean' = IF status \in {"RDY", "FOUND"}
                    THEN ~irq /\ ~external_irq /\ isr \notin {"candidate", "ack"}
                    ELSE clean
    BY <1>4 DEF IoctlStart, Control, handler
  <2>2. CASE status \in {"RDY", "FOUND"}
    <3>1. status' = "BUSY" /\ irq' = FALSE /\ external_irq' = (external_irq \/ irq)
      BY <2>1, <2>2 DEF Device!Edge, Device!Latch, Device!Begin, Device!Stay, Device!Drain,
         Device!Exhaust, Device!Report
    <3>2. ~reported'
      <4>1. reported' => reported /\ status' = status
        BY <2>1
      <4> QED
        BY <2>2, <3>1, <4>1 DEF EndHeard, Ended
    <3>3. ~Ended' /\ ~Unreported'
      BY <3>1 DEF Ended, Unreported
    <3> QED
      BY <2>1, <2>2, <3>1, <3>2, <3>3 DEF EndHeard
  <2>3. CASE status \notin {"RDY", "FOUND"}
    <3>1. Device!Edge({}, FALSE)
      BY <2>1, <2>3 DEF Device!Edge
    <3>2. reported' = reported
      <4>1. Ended => status' = status
        BY <2>3, <3>1 DEF Ended, Device!Edge, Device!Stay, Device!Drain, Device!Exhaust,
           Device!Report
      <4>2. reported => status' = status
        BY <4>1 DEF EndHeard
      <4>3. reported' = (reported /\ status' = status)
        BY <2>1
      <4>4. (reported /\ status' = status) = reported
        BY <4>2, Zenon
      <4> QED
        BY <4>3, <4>4, Zenon
    <3> QED
      BY <2>1, <2>3, <3>1, <3>2, EdgeHeard
  <2> QED
    BY <2>2, <2>3
<1>5. CASE IsrStatus
  <2>1. /\ isr = "idle" /\ external_irq /\ isr' = "candidate"
        /\ reported' = (reported \/ Ended)
        /\ UNCHANGED <<status, irq, external_irq, clean>>
    BY <1>5 DEF IsrStatus, engine
  <2> QED
    BY <2>1 DEF EndHeard, Computing, Unreported, Ended
<1>6. CASE IsrCandidate
  BY <1>6 DEF IsrCandidate, engine, history, EndHeard, Computing, Unreported, Ended
<1>7. CASE IsrLock \/ IsrAdd \/ IsrWake
  BY <1>7 DEF IsrLock, IsrAdd, IsrWake, engine, history, EndHeard, Computing, Unreported, Ended
<1>8. CASE \/ \E p \in Procs : Open(p)
           \/ \E j \in Jobs : IoctlSet(j)
           \/ \E n \in 0 .. MSGSIZE, nb \in BOOLEAN : Read(n, nb)
           \/ Select \/ Signal \/ SelectTimeout
  BY <1>1, <1>8 DEF Open, IoctlSet, Device!Configure, Read, Select, Signal, SelectTimeout,
     engine, handler, history
<1>9. CASE ThreadStep
  BY <1>1, <1>9 DEF ThreadStep, Lock, LockInterrupted, Pop, Avail, Availed, Wait, Waiting,
     WakeUp, Copy, FreeCurrent, Poll, Polled, SelectWakeUp, engine, handler, history
<1>10. CASE UNCHANGED vars
  BY <1>1, <1>10 DEF vars, engine, handler, history
<1> QED
  BY <1>2, <1>3, <1>4, <1>5, <1>6, <1>7, <1>8, <1>9, <1>10 DEF Next, Syscall, IsrStep

(***************************************************************************)
(* No end of a search is lost between hardware and handler: if no older    *)
(* interrupt was in progress when the search began, then from its end on   *)
(* either the pulse or the interrupt line is up, so that the handler will  *)
(* run, or the handler has read the very status the search ended in.  What *)
(* is left to liveness is only that the handler runs.                      *)
(***************************************************************************)
THEOREM NoEndIsLost ==
    Spec => []((clean /\ Ended => reported \/ irq \/ external_irq) /\ (reported => Ended))
<1>1. Init => EndHeard
  BY DEF Init, Device!Init, EndHeard, Computing, Unreported, Ended
<1>2. Invariant => Device!TypeOK /\ reported \in BOOLEAN
  BY DEF Invariant, TypeOK
<1>3. EndHeard => (clean /\ Ended => reported \/ irq \/ external_irq) /\ (reported => Ended)
  BY DEF EndHeard, Unreported
<1> QED
  BY <1>1, <1>2, <1>3, HeardStep, Inductive, PTL DEF Spec
-----------------------------------------------------------------------------
(***************************************************************************)
(* The channel.  A sequence with one element in front, as Pending is while *)
(* the current message has not been read.                                  *)
(***************************************************************************)
LEMMA FrontFacts ==
    ASSUME NEW S, NEW s \in Seq(S), NEW e \in S
    PROVE  /\ <<e>> \o s # <<>>
           /\ Head(<<e>> \o s) = e /\ Tail(<<e>> \o s) = s
           /\ <<e>> \o s \in Seq(S) /\ Len(<<e>> \o s) = Len(s) + 1
           /\ (<<e>> \o s)[1] = e
           /\ \A i \in 1 .. Len(s) : (<<e>> \o s)[i + 1] = s[i]
           /\ \A d \in S : <<e>> \o Append(s, d) = Append(<<e>> \o s, d)
OBVIOUS

\* A sequence is its first element and, shifted by one, the rest.
LEMMA Cons ==
    ASSUME NEW S, NEW c \in Seq(S), NEW d \in Seq(S), NEW e \in S,
           Len(c) = Len(d) + 1, c[1] = e, \A i \in 1 .. Len(d) : c[i + 1] = d[i]
    PROVE  c = <<e>> \o d
<1>1. c # <<>> /\ Head(c) = e
  OBVIOUS
<1>2. Tail(c) = d
  OBVIOUS
<1>3. c = <<Head(c)>> \o Tail(c)
  BY <1>1
<1> QED
  BY <1>1, <1>2, <1>3

\* The contents of a list of messages, in a heap.
Contents(q, h) == [i \in DOMAIN q |-> h[q[i]]]

\* Contents are messages where the list holds only allocated addresses.
LEMMA ContentsType ==
    ASSUME NEW q \in Seq(Addr), NEW h, \A i \in DOMAIN q : h[q[i]] \in Message
    PROVE  Contents(q, h) \in Seq(Message)
BY DEF Contents

\* The contents of a list are those of its first element and of the rest.
LEMMA ContentsOfTail ==
    ASSUME NEW q \in Seq(Addr), NEW h, q # <<>>,
           \A i \in DOMAIN q : h[q[i]] \in Message
    PROVE  Contents(q, h) = <<h[Head(q)]>> \o Contents(Tail(q), h)
<1> DEFINE c == Contents(q, h)
           d == Contents(Tail(q), h)
<1>0. /\ Head(q) = q[1] /\ Tail(q) \in Seq(Addr)
      /\ Len(Tail(q)) = Len(q) - 1 /\ Len(q) \in Nat \ {0}
      /\ \A i \in DOMAIN Tail(q) : i + 1 \in DOMAIN q /\ Tail(q)[i] = q[i + 1]
  BY TailFacts
<1>1. c \in Seq(Message) /\ Len(c) = Len(q) /\ \A i \in DOMAIN q : c[i] = h[q[i]]
  BY DEF Contents
<1>2. /\ d \in Seq(Message) /\ Len(d) = Len(q) - 1
      /\ \A i \in 1 .. Len(q) - 1 : d[i] = h[q[i + 1]]
  BY <1>0 DEF Contents
<1>3. h[q[1]] \in Message
  BY <1>0
<1> HIDE DEF c, d
<1>4. \A i \in 1 .. Len(d) : c[i + 1] = d[i]
  BY <1>0, <1>1, <1>2
<1> DEFINE e == h[q[1]]
<1>5. e \in Message /\ c[1] = e /\ Len(c) = Len(d) + 1
  BY <1>0, <1>1, <1>2, <1>3
<1> HIDE DEF e
<1>6. c \in Seq(Message) /\ d \in Seq(Message)
  BY <1>1, <1>2
<1>7. c = <<e>> \o d
  BY <1>4, <1>5, <1>6, Cons
<1> QED
  BY <1>0, <1>7 DEF c, d, e

\* A message more at the end of the list is one more at the end of the contents.
LEMMA ContentsOfAppend ==
    ASSUME NEW q \in Seq(Addr), NEW h, NEW a \in Addr,
           \A i \in DOMAIN q : h[q[i]] \in Message, h[a] \in Message
    PROVE  Contents(Append(q, a), h) = Append(Contents(q, h), h[a])
<1> DEFINE c == Contents(Append(q, a), h)
           d == Contents(q, h)
<1>0. /\ Len(q) \in Nat /\ Append(q, a) \in Seq(Addr)
      /\ Len(Append(q, a)) = Len(q) + 1 /\ Append(q, a)[Len(q) + 1] = a
      /\ \A i \in DOMAIN q : Append(q, a)[i] = q[i]
  BY AppendFacts
<1>1. /\ c \in Seq(Message) /\ Len(c) = Len(q) + 1 /\ c[Len(q) + 1] = h[a]
      /\ \A i \in 1 .. Len(q) : c[i] = h[q[i]]
  BY <1>0 DEF Contents
<1>2. d \in Seq(Message) /\ Len(d) = Len(q) /\ \A i \in 1 .. Len(q) : d[i] = h[q[i]]
  BY DEF Contents
<1> HIDE DEF c, d
<1>3. c = Append(d, h[a])
  BY <1>0, <1>1, <1>2
<1> QED
  BY <1>3 DEF c, d

\* A heap that has changed elsewhere gives the same contents.
LEMMA ContentsKept ==
    ASSUME NEW q, NEW h, NEW g, \A i \in DOMAIN q : g[q[i]] = h[q[i]]
    PROVE  Contents(q, g) = Contents(q, h)
BY DEF Contents

\* What the channel holds where the current message is unread, and where it is not.
PendingParts ==
    /\ Contents(queue, heap) \in Seq(Message)
    /\ Unread = 1 => Pending = <<heap[msg]>> \o Contents(queue, heap)
    /\ Unread = 0 => Pending = Contents(queue, heap)
    /\ Unread \in {0, 1}

\* These are the parts of the channel whenever the driver is as it should be.
LEMMA PendingIs == TypeOK /\ Ownership => PendingParts
<1> SUFFICES ASSUME TypeOK, Ownership PROVE PendingParts
  OBVIOUS
<1>1. queue \in Seq(Addr) /\ \A i \in DOMAIN queue : heap[queue[i]] \in Message
  BY MessageFields DEF TypeOK, Ownership, Queued
<1>2. Contents(queue, heap) \in Seq(Message)
  BY <1>1, ContentsType
<1>3. \A s \in Seq(Message) : <<>> \o s = s
  OBVIOUS
<1> QED
  BY <1>2, <1>3 DEF PendingParts, Pending, Contents, Unread

(***************************************************************************)
(* Every step of the driver puts the message the handler holds, takes the  *)
(* first one, or leaves the channel alone.                                 *)
(***************************************************************************)
LEMMA ChannelStep ==
    ASSUME TypeOK, Places, Ownership, InOrder, TypeOK', Ownership', [Next]_vars
    PROVE  [Channel!Next]_Channel!vars
<1> DEFINE c == Contents(queue, heap)
<1>0. /\ queue \in Seq(Addr)
      /\ heap \in [Addr -> Message \cup {Free}]
      /\ isrMsg \in Addr \cup {NULL}
      /\ raised \in Nat /\ Held \in {0, 1}
      /\ \A i \in DOMAIN queue : queue[i] \in Addr /\ heap[queue[i]] \in Message
  BY MessageFields DEF TypeOK, Held, Ownership, Queued
<1>1. /\ c \in Seq(Message)
      /\ Unread = 1 => Pending = <<heap[msg]>> \o c
      /\ Unread = 0 => Pending = c
      /\ Unread \in {0, 1}
  BY PendingIs DEF PendingParts
<1>2. /\ Unread' = 1 => Pending' = <<heap'[msg']>> \o c'
      /\ Unread' = 0 => Pending' = c'
  <2>1. PendingParts'
    BY PendingIs, PTL
  <2> QED
    BY <2>1 DEF PendingParts
<1> HIDE DEF c
<1>3. ASSUME UNCHANGED <<raised, isrMsg, got>>, Pending' = Pending
      PROVE  UNCHANGED Channel!vars
  BY <1>3 DEF Channel!vars, Held
<1>4. CASE Quiet
  <2>1. UNCHANGED <<raised, isrMsg, got, queue, heap>> /\ Unread' = Unread
    BY <1>4 DEF Quiet
  <2>2. c' = c
    BY <2>1 DEF c
  <2>3. Unread = 1 => heap'[msg'] = heap[msg]
    BY <1>4 DEF Quiet, Unread
  <2> QED
    BY <1>1, <1>2, <1>3, <2>1, <2>2, <2>3
<1>5. CASE Pop /\ queue # <<>>
  <2>1. /\ Unread = 0 /\ Unread' = 1
        /\ queue' = Tail(queue) /\ msg' = Head(queue)
        /\ UNCHANGED <<heap, isrMsg, raised, got>>
    BY <1>5, PopFacts
  <2>2. c' = Contents(Tail(queue), heap)
    BY <2>1 DEF c
  <2>3. c = <<heap[Head(queue)]>> \o c'
    BY <1>0, <1>5, <2>2, ContentsOfTail DEF c
  <2> QED
    BY <1>1, <1>2, <1>3, <2>1, <2>3
<1>6. CASE Copy
  <2>1. /\ Unread = 1 /\ Unread' = 0 /\ Current = {msg}
        /\ got' = heap[msg].number
        /\ UNCHANGED <<queue, heap, isrMsg, raised>>
    BY <1>6, CopyFacts
  <2>2. heap[msg] \in Message
    BY <2>1, MessageFields DEF Ownership, Allocated
  <2>3. c' = c /\ UNCHANGED <<raised, Held>>
    BY <2>1 DEF c, Held
  <2>4. Pending # <<>> /\ Head(Pending) = heap[msg] /\ Tail(Pending) = c
    BY <1>1, <2>1, <2>2, FrontFacts
  <2>5. Channel!Take
    BY <1>2, <2>1, <2>3, <2>4 DEF Channel!Take
  <2> QED
    BY <2>5 DEF Channel!Next
<1>7. CASE FreeCurrent
  <2>1. /\ Current = {msg} /\ msg \in Addr
        /\ Unread = 0 /\ Unread' = 0
        /\ heap' = [heap EXCEPT ![msg] = Free]
        /\ UNCHANGED <<queue, isrMsg, raised, got>>
    BY <1>7, FreeFacts
  <2>2. \A i \in DOMAIN queue : heap'[queue[i]] = heap[queue[i]]
    BY <1>0, <2>1 DEF Ownership, Queued
  <2>3. c' = Contents(queue, heap')
    BY <2>1 DEF c
  <2>4. c' = c
    BY <2>2, <2>3, ContentsKept DEF c
  <2> QED
    BY <1>1, <1>2, <1>3, <2>1, <2>4
<1>8. CASE IsrStatus
  <2>1. PICK a \in Addr :
          /\ heap[a] = Free /\ isrMsg' = a
          /\ heap' = [heap EXCEPT ![a] = [status |-> status,
                        nonce_candidate |-> 0, number |-> raised + 1]]
    BY <1>8 DEF IsrStatus
  <2>2. /\ isrMsg = NULL /\ raised' = raised + 1 /\ a # NULL
        /\ UNCHANGED <<queue, got>>
        /\ Current' = Current /\ Unread' = Unread /\ msg' = msg
    BY <1>8, IsrFacts, NullAssumption DEF IsrStatus, Places
  <2>3. \A b \in Allocated : heap'[b] = heap[b]
    BY <1>0, <2>1 DEF Allocated
  <2>4. c' = c
    BY <2>2, <2>3, ContentsKept DEF c, Ownership, Queued
  <2>5. Unread = 1 => heap'[msg'] = heap[msg]
    BY <2>2, <2>3 DEF Unread, Current, Ownership
  <2>6. raised' - Held' = raised - Held
    BY <1>0, <2>1, <2>2 DEF Held
  <2> QED
    BY <1>1, <1>2, <2>2, <2>4, <2>5, <2>6 DEF Channel!vars
<1>9. CASE IsrCandidate
  <2>1. /\ UNCHANGED <<queue, isrMsg, raised, got>>
        /\ Current' = Current /\ Unread' = Unread /\ msg' = msg
        /\ InHand = {isrMsg}
        /\ heap' = [heap EXCEPT ![isrMsg] =
                       [heap[isrMsg] EXCEPT !.nonce_candidate = nonce_candidate]]
    BY <1>9, IsrFacts DEF IsrCandidate, history, Places, InHand
  <2>2. \A b \in Queued \cup Current : heap'[b] = heap[b]
    BY <1>0, <2>1 DEF Ownership, Allocated
  <2>3. c' = c
    <3>1. \A i \in DOMAIN queue : heap'[queue[i]] = heap[queue[i]]
      BY <2>2 DEF Queued
    <3>2. c' = Contents(queue, heap')
      BY <2>1 DEF c
    <3> QED
      BY <3>1, <3>2, ContentsKept DEF c
  <2>4. Unread = 1 => heap'[msg'] = heap[msg]
    BY <2>1, <2>2 DEF Unread, Current
  <2> QED
    BY <1>1, <1>2, <1>3, <2>1, <2>3, <2>4
<1>10. CASE IsrAdd
  <2>1. isrMsg \in Addr /\ isrMsg # NULL
    BY <1>0, <1>10 DEF IsrAdd, Places
  <2>2. /\ queue' = Append(queue, isrMsg) /\ isrMsg' = NULL
        /\ UNCHANGED <<heap, raised, got>>
        /\ Current' = Current /\ Unread' = Unread /\ msg' = msg
    BY <1>10, IsrFacts DEF IsrAdd, history
  <2>3. InHand = {isrMsg} /\ Held = 1 /\ Held' = 0
    BY <2>1, <2>2 DEF InHand, Held
  <2> DEFINE m == heap[isrMsg]
  <2>4. m \in Message /\ m.number = raised
    BY <2>1, <2>3, MessageFields DEF Ownership, InOrder
  <2>5. m = [status |-> m.status, nonce_candidate |-> m.nonce_candidate,
             number |-> raised' - Held']
    BY <1>0, <2>2, <2>3, <2>4 DEF Message
  <2>6. c' = Append(c, m)
    BY <1>0, <2>1, <2>2, <2>4, ContentsOfAppend DEF c
  <2>7. Unread = 1 => heap[msg] \in Message
    BY MessageFields DEF Unread, Current, Ownership, Allocated
  <2> HIDE DEF m
  <2>8. Pending' = Append(Pending, m)
    BY <1>1, <1>2, <2>2, <2>4, <2>6, <2>7, FrontFacts
  <2>9. raised' - Held' = (raised - Held) + 1
    BY <1>0, <2>2, <2>3
  <2>10. Channel!Put(m.status, m.nonce_candidate)
    BY <2>2, <2>5, <2>8, <2>9 DEF Channel!Put
  <2>11. /\ m.status \in {"RDY", "BUSY", "FIN", "IDLE", "FOUND"}
         /\ m.nonce_candidate \in Device!Nonces
    BY <2>4 DEF Message
  <2> QED
    BY <2>10, <2>11 DEF Channel!Next
<1> QED
  BY <1>4, <1>5, <1>6, <1>7, <1>8, <1>9, <1>10, QuietOrNot

(***************************************************************************)
(* List, current message and mutex implement the channel.                  *)
(***************************************************************************)
THEOREM ChannelImplemented == Spec => ImplementsChannel
<1>1. Init => Channel!Init
  BY DEF Init, Channel!Init, Pending, Unread, Current, Held
<1>2. Invariant /\ Invariant' /\ [Next]_vars => [Channel!Next]_Channel!vars
  BY ChannelStep DEF Invariant
<1> QED
  BY <1>1, <1>2, Inductive, PTL DEF Spec, ImplementsChannel, Channel!Spec
=============================================================================
