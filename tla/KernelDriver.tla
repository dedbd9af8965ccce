----------------------------- MODULE KernelDriver -----------------------------
(***************************************************************************)
(* The Linux driver kernel_module/sha256_accel.c on top of the accelerator *)
(* (Accel): the system calls of the process that has the device open, the  *)
(* interrupt handler, and the message list between them.                   *)
(*                                                                         *)
(* The device is opened by at most one process, whose system calls are     *)
(* made by one thread (ioctl, which touches no message, may come from any  *)
(* other thread of it).  The handler runs on another processor: its steps  *)
(* interleave with those of the thread, one access to a device register or *)
(* to shared memory at a time.  A thread in a system call is at pc; back   *)
(* is where sha256_accel_msg_dequeue returns to.                           *)
(***************************************************************************)
EXTENDS Integers, Sequences

CONSTANTS
    N, Jobs,      \* of the accelerator
    Procs,        \* the processes that may open the device
    Addr,         \* the addresses kmalloc may return
    NULL,         \* no address, no process
    Free,         \* content of an address that is not allocated
    MSGSIZE,      \* sizeof(struct sha256_accel_msg_s) in units of copying
    MaxStarts     \* bound: how often the software starts a search

ASSUME NAssumption == N \in Nat \ {0}
ASSUME JobsAssumption ==
    Jobs \subseteq [hits : SUBSET (0 .. N - 1), first : 0 .. N - 1, last : 0 .. N - 1]
ASSUME NullAssumption == NULL \notin Addr /\ NULL \notin Procs
ASSUME SizeAssumption == MSGSIZE \in Nat \ {0}
ASSUME StartsAssumption == MaxStarts \in Nat

VARIABLES
    job, start, status, nonce_candidate, irq, external_irq,  \* Accel
    owner,        \* holder of sha256_accel_device_mutex: who has the device open
    pc, back,     \* where the thread of the owner is
    length,       \* the size of the buffer given to read
    nonblock,     \* O_NONBLOCK
    ret,          \* result of the last system call
    copied,       \* history: how much of the message the last read copied
    registered,   \* the thread is on sha256_accel_queue
    woken,        \* and wake_up has been called since
    msg,          \* sha256_accel_msg
    queue,        \* sha256_accel_msg_list
    msg_mutex,    \* holder of sha256_accel_msg_mutex
    heap,         \* the messages that are allocated
    isr, isrMsg,  \* where the interrupt handler is, and its msg
    starts,       \* number of START commands, for the bound
    raised,       \* history: number of messages the handler has allocated
    taken,        \* history: number of messages read has disposed of
    got,          \* history: number of the message the last read copied from
    clean,        \* history: no interrupt was in progress when the search began
    reported      \* history: the handler has read the status the search ended in

engine == <<job, start, status, nonce_candidate, irq, external_irq>>
call == <<pc, back, length, nonblock, ret, copied>>
waitq == <<registered, woken>>
list == <<msg, queue, msg_mutex, heap>>
handler == <<isr, isrMsg>>
history == <<starts, raised, taken, got, clean, reported>>
vars == <<engine, owner, call, waitq, list, handler, history>>

Device == INSTANCE Accel

EAGAIN == -11
EINTR == -4     \* also for ERESTARTSYS, which user space never sees

\* The end of a search the software waits for.
Ended == status \in {"IDLE", "FOUND"}

Message == [status : {"RDY", "BUSY", "FIN", "IDLE", "FOUND"},
            nonce_candidate : Device!Nonces, number : Nat]

ASSUME FreeAssumption == Free \notin Message

Allocated == { a \in Addr : heap[a] # Free }

-----------------------------------------------------------------------------
Init ==
    /\ Device!Init
    /\ owner = NULL
    /\ pc = "user" /\ back = "user"
    /\ length = 0 /\ nonblock = FALSE
    /\ ret = 0 /\ copied = 0
    /\ registered = FALSE /\ woken = FALSE
    /\ msg = NULL
    /\ queue = <<>>
    /\ msg_mutex = "free"
    /\ heap = [a \in Addr |-> Free]
    /\ isr = "idle" /\ isrMsg = NULL
    /\ starts = 0 /\ raised = 0 /\ taken = 0 /\ got = 0
    /\ clean = TRUE /\ reported = FALSE

-----------------------------------------------------------------------------
(***************************************************************************)
(* The accelerator goes on by itself.                                      *)
(***************************************************************************)
Running ==
    /\ Device!Edge({}, FALSE)
    /\ UNCHANGED <<owner, call, waitq, list, handler, history>>

-----------------------------------------------------------------------------
(***************************************************************************)
(* open, release and ioctl.  A mutex_trylock that fails changes nothing.   *)
(***************************************************************************)
Open(p) ==
    /\ owner = NULL
    /\ owner' = p
    /\ UNCHANGED <<engine, call, waitq, list, handler, history>>

\* A write to the control register ends or begins a search.
Control(bits) ==
    /\ Device!Edge(bits, FALSE)
    /\ reported' = (reported /\ status' = status)

\* Mutant: close leaves the computation running.
ReleaseRunning ==
    /\ owner # NULL /\ pc = "user"
    /\ Control({})
    /\ owner' = NULL
    /\ UNCHANGED <<call, waitq, list, handler, starts, raised, taken, got, clean>>

Release ==
    /\ owner # NULL /\ pc = "user"
    /\ Control({"RST"})
    /\ owner' = NULL
    /\ UNCHANGED <<call, waitq, list, handler, starts, raised, taken, got, clean>>

IoctlReset ==
    /\ owner # NULL
    /\ Control({"RST"})
    /\ UNCHANGED <<owner, call, waitq, list, handler, starts, raised, taken, got,
                   clean>>

IoctlStart ==
    /\ owner # NULL
    /\ starts < MaxStarts
    /\ Control({"RUN"})
    /\ starts' = starts + 1
    /\ clean' = IF status \in {"RDY", "FOUND"}
                THEN ~irq /\ ~external_irq /\ isr \notin {"candidate", "ack"}
                ELSE clean
    /\ UNCHANGED <<owner, call, waitq, list, handler, raised, taken, got>>

\* The SET_ commands for the parameters of the search, all of them.
IoctlSet(j) ==
    /\ owner # NULL
    /\ Device!Configure(j)
    /\ UNCHANGED <<owner, call, waitq, list, handler, history>>
-----------------------------------------------------------------------------
(***************************************************************************)
(* sha256_accel_msg_dequeue, from the lock on.  The kfree before it is in  *)
(* the step that enters it.  Only the handler holding the mutex makes the  *)
(* thread wait, so only then a signal can interrupt it.                    *)
(***************************************************************************)
Dequeue(from) == pc' = "lock" /\ back' = from

Lock ==
    /\ pc = "lock"
    /\ msg_mutex = "free"
    /\ msg_mutex' = "thread"
    /\ pc' = "pop"
    /\ UNCHANGED <<engine, owner, back, length, nonblock, ret, copied, waitq,
                   msg, queue, heap, handler, history>>

LockInterrupted ==
    /\ pc = "lock"
    /\ msg_mutex # "free"
    /\ msg' = NULL
    /\ pc' = back /\ back' = "user"
    /\ UNCHANGED <<engine, owner, length, nonblock, ret, copied, waitq,
                   queue, msg_mutex, heap, handler, history>>

\* Mutant: the mutex is kept when the list is empty.
PopLocked ==
    /\ pc = "pop"
    /\ IF queue = <<>>
       THEN msg' = NULL /\ UNCHANGED <<queue, msg_mutex>>
       ELSE msg' = Head(queue) /\ queue' = Tail(queue) /\ msg_mutex' = "free"
    /\ pc' = back /\ back' = "user"
    /\ UNCHANGED <<engine, owner, length, nonblock, ret, copied, waitq,
                   heap, handler, history>>

\* Mutant: the message taken stays on the list.
PopKept ==
    /\ pc = "pop"
    /\ msg' = (IF queue = <<>> THEN NULL ELSE Head(queue))
    /\ msg_mutex' = "free"
    /\ pc' = back /\ back' = "user"
    /\ UNCHANGED <<engine, owner, length, nonblock, ret, copied, waitq,
                   queue, heap, handler, history>>

Pop ==
    /\ pc = "pop"
    /\ IF queue = <<>>
       THEN msg' = NULL /\ UNCHANGED queue
       ELSE msg' = Head(queue) /\ queue' = Tail(queue)
    /\ msg_mutex' = "free"
    /\ pc' = back /\ back' = "user"
    /\ UNCHANGED <<engine, owner, length, nonblock, ret, copied, waitq,
                   heap, handler, history>>
-----------------------------------------------------------------------------
\* A system call ends, and with it the life of its local variables.
Return(r) == pc' = "user" /\ ret' = r /\ length' = 0 /\ nonblock' = FALSE

Continue(next) == pc' = next /\ UNCHANGED <<ret, length, nonblock>>

(***************************************************************************)
(* read.  Where avail is computed, pc is "avail" before a possible dequeue *)
(* and "availed" after it.                                                 *)
(***************************************************************************)
Read(n, nb) ==
    /\ owner # NULL /\ pc = "user"
    /\ IF n = 0 THEN Return(0)
                ELSE /\ pc' = "avail" /\ length' = n /\ nonblock' = nb
                     /\ UNCHANGED ret
    /\ UNCHANGED <<engine, owner, back, copied, waitq, list, handler, history>>

Avail ==
    /\ pc = "avail"
    /\ IF msg # NULL THEN pc' = "copy" /\ UNCHANGED back
                     ELSE Dequeue("availed")
    /\ UNCHANGED <<engine, owner, length, nonblock, ret, copied, waitq, list,
                   handler, history>>

Availed ==
    /\ pc = "availed"
    /\ \/ msg # NULL /\ Continue("copy")
       \/ msg = NULL /\ nonblock /\ Return(EAGAIN)
       \/ msg = NULL /\ ~nonblock /\ Continue("wait")
    /\ UNCHANGED <<engine, owner, back, copied, waitq, list, handler, history>>

(***************************************************************************)
(* wait_event_interruptible: the thread is on the queue before it tests    *)
(* the condition once more, and sleeps only if that fails.                 *)
(***************************************************************************)
Wait ==
    /\ pc = "wait"
    /\ registered' = TRUE /\ woken' = FALSE
    /\ Dequeue("waiting")
    /\ UNCHANGED <<engine, owner, length, nonblock, ret, copied, list, handler,
                   history>>

Waiting ==
    /\ pc = "waiting"
    /\ IF msg # NULL
       THEN pc' = "avail" /\ registered' = FALSE
       ELSE pc' = "asleep" /\ UNCHANGED registered
    /\ UNCHANGED <<engine, owner, back, length, nonblock, ret, copied, woken,
                   list, handler, history>>

WakeUp ==
    /\ pc = "asleep"
    /\ woken
    /\ pc' = "wait"
    /\ UNCHANGED <<engine, owner, back, length, nonblock, ret, copied, waitq,
                   list, handler, history>>

Signal ==
    /\ pc \in {"asleep", "selecting"}
    /\ registered' = FALSE
    /\ Return(EINTR)
    /\ UNCHANGED <<engine, owner, back, copied, woken, list, handler, history>>

(***************************************************************************)
(* copy_to_user returns what it could NOT copy, rest.  Whatever it is, the *)
(* message is freed and the next one is made the current one.              *)
(***************************************************************************)
Copy ==
    /\ pc = "copy"
    /\ LET size == IF MSGSIZE >= length THEN length ELSE MSGSIZE
       IN \E rest \in 0 .. size :
            /\ copied' = size - rest
            /\ ret' = IF rest = 0 THEN size ELSE rest
    /\ got' = heap[msg].number
    /\ taken' = taken + 1
    /\ pc' = "free"
    /\ UNCHANGED <<engine, owner, back, length, nonblock, waitq, list, handler,
                   starts, raised, clean, reported>>

\* Mutant: the message is freed and stays the current one.
FreeCurrentKept ==
    /\ pc = "free"
    /\ heap' = [heap EXCEPT ![msg] = Free]
    /\ pc' = "user"
    /\ length' = 0 /\ nonblock' = FALSE /\ copied' = 0
    /\ UNCHANGED <<engine, owner, back, ret, waitq, msg, queue, msg_mutex, handler,
                   history>>

FreeCurrent ==
    /\ pc = "free"
    /\ heap' = [heap EXCEPT ![msg] = Free]
    /\ Dequeue("user")
    /\ length' = 0 /\ nonblock' = FALSE /\ copied' = 0
    /\ UNCHANGED <<engine, owner, ret, waitq, msg, queue, msg_mutex, handler,
                   history>>
-----------------------------------------------------------------------------
(***************************************************************************)
(* select on the device.  The kernel calls poll, which registers the       *)
(* thread and looks for a message; it sleeps when there is none, and polls *)
(* once more when it is woken or the time is over (nonblock = last try).   *)
(***************************************************************************)
Select ==
    /\ owner # NULL /\ pc = "user"
    /\ pc' = "poll"
    /\ UNCHANGED <<engine, owner, back, length, nonblock, ret, copied, waitq,
                   list, handler, history>>

\* Mutant: the thread is not put on the wait queue.
PollUnregistered ==
    /\ pc = "poll"
    /\ woken' = FALSE
    /\ IF msg # NULL THEN pc' = "polled" /\ UNCHANGED back
                     ELSE Dequeue("polled")
    /\ UNCHANGED <<engine, owner, length, nonblock, ret, copied, registered, list,
                   handler, history>>

Poll ==
    /\ pc = "poll"
    /\ registered' = TRUE /\ woken' = FALSE
    /\ IF msg # NULL THEN pc' = "polled" /\ UNCHANGED back
                     ELSE Dequeue("polled")
    /\ UNCHANGED <<engine, owner, length, nonblock, ret, copied, list, handler,
                   history>>

Polled ==
    /\ pc = "polled"
    /\ IF msg # NULL \/ nonblock
       THEN /\ registered' = FALSE
            /\ Return(IF msg # NULL THEN 1 ELSE 0)
       ELSE Continue("selecting") /\ UNCHANGED registered
    /\ UNCHANGED <<engine, owner, back, copied, woken, list, handler, history>>

SelectWakeUp ==
    /\ pc = "selecting"
    /\ woken
    /\ pc' = "poll"
    /\ UNCHANGED <<engine, owner, back, length, nonblock, ret, copied, waitq,
                   list, handler, history>>

SelectTimeout ==
    /\ pc = "selecting"
    /\ nonblock' = TRUE
    /\ pc' = "poll"
    /\ UNCHANGED <<engine, owner, back, length, ret, copied, waitq, list, handler,
                   history>>
-----------------------------------------------------------------------------
(***************************************************************************)
(* sha256_accel_irq, entered when the interrupt line is high; kmalloc      *)
(* succeeds, as the code expects.  The two registers are read one after    *)
(* the other.                                                              *)
(***************************************************************************)
IsrStatus ==
    /\ isr = "idle"
    /\ external_irq
    /\ \E a \in Addr :
         /\ heap[a] = Free
         /\ heap' = [heap EXCEPT ![a] =
                [status |-> status, nonce_candidate |-> 0, number |-> raised + 1]]
         /\ isrMsg' = a
    /\ isr' = "candidate"
    /\ raised' = raised + 1
    /\ reported' = (reported \/ Ended)
    /\ UNCHANGED <<engine, owner, call, waitq, msg, queue, msg_mutex, starts,
                   taken, got, clean>>

IsrCandidate ==
    /\ isr = "candidate"
    /\ heap' = [heap EXCEPT ![isrMsg].nonce_candidate = nonce_candidate]
    /\ isr' = "ack"
    /\ UNCHANGED <<engine, owner, call, waitq, msg, queue, msg_mutex, isrMsg,
                   history>>

IsrAck ==
    /\ isr = "ack"
    /\ Device!Edge({}, TRUE)
    /\ isr' = "lock"
    /\ UNCHANGED <<owner, call, waitq, list, isrMsg, history>>

IsrLock ==
    /\ isr = "lock"
    /\ msg_mutex = "free"
    /\ msg_mutex' = "isr"
    /\ isr' = "add"
    /\ UNCHANGED <<engine, owner, call, waitq, msg, queue, heap, isrMsg, history>>

\* Mutants: the message is cleared before it is added; it is added in front.
IsrAddCleared ==
    /\ isr = "add"
    /\ isrMsg' = NULL
    /\ queue' = Append(queue, isrMsg')
    /\ msg_mutex' = "free"
    /\ isr' = "wake"
    /\ UNCHANGED <<engine, owner, call, waitq, msg, heap, history>>

IsrAddFront ==
    /\ isr = "add"
    /\ queue' = <<isrMsg>> \o queue
    /\ isrMsg' = NULL
    /\ msg_mutex' = "free"
    /\ isr' = "wake"
    /\ UNCHANGED <<engine, owner, call, waitq, msg, heap, history>>

IsrAdd ==
    /\ isr = "add"
    /\ queue' = Append(queue, isrMsg)
    /\ isrMsg' = NULL
    /\ msg_mutex' = "free"
    /\ isr' = "wake"
    /\ UNCHANGED <<engine, owner, call, waitq, msg, heap, history>>

\* Mutant: nobody is woken.
IsrWakeNobody ==
    /\ isr = "wake"
    /\ isr' = "idle"
    /\ UNCHANGED <<engine, owner, call, waitq, list, isrMsg, history>>

IsrWake ==
    /\ isr = "wake"
    /\ woken' = (woken \/ registered)
    /\ isr' = "idle"
    /\ UNCHANGED <<engine, owner, call, registered, list, isrMsg, history>>
-----------------------------------------------------------------------------
\* What the kernel does by itself once it has been called.
ThreadStep ==
    \/ Lock \/ LockInterrupted \/ Pop
    \/ Avail \/ Availed \/ Wait \/ Waiting \/ WakeUp \/ Copy \/ FreeCurrent
    \/ Poll \/ Polled \/ SelectWakeUp

IsrStep ==
    \/ IsrStatus \/ IsrCandidate \/ IsrAck \/ IsrLock \/ IsrAdd \/ IsrWake

Syscall ==
    \/ \E p \in Procs : Open(p)
    \/ Release
    \/ IoctlReset \/ IoctlStart
    \/ \E j \in Jobs : IoctlSet(j)
    \/ \E n \in 0 .. MSGSIZE, nb \in BOOLEAN : Read(n, nb)
    \/ Select

Next ==
    \/ Running
    \/ Syscall
    \/ ThreadStep \/ Signal \/ SelectTimeout
    \/ IsrStep

Spec == Init /\ [][Next]_vars

Settle == Running /\ Device!Searching /\ status' \notin {"BUSY", "FIN"}

(***************************************************************************)
(* The thread and the handler are scheduled; the handler gets the mutex    *)
(* although the thread takes it again and again, since a kernel mutex      *)
(* serves who waits for it; a search ends (SearchEngine!SearchEnds) and    *)
(* its pulse reaches the latch.                                            *)
(***************************************************************************)
Fairness ==
    /\ WF_vars(ThreadStep)
    /\ WF_vars(IsrStep) /\ SF_vars(IsrLock)
    /\ WF_vars(Running /\ irq)
    /\ WF_vars(Settle)

FairSpec == Spec /\ Fairness
-----------------------------------------------------------------------------
(***************************************************************************)
(* Correctness.                                                            *)
(***************************************************************************)
ThreadPlaces == {"user", "avail", "availed", "wait", "waiting", "asleep", "copy",
                 "free", "lock", "pop", "poll", "polled", "selecting"}

IsrPlaces == {"idle", "candidate", "ack", "lock", "add", "wake"}

\* The type invariant of the driver's own variables.
TypeOK ==
    /\ Device!TypeOK
    /\ owner \in Procs \cup {NULL}
    /\ pc \in ThreadPlaces /\ back \in {"user", "availed", "waiting", "polled"}
    /\ length \in 0 .. MSGSIZE /\ copied \in 0 .. MSGSIZE
    /\ nonblock \in BOOLEAN
    /\ ret \in 0 .. MSGSIZE \cup {1, EAGAIN, EINTR}
    /\ registered \in BOOLEAN /\ woken \in BOOLEAN
    /\ msg \in Addr \cup {NULL}
    /\ queue \in Seq(Addr)
    /\ msg_mutex \in {"free", "thread", "isr"}
    /\ heap \in [Addr -> Message \cup {Free}]
    /\ isr \in IsrPlaces /\ isrMsg \in Addr \cup {NULL}
    /\ starts \in Nat /\ raised \in Nat /\ taken \in Nat /\ got \in Nat
    /\ clean \in BOOLEAN /\ reported \in BOOLEAN

\* After the kfree and until the next message sha256_accel_msg points nowhere.
Dangling == pc \in {"lock", "pop"} /\ back = "user"

Current == IF msg = NULL \/ Dangling THEN {} ELSE {msg}
InHand == IF isrMsg = NULL THEN {} ELSE {isrMsg}
Queued == { queue[i] : i \in DOMAIN queue }

(***************************************************************************)
(* Every message that is allocated has one owner: the handler, the list or *)
(* the current-message pointer.  So none leaks, none is freed twice and    *)
(* none is used after it was freed, although the pointer is not protected  *)
(* by the mutex and is left dangling across the lock.                      *)
(***************************************************************************)
Ownership ==
    /\ Allocated = Queued \cup Current \cup InHand
    /\ \A i, j \in DOMAIN queue : queue[i] = queue[j] => i = j
    /\ Current \cap Queued = {}
    /\ InHand \cap (Queued \cup Current) = {}

\* 1 when the current message has not been read yet.
Unread == IF Current # {} /\ pc # "free" THEN 1 ELSE 0

\* 1 when the handler has a message it has not added to the list yet.
Held == IF isrMsg = NULL THEN 0 ELSE 1

(***************************************************************************)
(* Every interrupt gives one message, and read hands them over in the      *)
(* order of the interrupts, each at most once, none left out: the messages *)
(* not yet taken are the last ones raised, in the order of their numbers.  *)
(***************************************************************************)
InOrder ==
    /\ raised = taken + Unread + Len(queue) + Held
    /\ Current # {} => heap[msg].number = taken + Unread
    /\ \A i \in DOMAIN queue : heap[queue[i]].number = taken + Unread + i
    /\ InHand # {} => heap[isrMsg].number = raised
    /\ got = taken

\* What read has yet to copy: the current message, then those of the list.
Pending ==
    (IF Unread = 1 THEN <<heap[msg]>> ELSE <<>>)
        \o [i \in DOMAIN queue |-> heap[queue[i]]]

(***************************************************************************)
(* List and current message are a channel: whatever dequeue, read, poll    *)
(* and the handler do at the same time, a message stays as the handler     *)
(* has put it until a read takes it, in its turn; no other step puts,      *)
(* takes, changes or drops one.                                            *)
(***************************************************************************)
Channel == INSTANCE MessageChannel WITH
    Statuses <- {"RDY", "BUSY", "FIN", "IDLE", "FOUND"}, Nonces <- Device!Nonces,
    channel <- Pending, put <- raised - Held

ImplementsChannel == Channel!Spec

\* The device is closed only with the engine stopped: no search without a user.
ClosedMeansStopped == owner = NULL => status \notin {"BUSY", "FIN"}

(***************************************************************************)
(* No wakeup is lost: a thread that sleeps in read or select while the     *)
(* list holds a message has been woken or is about to be.                  *)
(***************************************************************************)
NoLostWakeup ==
    pc \in {"asleep", "selecting"} /\ queue # <<>> => woken \/ isr \in {"add", "wake"}

\* A read or select that finds a message, or that is waiting for it, returns.
MessageEndsWait == queue # <<>> /\ pc # "user" ~> pc = "user"

(***************************************************************************)
(* The end of a search is reported: the handler reads the status it ended  *)
(* in, unless the software has ended that state by then.  Only if no older *)
(* interrupt was in progress when the search was started: the acknowledge  *)
(* of that one may swallow the new one.                                    *)
(***************************************************************************)
EndIsReported == clean /\ Ended ~> reported \/ ~Ended \/ ~clean

(***************************************************************************)
(* What the comment in read says of its result: "the amount of data that   *)
(* was copied".                                                            *)
(***************************************************************************)
ReadReturnsCopied == pc = "free" => ret = copied
=============================================================================
