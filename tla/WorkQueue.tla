------------------------------- MODULE WorkQueue -------------------------------
(***************************************************************************)
(* The core of cgminer around the miner (cgminer/cgminer.c): the staged    *)
(* work, the getwork scheduler (the main thread), the thread that hears of *)
(* blocks (long poll or stratum), the mining threads in hash_sole_work and *)
(* the threads that pass on a restart.                                     *)
(*                                                                         *)
(* What a thread does while it holds stgd_lock is one action, and so is    *)
(* each access to a variable that no lock protects.  The pools, which      *)
(* answer requests, the network, which finds blocks, and scanhash          *)
(* (EdcMiner), which returns some time, are the environment.  Time is      *)
(* abstracted: what depends on the age of a work (expiry, should_roll) or  *)
(* on the job of a stratum pool may hold or not whenever it is tested.     *)
(***************************************************************************)
EXTENDS Integers, Sequences, FiniteSets

CONSTANTS
    Miners,       \* the mining threads, one per device
    Pools,        \* the kinds of pools: "rolling" (getwork, with a rolltime),
                  \* "getwork" (without), "stratum"
    OptQueue,     \* opt_queue
    RollLimit,    \* 7000 in can_roll
    MaxWorks,     \* bound: works the pools hand out
    MaxBlocks,    \* bound: blocks the network finds
    NoWork

ASSUME MinersAssumption == IsFiniteSet(Miners) /\ Miners # {}
ASSUME PoolsAssumption == Pools \subseteq {"rolling", "getwork", "stratum"}
ASSUME QueueAssumption == OptQueue \in Nat \ {0} /\ RollLimit \in Nat
ASSUME BoundsAssumption == MaxWorks \in Nat /\ MaxBlocks \in Nat

VARIABLES
    net,             \* the newest block of the network (external)
    works,           \* number of works the pools have handed out
    blocks,          \* the blocks the program knows of
    work_block,
    staged_work, staged_rollable, max_queue,
    pc, held, prev,  \* of the stagers, the scheduler and the thread of a pool:
                     \* the works they are about to stage, and on what block
    max_staged, gws, \* of the scheduler: its local limit; it has been woken
    mpc, work,       \* of the mining threads
    getq,            \* the mining threads getq->cond has woken
    work_restart,
    discards, flags, \* restart threads that have yet to discard, to set a flag
    untold           \* history: nobody will tell this thread that its work is stale

chain == <<net, works, blocks, work_block>>
queueing == <<staged_work, staged_rollable, max_queue>>
staging == <<pc, held, prev, max_staged, gws>>
mining == <<mpc, work, getq, work_restart, untold>>
restarting == <<discards, flags>>
vars == <<chain, queueing, staging, mining, restarting>>

Stagers == {"sched", "lp"}
Home(t) == IF t = "sched" THEN "top" ELSE "idle"

ASSUME ThreadsAssumption == Stagers \cap Miners = {}

(***************************************************************************)
(* A struct work: which header it is (the work the pool handed out, and    *)
(* how often its time was rolled), whether it is a clone, of what kind of  *)
(* pool, and its work_block.                                               *)
(***************************************************************************)
Work == [base : Nat, rolls : Nat, clone : BOOLEAN, pool : Pools, block : Nat]

ASSUME NoWorkAssumption == NoWork \notin Work

Header(w) == <<w.base, w.rolls>>

work_rollable(w) == ~w.clone /\ w.pool = "rolling"

Rollable(S) == { w \in S : work_rollable(w) }

\* The part of stale_work that does not depend on time or on the pool.
BlockStale(w) == w.block # work_block

CanRoll(w) == work_rollable(w) /\ w.rolls < RollLimit /\ ~BlockStale(w)

Rolled(w, n) == [w EXCEPT !.rolls = @ + n]
Clone(w) == [w EXCEPT !.clone = TRUE]

Count(b) == IF b THEN 1 ELSE 0

Init ==
    /\ net = 0 /\ works = 0
    /\ blocks = {} /\ work_block = 0
    /\ staged_work = {} /\ staged_rollable = 0
    /\ max_queue = 1
    /\ pc = [t \in Stagers |-> Home(t)]
    /\ held = [t \in Stagers |-> <<>>]
    /\ prev = [t \in Stagers |-> 0]
    /\ max_staged = 0 /\ gws = FALSE
    /\ mpc = [m \in Miners |-> "get"]
    /\ work = [m \in Miners |-> NoWork]
    /\ getq = {}
    /\ work_restart = [m \in Miners |-> FALSE]
    /\ discards = 0 /\ flags = [m \in Miners |-> 0]
    /\ untold = [m \in Miners |-> FALSE]
-----------------------------------------------------------------------------
At(t, place) == pc[t] = place
Go(t, place) == pc' = [pc EXCEPT ![t] = place]

\* Mutant: it is getq->cond that is signalled.
SignalGwsLost == UNCHANGED gws

\* pthread_cond_signal(&gws_cond) is lost unless the scheduler waits.
SignalGws == gws' = At("sched", "asleep")

(***************************************************************************)
(* Staging: _stage_work with the first of the works a thread holds.        *)
(***************************************************************************)
Stamp(t) ==
    /\ At(t, "stamp") /\ Go(t, "test")
    /\ held' = [held EXCEPT ![t][1].block = work_block]
    /\ UNCHANGED <<chain, queueing, prev, max_staged, gws, mining,
                   restarting>>

\* Mutant: a new block does not restart the mining threads.
NewBlockQuiet(t) ==
    /\ work_block' = work_block + 1
    /\ held' = [held EXCEPT ![t][1].block = work_block']
    /\ UNCHANGED discards

\* ++work_block, and restart_threads creates a thread.
NewBlock(t) ==
    /\ work_block' = work_block + 1
    /\ held' = [held EXCEPT ![t][1].block = work_block']
    /\ discards' = discards + 1

\* Mutant: a clone is counted, but a rollable work is not.
HashPushCounts(t) ==
    /\ staged_work' = staged_work \cup {held[t][1]}
    /\ staged_rollable' = staged_rollable + Count(held[t][1].clone)

HashPush(t) ==
    /\ staged_work' = staged_work \cup {held[t][1]}
    /\ staged_rollable' = staged_rollable + Count(work_rollable(held[t][1]))

\* hash_push broadcasts getq->cond; the thread goes on with its next work.
Push(t) ==
    /\ HashPush(t)
    /\ getq' = { m \in Miners : mpc[m] = "waiting" }
    /\ held' = [held EXCEPT ![t] = Tail(@)]
    /\ IF Len(held[t]) > 1
       THEN Go(t, "stamp") /\ UNCHANGED prev
       ELSE Go(t, Home(t)) /\ prev' = [prev EXCEPT ![t] = 0]

Mining(m) == mpc[m] \in {"clear", "scan"}

\* The same without restart_threads: the pool is not the current one.
NewBlockElsewhere(t) ==
    /\ work_block' = work_block + 1
    /\ held' = [held EXCEPT ![t][1].block = work_block']
    /\ untold' = [m \in Miners |-> untold[m] \/ Mining(m)]
    /\ UNCHANGED discards

(***************************************************************************)
(* test_work_current for the work of a long poll, before convert_to_work   *)
(* clones it, or for a work of a stratum pool that announces a block: a    *)
(* known block is a request to restart, too.                               *)
(***************************************************************************)
Announce ==
    /\ At("lp", "announce")
    /\ \/ /\ prev["lp"] \in blocks /\ Go("lp", "convert")
          /\ NewBlock("lp") /\ UNCHANGED untold
       \/ /\ prev["lp"] \in blocks /\ Go("lp", "convert")
          /\ NewBlockElsewhere("lp")
       \/ /\ prev["lp"] \notin blocks /\ Go("lp", "announce new")
          /\ UNCHANGED <<work_block, held, discards, untold>>
    /\ UNCHANGED <<net, works, blocks, queueing, prev, max_staged, gws, mpc, work,
                   getq, work_restart, flags>>

(***************************************************************************)
(* test_work_current from _stage_work.  A block that is known stays known: *)
(* the look at blocks is taken together with the push.                     *)
(***************************************************************************)
TestAndPush(t) ==
    /\ At(t, "test")
    /\ \/ prev[t] \notin blocks /\ Go(t, "new")
          /\ UNCHANGED <<queueing, held, prev, getq>>
       \/ prev[t] \in blocks /\ Push(t) /\ UNCHANGED max_queue
    /\ UNCHANGED <<chain, max_staged, gws, mpc, work, work_restart, untold,
                   restarting>>

\* Since block_exists another thread may have added the block, too.
AddBlock(t) ==
    /\ \/ At(t, "new") /\ Go(t, "push")
       \/ At(t, "announce new") /\ Go(t, "convert")
    /\ blocks' = blocks \cup {prev[t]}
    /\ IF blocks = {} THEN UNCHANGED <<work_block, held, discards>>
                      ELSE NewBlock(t)
    /\ UNCHANGED <<net, works, queueing, prev, max_staged, gws, mining, flags>>

PushNew(t) ==
    /\ At(t, "push") /\ Push(t)
    /\ UNCHANGED <<chain, max_queue, max_staged, gws, mpc, work, work_restart,
                   untold, restarting>>
-----------------------------------------------------------------------------
(***************************************************************************)
(* The pools hand out works for the newest block of the network, which may *)
(* have changed since the last one.                                        *)
(***************************************************************************)
NewWork(t, pools) ==
    /\ works < MaxWorks
    /\ works' = works + 1
    /\ net' \in net .. MaxBlocks
    /\ prev' = [prev EXCEPT ![t] = net']
    /\ \E pool \in pools :
         held' = [held EXCEPT ![t] = <<[base |-> works, rolls |-> 0, clone |-> FALSE,
                                        pool |-> pool, block |-> 0]>>]

\* The answer to a long poll, or a notification of a stratum pool.
LongPoll ==
    /\ At("lp", "idle") /\ Go("lp", "announce")
    /\ NewWork("lp", Pools)
    /\ UNCHANGED <<blocks, work_block, queueing, max_staged, gws, mining,
                   restarting>>

(***************************************************************************)
(* clone_work rolls and clones n times: the clones with no roll, then with *)
(* one, three, five and so on, are staged while it goes on; then come the  *)
(* work with 2n rolls and the last clone.                                  *)
(***************************************************************************)
RollsOfClone(i) == IF i = 1 THEN 0 ELSE 2 * i - 3

CloneWork(w, n) ==
    [ i \in 1 .. n + (IF n = 0 THEN 1 ELSE 2) |->
        IF i <= n THEN Clone(Rolled(w, RollsOfClone(i)))
        ELSE IF i = n + 1 THEN Rolled(w, 2 * n)
        ELSE Clone(Rolled(w, RollsOfClone(i - 1))) ]

\* How often: at most mrs times, and while the work can be rolled.
Convert ==
    /\ At("lp", "convert") /\ Go("lp", "stamp")
    /\ held["lp"][1].pool # "stratum"
    /\ \E n \in 0 .. Cardinality(Miners) + OptQueue :
         /\ n > 0 => /\ n <= Cardinality(Miners) + OptQueue - Cardinality(staged_work)
                     /\ CanRoll(Rolled(held["lp"][1], 2 * (n - 1)))
         /\ held' = [held EXCEPT !["lp"] = CloneWork(@[1], n)]
    /\ UNCHANGED <<chain, queueing, prev, max_staged, gws, mining,
                   restarting>>

\* The work served to announce the block: of a stratum pool it always does, of
\* another with opt_fail_only, if the pool is not the current one.
Unwanted ==
    /\ At("lp", "convert") /\ Go("lp", "idle")
    /\ held' = [held EXCEPT !["lp"] = <<>>]
    /\ prev' = [prev EXCEPT !["lp"] = 0]
    /\ UNCHANGED <<chain, queueing, max_staged, gws, mining, restarting>>

\* The connection to a stratum pool is lost: clear_pool_work takes its works and
\* tells nobody; if the pool is the current one, the threads are restarted.
ClearPoolWork ==
    /\ \E w \in staged_work : w.pool = "stratum"
    /\ staged_work' = { w \in staged_work : w.pool # "stratum" }
    /\ discards' \in discards .. discards + 1
    /\ UNCHANGED <<chain, staged_rollable, max_queue, staging, mining, flags>>
-----------------------------------------------------------------------------
(***************************************************************************)
(* The getwork scheduler.  It reads staged_rollable before it locks.       *)
(***************************************************************************)
SchedLimit ==
    /\ At("sched", "top") /\ Go("sched", "look")
    /\ \E current \in Pools :
         max_staged' = max_queue + IF current # "stratum" /\ staged_rollable = 0
                                   THEN Cardinality(Miners) ELSE 0
    /\ UNCHANGED <<chain, queueing, held, prev, gws, mining,
                   restarting>>

TooMany == Cardinality(staged_work) > max_staged

\* The queue may grow by one; work_emptied, work_filled and lagging decide when.
Enlarge == max_queue' \in { n \in max_queue .. max_queue + 1 : n <= OptQueue }

SchedLook ==
    /\ At("sched", "look")
    /\ \/ TooMany /\ Enlarge /\ Go("sched", "asleep") /\ UNCHANGED max_staged
       \/ ~TooMany /\ Go("sched", "make") /\ max_staged' = 0
          /\ IF staged_work = {} THEN Enlarge ELSE UNCHANGED max_queue
    /\ UNCHANGED <<chain, staged_work, staged_rollable, held, prev,
                   gws, mining, restarting>>

\* pthread_cond_wait returns; what it finds decides without the lock.
SchedWoken ==
    /\ At("sched", "asleep") /\ gws
    /\ gws' = FALSE /\ max_staged' = 0
    /\ \/ TooMany /\ Enlarge /\ Go("sched", "drop")
       \/ ~TooMany /\ Go("sched", "make") /\ UNCHANGED max_queue
    /\ UNCHANGED <<chain, staged_work, staged_rollable, held, prev,
                   mining, restarting>>

(***************************************************************************)
(* What hash_pop may take: if there are more works than are said to be     *)
(* rollable, the first that is not; else the first.  (Which is first, the  *)
(* age decides.)                                                           *)
(***************************************************************************)
Candidates ==
    IF Cardinality(staged_work) > staged_rollable
    THEN staged_work \ Rollable(staged_work) ELSE staged_work

\* Mutant: staged_rollable counts works instead of rollable works.
TakeUncounted(w) ==
    /\ staged_work' = staged_work \ {w}
    /\ staged_rollable' = staged_rollable - 1

\* Mutant: the work is not deleted from the table.
TakeKept(w) ==
    /\ staged_rollable' = staged_rollable - Count(work_rollable(w))
    /\ UNCHANGED staged_work

Take(w) ==
    /\ staged_work' = staged_work \ {w}
    /\ staged_rollable' = staged_rollable - Count(work_rollable(w))

(***************************************************************************)
(* hash_pop signals the scheduler, and getq->cond for one of the other     *)
(* threads that still wait; the thread that pops no longer does.           *)
(***************************************************************************)
Popped(me) ==
    /\ SignalGws
    /\ LET others == { m \in Miners : mpc[m] = "waiting" } \ (getq \cup {me}) IN
       \/ others = {} /\ getq' = getq \ {me}
       \/ \E m \in others : getq' = (getq \ {me}) \cup {m}

\* hash_pop(false), and discard_work.
SchedDrop ==
    /\ At("sched", "drop") /\ Go("sched", "top")
    /\ \/ /\ staged_work = {} /\ Enlarge
          /\ UNCHANGED <<staged_work, staged_rollable, getq, gws>>
       \/ /\ \E w \in Candidates : Take(w)
          /\ Popped("sched")
          /\ UNCHANGED max_queue
    /\ UNCHANGED <<chain, held, prev, max_staged, mpc, work,
                   work_restart, untold, restarting>>

\* Mutant: the master is not rolled past the header of its clone.
CloneAvailableOnce(w) ==
    /\ staged_work' = (staged_work \ {w}) \cup {Rolled(w, 1)}
    /\ held' = [held EXCEPT !["sched"] = <<Clone(Rolled(w, 1))>>]

CloneAvailable(w) ==
    /\ staged_work' = (staged_work \ {w}) \cup {Rolled(w, 2)}
    /\ held' = [held EXCEPT !["sched"] = <<Clone(Rolled(w, 1))>>]

\* A pool that is not a stratum pool: a staged work may be cloned instead.
SchedClone ==
    /\ At("sched", "make") /\ Go("sched", "stamp")
    /\ staged_rollable # 0
    /\ \E w \in staged_work : CanRoll(w) /\ CloneAvailable(w)
    /\ UNCHANGED <<chain, staged_rollable, max_queue, prev,
                   max_staged, gws, mining, restarting>>

\* A pool hands out a work.  If it does not, the scheduler tries again.
SchedFetch ==
    /\ At("sched", "make") /\ Go("sched", "stamp")
    /\ NewWork("sched", Pools)
    /\ UNCHANGED <<blocks, work_block, queueing, max_staged, gws,
                   mining, restarting>>
-----------------------------------------------------------------------------
(***************************************************************************)
(* The mining threads.                                                     *)
(***************************************************************************)
MinerGoes(m, from, to) == mpc[m] = from /\ mpc' = [mpc EXCEPT ![m] = to]

\* The loop of hash_pop: wake the scheduler, wait for getq->cond.
WaitForWork(m) ==
    /\ getq' = getq \ {m}
    /\ SignalGws

\* A waiting thread looks again when it is woken and after ten seconds.
HashPopEmpty(m) ==
    /\ mpc[m] \in {"get", "waiting"}
    /\ staged_work = {}
    /\ mpc' = [mpc EXCEPT ![m] = "waiting"]
    /\ IF mpc[m] = "get" THEN Enlarge
                         ELSE UNCHANGED max_queue
    /\ WaitForWork(m)
    /\ UNCHANGED <<chain, staged_work, staged_rollable, pc, held, prev,
                   max_staged, work, work_restart, untold,
                   restarting>>

(***************************************************************************)
(* get_work: hash_pop, and the look whether the work is stale, which is    *)
(* taken together with it: nothing another thread does in between matters  *)
(* to both.  A stale work is discarded, and the scheduler woken once more. *)
(***************************************************************************)
GetWork(m) ==
    /\ mpc[m] \in {"get", "waiting"}
    /\ \E w \in Candidates :
         /\ Take(w)
         /\ \/ /\ ~BlockStale(w)
               /\ mpc' = [mpc EXCEPT ![m] = "clear"]
               /\ work' = [work EXCEPT ![m] = w]
            \/ /\ mpc' = [mpc EXCEPT ![m] = "get"]
               /\ UNCHANGED work
    /\ Popped(m)
    /\ UNCHANGED <<chain, max_queue, pc, held, prev, max_staged, work_restart,
                   untold, restarting>>

\* hash_sole_work clears work_restart and prepares the work.
ClearRestart(m) ==
    /\ MinerGoes(m, "clear", "scan")
    /\ work_restart' = [work_restart EXCEPT ![m] = FALSE]
    /\ untold' = [untold EXCEPT ![m] = @ \/ (work_restart[m] /\ BlockStale(work[m]))]
    /\ UNCHANGED <<chain, queueing, staging, work, getq, restarting>>

Free(m) == work' = [work EXCEPT ![m] = NoWork] /\ untold' = [untold EXCEPT ![m] = FALSE]

(***************************************************************************)
(* When must the work be left?  Only when abandon_work finds it stale: a   *)
(* thread that scans too fast for its log interval does not look at        *)
(* work_restart.  It may be left whenever it has been worked on long       *)
(* enough, or is exhausted.                                                *)
(***************************************************************************)
Abandon(m) == BlockStale(work[m])

\* scanhash returns a number of hashes.
Scanned(m) ==
    /\ mpc[m] = "scan"
    /\ \/ /\ mpc' = [mpc EXCEPT ![m] = "get"]
          /\ Free(m)
       \/ /\ ~Abandon(m)
          /\ UNCHANGED <<mpc, work, untold>>
    /\ UNCHANGED <<chain, queueing, staging, getq, work_restart, restarting>>

\* scanhash returns -1: the thread ends, and with it the use of the device.
Shutdown(m) ==
    /\ MinerGoes(m, "scan", "dead")
    /\ Free(m)
    /\ UNCHANGED <<chain, queueing, staging, getq, work_restart,
                   restarting>>
-----------------------------------------------------------------------------
(***************************************************************************)
(* discard_stale, by the watchdog and by a restart thread: the works of an *)
(* older block go, and the oldest of the others if they have expired.  A   *)
(* removed work stays counted in staged_rollable.                          *)
(***************************************************************************)
DiscardStale ==
    /\ \E oldest \in 0 .. works :
         staged_work' = { w \in staged_work : ~BlockStale(w) /\ w.base >= oldest }
    /\ SignalGws
    /\ UNCHANGED <<staged_rollable, max_queue>>

Watchdog ==
    /\ DiscardStale
    /\ UNCHANGED <<chain, pc, held, prev, max_staged, mining,
                   restarting>>

\* restart_thread discards, and then sets one flag after the other.
RestartDiscard ==
    /\ discards > 0
    /\ discards' = discards - 1
    /\ flags' = [m \in Miners |-> flags[m] + 1]
    /\ DiscardStale
    /\ UNCHANGED <<chain, pc, held, prev, max_staged, mining>>

\* Only for an enabled device.
RestartFlag(m) ==
    /\ flags[m] > 0
    /\ flags' = [flags EXCEPT ![m] = @ - 1]
    /\ work_restart' = [work_restart EXCEPT ![m] = @ \/ mpc[m] # "dead"]
    /\ UNCHANGED <<chain, queueing, staging, mpc, work, getq, untold,
                   discards>>
-----------------------------------------------------------------------------
StagerStep(t) == Stamp(t) \/ TestAndPush(t) \/ AddBlock(t) \/ PushNew(t)

SchedStep ==
    \/ StagerStep("sched")
    \/ SchedLimit \/ SchedLook \/ SchedWoken \/ SchedDrop \/ SchedClone \/ SchedFetch

LongPollStep == Announce \/ Convert \/ Unwanted \/ StagerStep("lp")

MinerStep(m) ==
    \/ HashPopEmpty(m) \/ GetWork(m) \/ ClearRestart(m)
    \/ Scanned(m) \/ Shutdown(m)

Next ==
    \/ LongPoll \/ ClearPoolWork
    \/ SchedStep \/ LongPollStep
    \/ \E m \in Miners : MinerStep(m) \/ RestartFlag(m)
    \/ Watchdog \/ RestartDiscard

Spec == Init /\ [][Next]_vars

(***************************************************************************)
(* Threads are scheduled, the pools answer, a scan returns.  A thread that *)
(* need not abandon its work may scan it for ever; the timeout of a thread *)
(* that waits for work, the watchdog and the long polls may fail to come:  *)
(* nothing relies on them.                                                 *)
(***************************************************************************)
Fairness ==
    /\ WF_vars(SchedStep)
    /\ \A m \in Miners :
         WF_vars(/\ MinerStep(m)
                 /\ mpc[m] = "waiting" => m \in getq
                 /\ mpc[m] = "scan" => Abandon(m))

FairSpec == Spec /\ Fairness
-----------------------------------------------------------------------------
(***************************************************************************)
(* Correctness.                                                            *)
(***************************************************************************)
StagerPlaces == {"top", "look", "asleep", "drop", "make", "idle", "announce",
                 "announce new", "convert", "stamp", "test", "new", "push"}
MinerPlaces == {"get", "waiting", "clear", "scan", "dead"}

\* The type invariant.
TypeOK ==
    /\ net \in Nat /\ works \in Nat /\ work_block \in Nat
    /\ blocks \in SUBSET Nat
    /\ staged_work \in SUBSET Work /\ IsFiniteSet(staged_work)
    /\ staged_rollable \in Nat
    /\ max_queue \in 1 .. OptQueue /\ max_staged \in Nat
    /\ gws \in BOOLEAN
    /\ pc \in [Stagers -> StagerPlaces]
    /\ held \in [Stagers -> Seq(Work)] /\ prev \in [Stagers -> Nat]
    /\ mpc \in [Miners -> MinerPlaces]
    /\ work \in [Miners -> Work \cup {NoWork}]
    /\ getq \in SUBSET Miners
    /\ work_restart \in [Miners -> BOOLEAN] /\ untold \in [Miners -> BOOLEAN]
    /\ discards \in Nat /\ flags \in [Miners -> Nat]

(***************************************************************************)
(* staged_rollable never counts fewer works than can be rolled, although   *)
(* discard_stale and clear_pool_work do not keep it up to date.  So when   *)
(* hash_pop sees more works than that, its search for one that cannot be   *)
(* rolled does not run off the end of the table.                           *)
(***************************************************************************)
RollableCounted == Cardinality(Rollable(staged_work)) <= staged_rollable

Present ==
    staged_work \cup { work[m] : m \in { n \in Miners : work[n] # NoWork } }
        \cup UNION { { held[t][i] : i \in DOMAIN held[t] } : t \in Stagers }

(***************************************************************************)
(* No header is hashed twice, however works are rolled, cloned, staged and *)
(* popped by several threads: two works, wherever they are, never have the *)
(* same header; and no thread works on what is also staged or held.        *)
(***************************************************************************)
HeadersDistinct ==
    /\ \A v, w \in Present : Header(v) = Header(w) => v = w
    /\ \A m, n \in Miners : m # n /\ work[m] = work[n] => work[m] = NoWork
    /\ \A m \in Miners : work[m] \notin staged_work

(***************************************************************************)
(* A thread that works for an old block is told, or a restart thread is on *)
(* its way to tell it - with two exceptions: hash_sole_work clears         *)
(* work_restart after get_work has looked whether the work is stale, so    *)
(* that what is set between the two is lost; and the long poll of a pool   *)
(* that is not the current one makes all works stale and restarts nobody.  *)
(***************************************************************************)
RestartReaches ==
    \A m \in Miners : Mining(m) /\ BlockStale(work[m]) =>
        work_restart[m] \/ untold[m] \/ discards > 0 \/ flags[m] > 0

(***************************************************************************)
(* A thread that waits for work gets the scheduler to stage some, although *)
(* the scheduler sleeps on a condition that is signalled, with nothing     *)
(* remembered, by whoever takes a work.  (Unless the pools have no work    *)
(* left.)                                                                  *)
(***************************************************************************)
WaitingIsHeard ==
    (\E m \in Miners : mpc[m] = "waiting") /\ staged_work = {}
        ~> staged_work # {} \/ works = MaxWorks
=============================================================================
