--------------------------- MODULE WorkHistoryProofs ---------------------------
(***************************************************************************)
(* Proof that get_work hands out no header twice, for any number of mining *)
(* threads, works and blocks, any queue and any kinds of pools.            *)
(***************************************************************************)
EXTENDS WorkHistory, WorkQueueProofs

-----------------------------------------------------------------------------
(***************************************************************************)
(* Once the watched header has been handed out, what is staged or held     *)
(* cannot yield it any more: of the works of its base the clones, which    *)
(* are never rolled again, have other rolls, and the master, which is      *)
(* rolled forwards only, has more.                                         *)
(***************************************************************************)
Spared(w) ==
    w.base = Watched[1] =>
        IF w.clone THEN w.rolls # Watched[2] ELSE w.rolls > Watched[2]

\* No work that may yet be handed out has the header.
StockSpared ==
    /\ \A w \in staged_work : Spared(w)
    /\ \A t \in Stagers : \A i \in DOMAIN held[t] : Spared(held[t][i])

\* What clone_work is about to roll is no clone.
MasterWhole == Whole => ~held["lp"][1].clone

PInv ==
    /\ MasterWhole
    /\ handed \in BOOLEAN
    /\ handed => StockSpared /\ Watched[1] \in 0 .. works - 1 /\ Watched[2] \in Nat

-----------------------------------------------------------------------------
(***************************************************************************)
(* Single works.                                                           *)
(***************************************************************************)

\* The block of a work does not matter.
LEMMA SparedLike ==
    ASSUME NEW v, NEW w, Like(v, w), Spared(w)
    PROVE  Spared(v)
BY DEF Like, Spared

\* A master that is rolled, and a clone of what it is rolled to, are as harmless as it.
LEMMA SparedRolled ==
    ASSUME NEW w \in Work, ~w.clone, Spared(w), NEW n \in Nat, Watched[2] \in Nat
    PROVE  Spared(Rolled(w, n)) /\ Spared(Clone(Rolled(w, n)))
<1>1. /\ Rolled(w, n).base = w.base /\ Rolled(w, n).rolls = w.rolls + n
      /\ Rolled(w, n).clone = w.clone
      /\ Clone(Rolled(w, n)).base = w.base /\ Clone(Rolled(w, n)).rolls = w.rolls + n
      /\ Clone(Rolled(w, n)).clone = TRUE
  BY DEF Rolled, Clone, Work
<1>2. w.rolls \in Nat
  BY DEF Work
<1> DEFINE a == Watched[2]
<1>3. a \in Nat /\ (w.base = Watched[1] => w.rolls > a)
  BY DEF Spared
<1> HIDE DEF a
<1>4. w.base = Watched[1] => w.rolls + n > a /\ w.rolls + n # a
  BY <1>2, <1>3
<1> QED
  BY <1>1, <1>4 DEF Spared, a

\* All that clone_work makes of a work.
LEMMA SparedClones ==
    ASSUME NEW w \in Work, ~w.clone, Spared(w), NEW n \in Nat, Watched[2] \in Nat,
           NEW c, c = CloneWork(w, n), NEW i \in DOMAIN c
    PROVE  Spared(c[i])
<1> DEFINE k == n + (IF n = 0 THEN 1 ELSE 2)
<1>1. k \in Nat /\ DOMAIN c = 1 .. k
  BY DEF CloneWork
<1>2. /\ i <= n => RollsOfClone(i) \in Nat
      /\ i > n + 1 => RollsOfClone(i - 1) \in Nat
  BY <1>1 DEF RollsOfClone
<1>3. CASE i <= n
  <2>1. c[i] = Clone(Rolled(w, RollsOfClone(i)))
    BY <1>1, <1>3 DEF CloneWork
  <2> QED
    BY <1>2, <1>3, <2>1, SparedRolled
<1>4. CASE i = n + 1
  <2>1. c[i] = Rolled(w, 2 * n) /\ 2 * n \in Nat
    BY <1>1, <1>4 DEF CloneWork
  <2> QED
    BY <2>1, SparedRolled
<1>5. CASE i > n + 1
  <2>1. c[i] = Clone(Rolled(w, RollsOfClone(i - 1)))
    BY <1>1, <1>5 DEF CloneWork
  <2> QED
    BY <1>2, <1>5, <2>1, SparedRolled
<1> QED
  BY <1>1, <1>3, <1>4, <1>5

-----------------------------------------------------------------------------
(***************************************************************************)
(* Steps.                                                                  *)
(***************************************************************************)

\* Stamping a work with its block makes none another.
LEMMA StampedLike ==
    ASSUME IInv, NEW t \in Stagers, pc[t] \in Laden, NEW b \in Nat,
           held' = [held EXCEPT ![t][1].block = b]
    PROVE  \A u \in Stagers : /\ DOMAIN held'[u] = DOMAIN held[u]
                              /\ \A i \in DOMAIN held[u] : Like(held'[u][i], held[u][i])
<1> DEFINE v == [held[t][1] EXCEPT !.block = b]
<1>1. /\ held[t] \in Seq(Work) /\ DOMAIN held[t] = 1 .. Len(held[t])
      /\ 1 \in DOMAIN held[t] /\ held[t][1] \in Work
  BY FirstWork
<1>2. Like(v, held[t][1])
  BY <1>1 DEF Work, Like
<1>3. held' = [held EXCEPT ![t] = [held[t] EXCEPT ![1] = v]]
  OBVIOUS
<1> HIDE DEF v
<1>4. /\ held'[t] = [held[t] EXCEPT ![1] = v]
      /\ \A u \in Stagers : u # t => held'[u] = held[u]
  BY <1>3 DEF IInv, StagersOK
<1>5. /\ DOMAIN held'[t] = DOMAIN held[t] /\ held'[t][1] = v
      /\ \A i \in DOMAIN held[t] : i # 1 => held'[t][i] = held[t][i]
  BY <1>1, <1>4
<1> QED
  BY <1>2, <1>4, <1>5 DEF Like

\* Nobody stages or holds a work that could have the header.
LEMMA Stock ==
    ASSUME StockSpared,
           \A w \in staged_work' : w \in staged_work \/ Spared(w),
           \A t \in Stagers : held'[t] = held[t]
                              \/ \A i \in DOMAIN held'[t] : Spared(held'[t][i])
    PROVE  StockSpared'
<1>1. \A w \in staged_work' : Spared(w)
  BY DEF StockSpared
<1>2. \A t \in Stagers : \A i \in DOMAIN held'[t] : Spared(held'[t][i])
  BY DEF StockSpared
<1> QED
  BY <1>1, <1>2 DEF StockSpared, Spared

\* Stamping keeps the stock harmless.
LEMMA StockStamped ==
    ASSUME IInv, StockSpared, NEW t \in Stagers, pc[t] \in Laden, NEW b \in Nat,
           held' = [held EXCEPT ![t][1].block = b], UNCHANGED staged_work
    PROVE  StockSpared'
<1>1. \A u \in Stagers : /\ DOMAIN held'[u] = DOMAIN held[u]
                         /\ \A i \in DOMAIN held[u] : Like(held'[u][i], held[u][i])
  BY StampedLike
<1>2. \A u \in Stagers : \A i \in DOMAIN held'[u] : Spared(held'[u][i])
  BY <1>1, SparedLike DEF StockSpared
<1> QED
  BY <1>2, Stock

\* Staging moves a work.
LEMMA StockPushed ==
    ASSUME IInv, StockSpared, NEW t \in Stagers, pc[t] \in Laden, Push(t)
    PROVE  StockSpared'
<1>1. /\ held[t] \in Seq(Work) /\ Len(held[t]) \in Nat \ {0}
      /\ DOMAIN held[t] = 1 .. Len(held[t]) /\ 1 \in DOMAIN held[t]
  BY FirstWork
<1>2. /\ held' = [held EXCEPT ![t] = Tail(held[t])]
      /\ staged_work' = staged_work \cup {held[t][1]}
  BY DEF Push, HashPush
<1>3. /\ held'[t] = Tail(held[t])
      /\ \A u \in Stagers : u # t => held'[u] = held[u]
  BY <1>2 DEF IInv, StagersOK
<1>4. \A i \in DOMAIN held'[t] : i + 1 \in DOMAIN held[t] /\ held'[t][i] = held[t][i + 1]
  BY <1>1, <1>3
<1>5. \A i \in DOMAIN held'[t] : Spared(held'[t][i])
  BY <1>4 DEF StockSpared
<1>6. Spared(held[t][1])
  BY <1>1 DEF StockSpared
<1> QED
  BY <1>2, <1>3, <1>5, <1>6, Stock

\* What a pool hands out is of another base.
LEMMA StockNew ==
    ASSUME IInv, StockSpared, NEW t \in Stagers, NewWork(t, Pools), UNCHANGED staged_work,
           Watched[1] \in 0 .. works - 1
    PROVE  StockSpared'
<1>1. PICK pool \in Pools : held' = [held EXCEPT ![t] =
          <<[base |-> works, rolls |-> 0, clone |-> FALSE, pool |-> pool, block |-> 0]>>]
  BY DEF NewWork
<1> DEFINE w == [base |-> works, rolls |-> 0, clone |-> FALSE, pool |-> pool, block |-> 0]
<1>2. w.base = works
  OBVIOUS
<1>3. held' = [held EXCEPT ![t] = <<w>>]
  BY <1>1
<1> HIDE DEF w
<1>4. /\ held'[t] = <<w>> /\ \A u \in Stagers : u # t => held'[u] = held[u]
      /\ DOMAIN held'[t] = {1} /\ held'[t][1] = w
  BY <1>3 DEF IInv, StagersOK
<1>5. w.base # Watched[1]
  <2> DEFINE a == Watched[1]
  <2>1. a \in 0 .. works - 1 /\ works \in Nat
    BY DEF IInv, RestOK
  <2> HIDE DEF a
  <2>2. works # a
    BY <2>1
  <2> QED
    BY <1>2, <2>2 DEF a
<1>6. Spared(w)
  BY <1>5 DEF Spared
<1> QED
  BY <1>4, <1>6, Stock

\* Once the header is gone from the stock it never comes back.
LEMMA StockStep ==
    ASSUME IInv, MasterWhole, StockSpared, Watched[1] \in 0 .. works - 1, Watched[2] \in Nat, Next
    PROVE  StockSpared'
<1> USE DEF chain, queueing, staging, mining, restarting
<1>0. ASSUME UNCHANGED held, staged_work' \subseteq staged_work
      PROVE  StockSpared'
  BY <1>0, Stock
<1>1. work_block \in Nat /\ work_block + 1 \in Nat
  BY DEF IInv, RestOK
<1>2. ASSUME NEW t \in Stagers, StagerStep(t) PROVE StockSpared'
  <2>1. CASE Stamp(t)
    BY <1>1, <2>1, StockStamped DEF Stamp, At, Laden
  <2>2. CASE TestAndPush(t)
    <3>1. pc[t] \in Laden
      BY <2>2 DEF TestAndPush, At, Laden
    <3> QED
      BY <1>0, <2>2, <3>1, StockPushed DEF TestAndPush
  <2>3. CASE AddBlock(t)
    <3>1. pc[t] \in Laden /\ UNCHANGED staged_work
      BY <2>3 DEF AddBlock, At, Laden
    <3>2. CASE UNCHANGED held
      BY <1>0, <3>1, <3>2
    <3>3. CASE held' = [held EXCEPT ![t][1].block = work_block + 1]
      BY <1>1, <3>1, <3>3, StockStamped
    <3> QED
      BY <2>3, <3>2, <3>3 DEF AddBlock, NewBlock
  <2>4. CASE PushNew(t)
    BY <2>4, StockPushed DEF PushNew, At, Laden
  <2> QED
    BY <1>2, <2>1, <2>2, <2>3, <2>4 DEF StagerStep
<1>3. CASE Announce
  <2>1. pc["lp"] \in Laden /\ UNCHANGED staged_work /\ "lp" \in Stagers
    BY <1>3 DEF Announce, At, Laden, Stagers
  <2>2. CASE UNCHANGED held
    BY <1>0, <2>1, <2>2
  <2>3. CASE held' = [held EXCEPT !["lp"][1].block = work_block + 1]
    BY <1>1, <2>1, <2>3, StockStamped
  <2> QED
    BY <1>3, <2>2, <2>3 DEF Announce, NewBlock, NewBlockElsewhere
<1>4. CASE LongPoll \/ SchedFetch
  BY <1>4, StockNew DEF LongPoll, SchedFetch, Stagers
<1>5. CASE Unwanted
  <2>1. held' = [held EXCEPT !["lp"] = <<>>] /\ UNCHANGED staged_work
    BY <1>5 DEF Unwanted
  <2>2. DOMAIN held'["lp"] = {} /\ \A u \in Stagers : u # "lp" => held'[u] = held[u]
    BY <2>1 DEF IInv, StagersOK, Stagers
  <2> QED
    BY <2>1, <2>2, Stock
<1>6. CASE Convert
  <2> DEFINE w == held["lp"][1]
  <2>1. PICK n \in Nat : held' = [held EXCEPT !["lp"] = CloneWork(w, n)]
    <3>1. Cardinality(Miners) + OptQueue \in Nat
      BY MinersAssumption, QueueAssumption, FS_CardinalityType
    <3>2. PICK k \in 0 .. Cardinality(Miners) + OptQueue :
            held' = [held EXCEPT !["lp"] = CloneWork(w, k)]
      BY <1>6 DEF Convert
    <3>3. k \in Nat
      BY <3>1
    <3> QED
      BY <3>2, <3>3, Zenon
  <2>2. /\ pc["lp"] = "convert" /\ "lp" \in Stagers /\ UNCHANGED staged_work
        /\ pc["lp"] \in Laden /\ Whole
    BY <1>6 DEF Convert, At, Laden, Stagers, Whole
  <2>3. w \in Work /\ 1 \in DOMAIN held["lp"] /\ ~w.clone
    BY <2>2, FirstWork DEF MasterWhole
  <2>4. Spared(w)
    BY <2>2, <2>3 DEF StockSpared
  <2> DEFINE c == CloneWork(w, n)
  <2>5. \A i \in DOMAIN c : Spared(c[i])
    <3>1. c = CloneWork(w, n)
      OBVIOUS
    <3> HIDE DEF c, w
    <3> QED
      BY <2>3, <2>4, <3>1, SparedClones
  <2>6. /\ held'["lp"] = c /\ \A u \in Stagers : u # "lp" => held'[u] = held[u]
    <3> HIDE DEF c
    <3> QED
      BY <2>1, <2>2 DEF c, IInv, StagersOK
  <2> HIDE DEF c, w
  <2> QED
    BY <2>2, <2>5, <2>6, Stock
<1>7. CASE SchedClone
  <2>1. PICK w \in staged_work : CanRoll(w) /\ CloneAvailable(w)
    BY <1>7 DEF SchedClone
  <2>2. w \in Work /\ ~w.clone /\ Spared(w)
    BY <2>1 DEF IInv, QueueOK, CanRoll, work_rollable, StockSpared
  <2> DEFINE m == Rolled(w, 2)
             v == Clone(Rolled(w, 1))
  <2>3. Spared(m) /\ Spared(v)
    BY <2>2, SparedRolled
  <2>4. staged_work' = (staged_work \ {w}) \cup {m} /\ held' = [held EXCEPT !["sched"] = <<v>>]
    BY <2>1 DEF CloneAvailable
  <2> HIDE DEF m, v
  <2>5. /\ \A u \in Stagers : u # "sched" => held'[u] = held[u]
        /\ DOMAIN held'["sched"] = {1} /\ held'["sched"][1] = v
    BY <2>4 DEF IInv, StagersOK, Stagers
  <2> QED
    BY <2>3, <2>4, <2>5, Stock
<1>8. CASE SchedLimit \/ SchedLook \/ SchedWoken \/ SchedDrop
  BY <1>0, <1>8 DEF SchedLimit, SchedLook, SchedWoken, SchedDrop, Take
<1>9. CASE ClearPoolWork \/ Watchdog \/ RestartDiscard
  BY <1>0, <1>9 DEF ClearPoolWork, Watchdog, RestartDiscard, DiscardStale
<1>10. ASSUME NEW m \in Miners, MinerStep(m) \/ RestartFlag(m) PROVE StockSpared'
  BY <1>0, <1>10 DEF MinerStep, GetWork, Take, HashPopEmpty, ClearRestart, Scanned,
     Shutdown, RestartFlag
<1> QED
  BY <1>2, <1>3, <1>4, <1>5, <1>6, <1>7, <1>8, <1>9, <1>10
  DEF Next, SchedStep, LongPollStep, Stagers

\* The work the pool's thread converts is what it has been handed.
LEMMA MasterStep ==
    ASSUME IInv, MasterWhole, Next
    PROVE  MasterWhole'
<1> USE DEF chain, queueing, staging, mining, restarting, MasterWhole
<1>0. ASSUME held'["lp"] = held["lp"], Whole' => Whole
      PROVE  MasterWhole'
  BY <1>0
<1>1. work_block \in Nat /\ work_block + 1 \in Nat
  BY DEF IInv, RestOK
<1>2. ASSUME NEW t \in Stagers, pc[t] \in Laden, NEW b \in Nat,
             held' = [held EXCEPT ![t][1].block = b], Whole' => Whole
      PROVE  MasterWhole'
  <2>1. \A u \in Stagers : \A i \in DOMAIN held[u] : Like(held'[u][i], held[u][i])
    BY <1>2, StampedLike
  <2>2. Whole => "lp" \in Stagers /\ 1 \in DOMAIN held["lp"]
    BY FirstWork DEF Whole, Laden, Stagers
  <2> QED
    BY <1>2, <2>1, <2>2 DEF Like
<1>3. ASSUME NEW t \in Stagers, Push(t), pc[t] \in {"test", "push"} PROVE MasterWhole'
  <2>1. /\ held' = [held EXCEPT ![t] = Tail(held[t])]
        /\ pc' = [pc EXCEPT ![t] = "stamp"] \/ pc' = [pc EXCEPT ![t] = Home(t)]
    BY <1>3 DEF Push, Go
  <2>2. CASE t = "lp"
    <3>1. ~Whole'
      BY <2>1, <2>2 DEF Whole, Home, IInv, StagersOK, Stagers
    <3> QED
      BY <3>1
  <2>3. CASE t # "lp"
    <3>1. held'["lp"] = held["lp"] /\ (Whole' => Whole)
      BY <2>1, <2>3 DEF Whole, IInv, StagersOK, Stagers
    <3> QED
      BY <1>0, <3>1
  <2> QED
    BY <2>2, <2>3
<1>4. ASSUME NEW t \in Stagers, StagerStep(t) PROVE MasterWhole'
  <2>1. CASE Stamp(t)
    <3>1. Whole' => Whole
      BY <2>1 DEF Stamp, At, Go, Whole, IInv, StagersOK, Stagers
    <3> QED
      BY <1>1, <1>2, <2>1, <3>1 DEF Stamp, At, Laden
  <2>2. CASE TestAndPush(t)
    <3>1. CASE prev[t] \in blocks
      BY <1>3, <2>2, <3>1 DEF TestAndPush, At
    <3>2. CASE prev[t] \notin blocks
      <4>1. Whole' => Whole
        BY <2>2, <3>2 DEF TestAndPush, At, Go, Whole, IInv, StagersOK, Stagers
      <4> QED
        BY <1>0, <2>2, <3>2, <4>1 DEF TestAndPush
    <3> QED
      BY <3>1, <3>2
  <2>3. CASE AddBlock(t)
    <3>1. pc[t] \in Laden /\ (Whole' => Whole)
      BY <2>3 DEF AddBlock, At, Go, Laden, Whole, IInv, StagersOK, Stagers
    <3>2. CASE UNCHANGED held
      BY <1>0, <3>1, <3>2
    <3>3. CASE held' = [held EXCEPT ![t][1].block = work_block + 1]
      BY <1>1, <1>2, <3>1, <3>3
    <3> QED
      BY <2>3, <3>2, <3>3 DEF AddBlock, NewBlock
  <2>4. CASE PushNew(t)
    BY <1>3, <2>4 DEF PushNew, At
  <2> QED
    BY <1>4, <2>1, <2>2, <2>3, <2>4 DEF StagerStep
<1>5. CASE Announce
  <2>1. pc["lp"] \in Laden /\ Whole /\ "lp" \in Stagers
    BY <1>5 DEF Announce, At, Laden, Whole, Stagers
  <2>2. CASE UNCHANGED held
    BY <1>0, <2>1, <2>2
  <2>3. CASE held' = [held EXCEPT !["lp"][1].block = work_block + 1]
    BY <1>1, <1>2, <2>1, <2>3
  <2> QED
    BY <1>5, <2>2, <2>3 DEF Announce, NewBlock, NewBlockElsewhere
<1>6. CASE LongPoll
  <2>1. PICK pool \in Pools : held' = [held EXCEPT !["lp"] =
            <<[base |-> works, rolls |-> 0, clone |-> FALSE, pool |-> pool, block |-> 0]>>]
    BY <1>6 DEF LongPoll, NewWork
  <2>2. held'["lp"] =
            <<[base |-> works, rolls |-> 0, clone |-> FALSE, pool |-> pool, block |-> 0]>>
    BY <2>1 DEF IInv, StagersOK, Stagers
  <2> QED
    BY <2>2
<1>7. CASE Unwanted \/ Convert
  BY <1>7 DEF Unwanted, Convert, Go, Whole, IInv, StagersOK, Stagers
<1>8. CASE SchedClone \/ SchedFetch
  BY <1>8 DEF SchedClone, CloneAvailable, SchedFetch, NewWork, Go, Whole, IInv, StagersOK,
     Stagers
<1>9. CASE SchedLimit \/ SchedLook \/ SchedWoken \/ SchedDrop
  BY <1>9 DEF SchedLimit, SchedLook, SchedWoken, SchedDrop, Go, Whole, IInv, StagersOK,
     Stagers
<1>10. CASE ClearPoolWork \/ Watchdog \/ RestartDiscard
  BY <1>10 DEF ClearPoolWork, Watchdog, RestartDiscard, Whole
<1>11. ASSUME NEW m \in Miners, MinerStep(m) \/ RestartFlag(m) PROVE MasterWhole'
  BY <1>11 DEF MinerStep, GetWork, HashPopEmpty, ClearRestart, Scanned, Shutdown,
     RestartFlag, Whole
<1> QED
  BY <1>4, <1>5, <1>6, <1>7, <1>8, <1>9, <1>10, <1>11
  DEF Next, SchedStep, LongPollStep, Stagers

\* Only get_work gives a thread a work, and it is one that was staged.
LEMMA HandedByGetWork ==
    ASSUME IInv, Next, NEW m \in Miners, Handed(m)
    PROVE  \E w \in staged_work :
             /\ Header(w) = Watched
             /\ staged_work' = staged_work \ {w}
             /\ UNCHANGED <<held, works>>
<1> USE DEF chain, queueing, staging, mining, restarting, Handed
<1>1. ASSUME NEW n \in Miners, GetWork(n)
      PROVE  \E w \in staged_work :
               /\ Header(w) = Watched
               /\ staged_work' = staged_work \ {w}
               /\ UNCHANGED <<held, works>>
  <2>1. PICK w \in Candidates :
          /\ Take(w)
          /\ work' = [work EXCEPT ![n] = w] \/ UNCHANGED work
    BY <1>1 DEF GetWork
  <2>2. work'[m] = w
    BY <2>1 DEF IInv, RestOK
  <2>3. w \in staged_work /\ staged_work' = staged_work \ {w}
    BY <2>1 DEF Candidates, Take
  <2> QED
    BY <1>1, <2>2, <2>3 DEF GetWork
<1>2. ASSUME NEW n \in Miners, Scanned(n) \/ Shutdown(n) PROVE FALSE
  <2>1. work'[m] = work[m] \/ work'[m] = NoWork
    BY <1>2 DEF Scanned, Shutdown, Free, IInv, RestOK
  <2> QED
    BY <2>1
<1>3. UNCHANGED work => FALSE
  OBVIOUS
<1>4. ASSUME NEW n \in Miners, HashPopEmpty(n) \/ ClearRestart(n) \/ RestartFlag(n)
      PROVE  FALSE
  BY <1>3, <1>4 DEF HashPopEmpty, ClearRestart, RestartFlag
<1>5. ASSUME NEW t \in Stagers, StagerStep(t) PROVE FALSE
  BY <1>3, <1>5 DEF StagerStep, Stamp, TestAndPush, AddBlock, PushNew
<1>6. CASE Announce \/ Convert \/ Unwanted \/ LongPoll
  BY <1>3, <1>6 DEF Announce, Convert, Unwanted, LongPoll
<1>7. CASE SchedLimit \/ SchedLook \/ SchedWoken \/ SchedDrop \/ SchedClone \/ SchedFetch
  BY <1>3, <1>7 DEF SchedLimit, SchedLook, SchedWoken, SchedDrop, SchedClone, SchedFetch
<1>8. CASE ClearPoolWork \/ Watchdog \/ RestartDiscard
  BY <1>3, <1>8 DEF ClearPoolWork, Watchdog, RestartDiscard
<1> QED
  BY <1>1, <1>2, <1>4, <1>5, <1>6, <1>7, <1>8
  DEF Next, SchedStep, LongPollStep, MinerStep, Stagers

\* When a work is taken nothing is left that could get its header again.
LEMMA TakenSpares ==
    ASSUME IInv, HInv, NEW w \in staged_work, Header(w) = Watched,
           staged_work' = staged_work \ {w}, UNCHANGED held
    PROVE  StockSpared' /\ Watched[1] \in 0 .. works - 1 /\ Watched[2] \in Nat
<1>1. /\ Staged(w) \in Items /\ WorkOn(Staged(w)) = w /\ w \in Work
      /\ w.base = Watched[1] /\ w.rolls = Watched[2]
  <2>1. w \in Work
    BY DEF IInv, QueueOK
  <2>2. w.base = Watched[1] /\ w.rolls = Watched[2]
    BY DEF Header
  <2> QED
    BY <2>1, <2>2, ItemAt, ItemsAre DEF AreItems
<1>2. Watched[1] \in 0 .. works - 1 /\ Watched[2] \in Nat
  <2>1. w.base < works /\ w.base \in Nat /\ w.rolls \in Nat
    BY <1>1 DEF HInv, HandedOut, Work
  <2>2. works \in Nat
    BY DEF IInv, RestOK
  <2>3. w.base \in 0 .. works - 1
    BY <2>1, <2>2
  <2> QED
    BY <1>1, <2>1, <2>3
<1>3. ASSUME NEW x \in Items, x # Staged(w) PROVE Spared(WorkOn(x))
  <2> DEFINE v == WorkOn(x)
  <2>1. v \in Work /\ v.rolls \in Nat /\ w.rolls \in Nat
    BY <1>1, ItemTypes DEF Work
  <2>2. v.base = w.base => v.rolls # w.rolls
    BY <1>1, <1>3 DEF HInv, Distinct, Header
  <2>3. v.base = w.base /\ ~v.clone => w.rolls <= v.rolls
    BY <1>1, <1>3 DEF HInv, Masters
  <2> HIDE DEF v
  <2>4. v.base = w.base /\ ~v.clone => v.rolls > w.rolls
    BY <2>1, <2>2, <2>3
  <2>5. Spared(v)
    BY <1>1, <2>2, <2>4 DEF Spared
  <2> QED
    BY <2>5 DEF v
<1>4. \A v \in staged_work' : Spared(v)
  BY <1>3, ItemAt, ItemsAre DEF AreItems
<1>5. \A t \in Stagers : \A i \in DOMAIN held[t] : Spared(held[t][i])
  BY <1>3, ItemAt, ItemsAre DEF AreItems
<1> QED
  BY <1>2, <1>4, <1>5 DEF StockSpared, Spared

\* A work with the header is not among those that cannot have it.
LEMMA NotSpared ==
    ASSUME NEW w, Header(w) = Watched, Spared(w), Watched[2] \in Nat
    PROVE  FALSE
<1>1. w.base = Watched[1] /\ w.rolls = Watched[2]
  BY DEF Header
<1> DEFINE a == Watched[2]
<1>2. a \in Nat /\ (w.rolls # a \/ w.rolls > a) /\ w.rolls = a
  BY <1>1 DEF Spared
<1> HIDE DEF a
<1> QED
  BY <1>2

\* Every step keeps the memory and the stock apart.
LEMMA PastStep ==
    ASSUME IInv, HInv, PInv, HistoryNext
    PROVE  PInv' /\ \A m \in Miners : Handed(m) => ~handed
<1>1. Next /\ handed' = (handed \/ \E m \in Miners : Handed(m))
  BY DEF HistoryNext
<1>2. MasterWhole'
  BY <1>1, MasterStep DEF PInv
<1>3. works' \in Nat /\ works <= works' /\ works \in Nat
  <2>1. works' = works \/ works' = works + 1
    BY <1>1 DEF Next, SchedStep, LongPollStep, StagerStep, MinerStep, Stamp, TestAndPush,
       AddBlock, PushNew, Announce, Convert, Unwanted, LongPoll, NewWork, SchedLimit,
       SchedLook, SchedWoken, SchedDrop, SchedClone, SchedFetch, ClearPoolWork, Watchdog,
       RestartDiscard, GetWork, HashPopEmpty, ClearRestart, Scanned, Shutdown, RestartFlag,
       chain
  <2> QED
    BY <2>1 DEF IInv, RestOK
<1>4. ASSUME NEW m \in Miners, Handed(m)
      PROVE  ~handed /\ StockSpared' /\ Watched[1] \in 0 .. works' - 1 /\ Watched[2] \in Nat
  <2>1. PICK w \in staged_work :
          /\ Header(w) = Watched
          /\ staged_work' = staged_work \ {w}
          /\ UNCHANGED <<held, works>>
    BY <1>1, <1>4, HandedByGetWork
  <2>2. StockSpared' /\ Watched[1] \in 0 .. works - 1 /\ Watched[2] \in Nat
    BY <2>1, TakenSpares
  <2>3. ~handed
    BY <2>1, <2>2, NotSpared DEF PInv, StockSpared
  <2> QED
    BY <2>1, <2>2, <2>3
<1>5. handed' \in BOOLEAN
  BY <1>1 DEF PInv
<1>6. ASSUME handed PROVE StockSpared' /\ Watched[1] \in 0 .. works' - 1 /\ Watched[2] \in Nat
  <2>1. StockSpared /\ Watched[1] \in 0 .. works - 1 /\ Watched[2] \in Nat
    BY <1>6 DEF PInv
  <2>2. StockSpared'
    BY <1>1, <2>1, StockStep DEF PInv
  <2>3. Watched[1] \in 0 .. works' - 1
    <3> DEFINE a == Watched[1]
    <3>1. a \in 0 .. works - 1
      BY <2>1
    <3> HIDE DEF a
    <3> DEFINE b == works'
               c == works
    <3>2. b \in Nat /\ c <= b /\ c \in Nat /\ a \in 0 .. c - 1
      BY <1>3, <3>1
    <3> HIDE DEF b, c
    <3>3. a \in 0 .. b - 1
      BY <3>2
    <3> QED
      BY <3>3 DEF a, b
  <2> QED
    BY <2>1, <2>2, <2>3
<1>7. handed' => StockSpared' /\ Watched[1] \in 0 .. works' - 1 /\ Watched[2] \in Nat
  BY <1>1, <1>4, <1>6
<1> QED
  BY <1>2, <1>4, <1>5, <1>7 DEF PInv, Spared

(***************************************************************************)
(* get_work returns every header once at most: not to two threads, and not *)
(* again when the work that had it is long done, however works are rolled, *)
(* cloned, staged, discarded and popped.                                   *)
(***************************************************************************)
THEOREM NothingIsHandedTwice == HistorySpec => HandedOnce
<1> DEFINE Inv == IInv /\ HInv /\ PInv
<1>1. HistorySpec => Spec
  <2>1. HistoryInit => Init
    BY DEF HistoryInit
  <2>2. [HistoryNext]_hvars => [Next]_vars
    BY DEF HistoryNext, hvars
  <2> QED
    BY <2>1, <2>2, PTL DEF HistorySpec, Spec
<1>2. HistoryInit => PInv
  <2>1. Init => ~Whole
    BY DEF Init, Whole, Home, Stagers
  <2> QED
    BY <2>1 DEF HistoryInit, PInv, MasterWhole
<1>3. IInv /\ HInv /\ PInv /\ [HistoryNext]_hvars => PInv'
  <2> SUFFICES ASSUME IInv, HInv, PInv, [HistoryNext]_hvars PROVE PInv'
    OBVIOUS
  <2>1. CASE UNCHANGED hvars
    <3>1. UNCHANGED <<pc, held, staged_work, works, handed>>
      BY <2>1 DEF hvars, vars, chain, queueing, staging
    <3> QED
      BY <3>1 DEF PInv, MasterWhole, Whole, StockSpared, Spared
  <2> QED
    BY <2>1, PastStep
<1>4. IInv /\ HInv /\ PInv /\ [HistoryNext]_hvars
        => [\A m \in Miners : Handed(m) => ~handed]_hvars
  BY PastStep
<1> QED
  BY <1>1, <1>2, <1>3, <1>4, ItemsApart, PTL DEF HistorySpec, HandedOnce
=============================================================================
