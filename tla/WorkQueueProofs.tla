--------------------------- MODULE WorkQueueProofs ---------------------------
(***************************************************************************)
(* Proofs of the safety properties of WorkQueue, for any number of mining  *)
(* threads, works and blocks, any queue and any kinds of pools.            *)
(***************************************************************************)
EXTENDS WorkQueue, FiniteSetTheorems, TLAPS

-----------------------------------------------------------------------------
(***************************************************************************)
(* Works.                                                                  *)
(***************************************************************************)

\* Rolling and cloning make works of works; only a clone cannot be rolled.
LEMMA WorkOf ==
    ASSUME NEW w \in Work, NEW n \in Nat
    PROVE  /\ Rolled(w, n) \in Work /\ Clone(w) \in Work
           /\ work_rollable(Rolled(w, n)) = work_rollable(w)
           /\ Rolled(w, n).rolls = w.rolls + n /\ w.rolls \in Nat
<1>1. w.rolls \in Nat /\ w.rolls + n \in Nat
  BY DEF Work
<1>2. Rolled(w, n) \in Work /\ Rolled(w, n).rolls = w.rolls + n
  BY <1>1 DEF Work, Rolled
<1>3. Rolled(w, n).clone = w.clone /\ Rolled(w, n).pool = w.pool
  BY DEF Work, Rolled
<1>4. Clone(w) \in Work
  BY DEF Work, Clone
<1> QED
  BY <1>1, <1>2, <1>3, <1>4 DEF work_rollable

\* What clone_work yields is a sequence of works, and not empty.
LEMMA ClonesOf ==
    ASSUME NEW w \in Work, NEW n \in Nat
    PROVE  CloneWork(w, n) \in Seq(Work) /\ CloneWork(w, n) # <<>>
<1> DEFINE k == n + (IF n = 0 THEN 1 ELSE 2)
           c == CloneWork(w, n)
<1>1. k \in Nat /\ k > 0
  OBVIOUS
<1>2. \A i \in 1 .. k : RollsOfClone(i) \in Nat /\ (i > 1 => RollsOfClone(i - 1) \in Nat)
  BY <1>1 DEF RollsOfClone
<1>3. \A i \in 1 .. k : c[i] \in Work
  <2> SUFFICES ASSUME NEW i \in 1 .. k PROVE c[i] \in Work
    OBVIOUS
  <2>1. CASE i <= n
    <3>1. c[i] = Clone(Rolled(w, RollsOfClone(i)))
      BY <2>1 DEF CloneWork
    <3> QED
      BY <3>1, <1>2, WorkOf
  <2>2. CASE i = n + 1
    <3>1. c[i] = Rolled(w, 2 * n) /\ 2 * n \in Nat
      BY <2>2 DEF CloneWork
    <3> QED
      BY <3>1, WorkOf
  <2>3. CASE i > n + 1
    <3>1. c[i] = Clone(Rolled(w, RollsOfClone(i - 1))) /\ i > 1
      BY <2>3 DEF CloneWork
    <3> QED
      BY <3>1, <1>2, WorkOf
  <2> QED
    BY <2>1, <2>2, <2>3, <1>1
<1>4. c = [i \in 1 .. k |-> c[i]]
  BY DEF CloneWork
<1>5. c \in [1 .. k -> Work]
  <2> HIDE DEF c
  <2> QED
    BY <1>3, <1>4
<1>6. c \in Seq(Work) /\ Len(c) = k
  <2> HIDE DEF c, k
  <2> QED
    BY <1>1, <1>5
<1> QED
  BY <1>1, <1>6
-----------------------------------------------------------------------------
(***************************************************************************)
(* How many of a finite set of works can be rolled.                        *)
(***************************************************************************)

\* They are a finite set.
LEMMA RollableFinite ==
    ASSUME NEW S, IsFiniteSet(S)
    PROVE  IsFiniteSet(Rollable(S)) /\ Cardinality(Rollable(S)) \in Nat
BY FS_Subset, FS_CardinalityType DEF Rollable

\* Fewer works, not more that can be rolled.
LEMMA RollableSubset ==
    ASSUME NEW S, IsFiniteSet(S), NEW T \in SUBSET S
    PROVE  /\ IsFiniteSet(T)
           /\ Cardinality(Rollable(T)) <= Cardinality(Rollable(S))
<1>1. Rollable(T) \in SUBSET Rollable(S)
  BY DEF Rollable
<1> QED
  BY <1>1, RollableFinite, FS_Subset

\* One work more.
LEMMA RollableAdd ==
    ASSUME NEW S, IsFiniteSet(S), NEW w
    PROVE  /\ IsFiniteSet(S \cup {w})
           /\ Cardinality(Rollable(S \cup {w})) <=
                Cardinality(Rollable(S)) + Count(work_rollable(w))
<1>1. Rollable(S \cup {w}) =
        IF work_rollable(w) THEN Rollable(S) \cup {w} ELSE Rollable(S)
  BY DEF Rollable
<1>2. IsFiniteSet(Rollable(S)) /\ Cardinality(Rollable(S)) \in Nat
  BY RollableFinite
<1>3. Cardinality(Rollable(S) \cup {w}) <= Cardinality(Rollable(S)) + 1
  BY <1>2, FS_AddElement
<1> QED
  BY <1>1, <1>2, <1>3, FS_AddElement DEF Count

\* One work less.
LEMMA RollableRemove ==
    ASSUME NEW S, IsFiniteSet(S), NEW w \in S
    PROVE  /\ IsFiniteSet(S \ {w})
           /\ Cardinality(Rollable(S \ {w})) =
                Cardinality(Rollable(S)) - Count(work_rollable(w))
<1>1. Rollable(S \ {w}) =
        IF work_rollable(w) THEN Rollable(S) \ {w} ELSE Rollable(S)
  BY DEF Rollable
<1>2. IsFiniteSet(Rollable(S)) /\ Cardinality(Rollable(S)) \in Nat
  BY RollableFinite
<1>3. IsFiniteSet(S \ {w})
  BY FS_RemoveElement
<1>4. CASE work_rollable(w)
  <2>1. w \in Rollable(S)
    BY <1>4 DEF Rollable
  <2>2. Cardinality(Rollable(S) \ {w}) = Cardinality(Rollable(S)) - 1
    BY <1>2, <2>1, FS_RemoveElement
  <2> QED
    BY <1>1, <1>3, <1>4, <2>2 DEF Count
<1>5. CASE ~work_rollable(w)
  BY <1>1, <1>2, <1>3, <1>5 DEF Count
<1> QED
  BY <1>4, <1>5
-----------------------------------------------------------------------------
(***************************************************************************)
(* Types.                                                                  *)
(***************************************************************************)

\* The places at which a thread has a work to stage.
Laden == {"announce", "announce new", "convert", "stamp", "test", "new", "push"}

Holding == \A t \in Stagers : pc[t] \in Laden => held[t] # <<>>

\* The queue, as far as counting goes.
QueueOK ==
    /\ staged_work \in SUBSET Work /\ IsFiniteSet(staged_work)
    /\ staged_rollable \in Nat
    /\ RollableCounted

\* The threads that stage works.
StagersOK ==
    /\ pc \in [Stagers -> StagerPlaces]
    /\ held \in [Stagers -> Seq(Work)] /\ prev \in [Stagers -> Nat]
    /\ Holding

RestOK ==
    /\ net \in Nat /\ works \in Nat /\ work_block \in Nat
    /\ blocks \in SUBSET Nat
    /\ max_queue \in 1 .. OptQueue /\ max_staged \in Nat
    /\ gws \in BOOLEAN
    /\ mpc \in [Miners -> MinerPlaces]
    /\ work \in [Miners -> Work \cup {NoWork}]
    /\ getq \in SUBSET Miners
    /\ work_restart \in [Miners -> BOOLEAN] /\ untold \in [Miners -> BOOLEAN]
    /\ discards \in Nat /\ flags \in [Miners -> Nat]

IInv == QueueOK /\ StagersOK /\ RestOK

\* Together they are the type invariant and more.
LEMMA Parts == IInv => TypeOK /\ RollableCounted /\ Holding
BY DEF IInv, QueueOK, StagersOK, RestOK, TypeOK

\* Each of the steps that take, add or replace works keeps the count.
LEMMA PushCounts ==
    ASSUME QueueOK, NEW w \in Work,
           staged_work' = staged_work \cup {w},
           staged_rollable' = staged_rollable + Count(work_rollable(w))
    PROVE  QueueOK'
<1>1. Count(work_rollable(w)) \in {0, 1}
  BY DEF Count
<1>2. Cardinality(Rollable(staged_work)) \in Nat
  BY RollableFinite DEF QueueOK
<1>3. /\ IsFiniteSet(staged_work \cup {w})
      /\ Cardinality(Rollable(staged_work \cup {w})) <=
            Cardinality(Rollable(staged_work)) + Count(work_rollable(w))
  BY RollableAdd DEF QueueOK
<1>4. Cardinality(Rollable(staged_work \cup {w})) \in Nat
  BY <1>3, RollableFinite
<1> QED
  BY <1>1, <1>2, <1>3, <1>4 DEF QueueOK, RollableCounted

\* hash_pop: a work that can be rolled has been counted.
LEMMA TakeCounts ==
    ASSUME QueueOK, NEW w \in Candidates, Take(w)
    PROVE  QueueOK' /\ w \in staged_work
<1>1. w \in staged_work
  BY DEF Candidates
<1>2. Cardinality(Rollable(staged_work)) \in Nat
  BY RollableFinite DEF QueueOK
<1>3. /\ IsFiniteSet(staged_work \ {w})
      /\ Cardinality(Rollable(staged_work \ {w})) =
            Cardinality(Rollable(staged_work)) - Count(work_rollable(w))
  BY <1>1, RollableRemove DEF QueueOK
<1>4. Cardinality(Rollable(staged_work \ {w})) \in Nat
  BY <1>3, RollableFinite
<1>5. Count(work_rollable(w)) \in {0, 1}
  BY DEF Count
<1> QED
  BY <1>1, <1>2, <1>3, <1>4, <1>5 DEF QueueOK, RollableCounted, Take

\* What discards works without counting leaves the count too high.
LEMMA DropCounts ==
    ASSUME QueueOK, staged_work' \in SUBSET staged_work, UNCHANGED staged_rollable
    PROVE  QueueOK'
<1>1. /\ IsFiniteSet(staged_work')
      /\ Cardinality(Rollable(staged_work')) <= Cardinality(Rollable(staged_work))
  BY RollableSubset DEF QueueOK
<1>2. /\ Cardinality(Rollable(staged_work)) \in Nat
      /\ Cardinality(Rollable(staged_work')) \in Nat
  BY <1>1, RollableFinite DEF QueueOK
<1> QED
  BY <1>1, <1>2 DEF QueueOK, RollableCounted

\* clone_available: the master takes the place of what it was.
LEMMA CloneCounts ==
    ASSUME QueueOK, NEW w \in staged_work, CanRoll(w),
           staged_work' = (staged_work \ {w}) \cup {Rolled(w, 2)},
           UNCHANGED staged_rollable
    PROVE  QueueOK'
<1>1. w \in Work /\ work_rollable(w)
  BY DEF QueueOK, CanRoll
<1>2. Rolled(w, 2) \in Work /\ work_rollable(Rolled(w, 2))
  BY <1>1, WorkOf
<1> DEFINE S == staged_work \ {w}
<1>3. /\ IsFiniteSet(S)
      /\ Cardinality(Rollable(S)) = Cardinality(Rollable(staged_work)) - 1
  BY <1>1, RollableRemove DEF QueueOK, Count
<1>4. /\ IsFiniteSet(S \cup {Rolled(w, 2)})
      /\ Cardinality(Rollable(S \cup {Rolled(w, 2)})) <= Cardinality(Rollable(S)) + 1
  BY <1>2, <1>3, RollableAdd DEF Count
<1>5. /\ Cardinality(Rollable(staged_work)) \in Nat
      /\ Cardinality(Rollable(S \cup {Rolled(w, 2)})) \in Nat
  BY <1>4, RollableFinite DEF QueueOK
<1> QED
  BY <1>1, <1>2, <1>3, <1>4, <1>5 DEF QueueOK, RollableCounted

\* A thread at a laden place holds a work, and what is left of its works are works.
LEMMA HeldWork ==
    ASSUME StagersOK, NEW t \in Stagers, pc[t] \in Laden
    PROVE  /\ Len(held[t]) \in Nat \ {0}
           /\ held[t][1] \in Work
           /\ Tail(held[t]) \in Seq(Work)
           /\ Len(held[t]) > 1 => Tail(held[t]) # <<>>
<1>1. held[t] \in Seq(Work) /\ held[t] # <<>>
  BY DEF StagersOK, Holding
<1>2. Len(held[t]) \in Nat \ {0}
  BY <1>1
<1>3. held[t][1] \in Work
  BY <1>1, <1>2
<1>4. Tail(held[t]) \in Seq(Work) /\ Len(Tail(held[t])) = Len(held[t]) - 1
  BY <1>1, <1>2
<1>5. Len(held[t]) > 1 => Tail(held[t]) # <<>>
  <2> DEFINE s == Tail(held[t])
             k == Len(held[t])
  <2>1. k \in Nat /\ s \in Seq(Work) /\ Len(s) = k - 1
    BY <1>2, <1>4
  <2> HIDE DEF s, k
  <2>2. k > 1 => s # <<>>
    BY <2>1
  <2> QED
    BY <2>2 DEF s, k
<1> QED
  BY <1>2, <1>3, <1>4, <1>5, Zenon

\* The counting holds in every step.
LEMMA QueueStep ==
    ASSUME IInv, Next
    PROVE  QueueOK'
<1> USE DEF IInv
<1>0. CASE UNCHANGED <<staged_work, staged_rollable>>
  BY <1>0 DEF QueueOK, RollableCounted
<1>1. ASSUME NEW t \in Stagers, Push(t), pc[t] \in {"test", "push"}
      PROVE  QueueOK'
  <2>1. held[t][1] \in Work
    BY <1>1, HeldWork DEF Laden
  <2> QED
    BY <1>1, <2>1, PushCounts DEF Push, HashPush
<1>2. ASSUME NEW t \in Stagers, StagerStep(t) PROVE QueueOK'
  BY <1>0, <1>1, <1>2 DEF StagerStep, Stamp, TestAndPush, AddBlock, PushNew, At,
     queueing
<1>3. CASE LongPoll \/ Announce \/ Convert \/ Unwanted
  BY <1>0, <1>3 DEF LongPoll, Announce, Convert, Unwanted, queueing
<1>4. CASE SchedLimit \/ SchedLook \/ SchedWoken \/ SchedFetch
  BY <1>0, <1>4 DEF SchedLimit, SchedLook, SchedWoken, SchedFetch, queueing
<1>5. CASE SchedDrop
  BY <1>0, <1>5, TakeCounts DEF SchedDrop
<1>6. CASE SchedClone
  BY <1>6, CloneCounts DEF SchedClone, CloneAvailable
<1>7. CASE ClearPoolWork
  <2>1. staged_work' \in SUBSET staged_work /\ UNCHANGED staged_rollable
    BY <1>7 DEF ClearPoolWork
  <2> QED
    BY <2>1, DropCounts
<1>8. CASE Watchdog \/ RestartDiscard
  <2>1. staged_work' \in SUBSET staged_work /\ UNCHANGED staged_rollable
    BY <1>8 DEF Watchdog, RestartDiscard, DiscardStale
  <2> QED
    BY <2>1, DropCounts
<1>9. ASSUME NEW m \in Miners, MinerStep(m) \/ RestartFlag(m) PROVE QueueOK'
  <2>1. CASE GetWork(m)
    BY <2>1, TakeCounts DEF GetWork
  <2>2. CASE HashPopEmpty(m) \/ ClearRestart(m) \/ Scanned(m) \/ Shutdown(m) \/ RestartFlag(m)
    BY <1>0, <2>2 DEF HashPopEmpty, ClearRestart, Scanned, Shutdown, RestartFlag,
       queueing
  <2> QED
    BY <1>9, <2>1, <2>2 DEF MinerStep
<1> QED
  BY <1>2, <1>3, <1>4, <1>5, <1>6, <1>7, <1>8, <1>9
     DEF Next, SchedStep, LongPollStep, Stagers

\* What the threads hold stay works, and a thread about to stage has one.
LEMMA StagersStep ==
    ASSUME IInv, Next
    PROVE  StagersOK'
<1> USE DEF IInv
<1>0. CASE UNCHANGED <<pc, held, prev>>
  BY <1>0 DEF StagersOK, Holding
<1>1. ASSUME NEW t \in Stagers, NEW b \in Nat, pc[t] \in Laden,
             held' = [held EXCEPT ![t][1].block = b]
      PROVE  /\ held' \in [Stagers -> Seq(Work)]
             /\ \A u \in Stagers : held[u] # <<>> => held'[u] # <<>>
  <2> DEFINE s == [held[t] EXCEPT ![1] = [held[t][1] EXCEPT !.block = b]]
  <2>1. held[t] \in Seq(Work) /\ held[t][1] \in Work /\ Len(held[t]) \in Nat \ {0}
    BY <1>1, HeldWork DEF StagersOK
  <2>2. [held[t][1] EXCEPT !.block = b] \in Work
    BY <1>1, <2>1 DEF Work
  <2>3. s \in Seq(Work) /\ s # <<>>
    BY <2>1, <2>2
  <2>4. held' = [held EXCEPT ![t] = s]
    BY <1>1
  <2> HIDE DEF s
  <2> QED
    BY <2>3, <2>4 DEF StagersOK
<1>2. work_block \in Nat /\ work_block + 1 \in Nat
  BY DEF RestOK
<1>3. ASSUME NEW t \in Stagers, Push(t), pc[t] \in {"test", "push"}
      PROVE  StagersOK'
  <2>1. /\ Tail(held[t]) \in Seq(Work)
        /\ Len(held[t]) > 1 => Tail(held[t]) # <<>>
    BY <1>3, HeldWork DEF Laden
  <2>2. held' = [held EXCEPT ![t] = Tail(held[t])]
    BY <1>3 DEF Push
  <2>3. CASE Len(held[t]) > 1
    BY <1>3, <2>1, <2>2, <2>3 DEF Push, Go, StagersOK, Holding, StagerPlaces, Laden
  <2>4. CASE ~(Len(held[t]) > 1)
    <3>1. pc' = [pc EXCEPT ![t] = Home(t)] /\ prev' = [prev EXCEPT ![t] = 0]
      BY <1>3, <2>4 DEF Push, Go
    <3>2. Home(t) \in StagerPlaces \ Laden
      BY DEF Home, StagerPlaces, Laden
    <3> QED
      BY <2>1, <2>2, <3>1, <3>2 DEF StagersOK, Holding
  <2> QED
    BY <2>3, <2>4
<1>4. ASSUME NEW t \in Stagers, StagerStep(t) PROVE StagersOK'
  <2>1. CASE Stamp(t)
    <3>1. /\ held' \in [Stagers -> Seq(Work)]
          /\ \A u \in Stagers : held[u] # <<>> => held'[u] # <<>>
      BY <1>1, <1>2, <2>1 DEF Stamp, At, Laden
    <3> QED
      BY <2>1, <3>1 DEF Stamp, At, Go, StagersOK, Holding, StagerPlaces, Laden
  <2>2. CASE AddBlock(t)
    <3>1. /\ held' \in [Stagers -> Seq(Work)]
          /\ \A u \in Stagers : held[u] # <<>> => held'[u] # <<>>
      <4>1. CASE UNCHANGED held
        BY <4>1 DEF StagersOK
      <4>2. CASE NewBlock(t)
        BY <1>1, <1>2, <2>2, <4>2 DEF AddBlock, NewBlock, At, Laden
      <4> QED
        BY <2>2, <4>1, <4>2 DEF AddBlock
    <3> QED
      BY <2>2, <3>1 DEF AddBlock, At, Go, StagersOK, Holding, StagerPlaces, Laden
  <2>3. CASE TestAndPush(t)
    <3>1. CASE prev[t] \notin blocks
      BY <2>3, <3>1 DEF TestAndPush, At, Go, StagersOK, Holding, StagerPlaces, Laden
    <3>2. CASE prev[t] \in blocks
      BY <1>3, <2>3, <3>2 DEF TestAndPush, At
    <3> QED
      BY <3>1, <3>2
  <2>4. CASE PushNew(t)
    BY <1>3, <2>4 DEF PushNew, At
  <2> QED
    BY <1>4, <2>1, <2>2, <2>3, <2>4 DEF StagerStep
<1>5. CASE Announce
  <2>1. /\ held' \in [Stagers -> Seq(Work)]
        /\ \A u \in Stagers : held[u] # <<>> => held'[u] # <<>>
    <3>1. CASE UNCHANGED held
      BY <3>1 DEF StagersOK
    <3>2. CASE NewBlock("lp") \/ NewBlockElsewhere("lp")
      BY <1>1, <1>2, <1>5, <3>2 DEF Announce, NewBlock, NewBlockElsewhere, At, Laden,
         Stagers
    <3> QED
      BY <1>5, <3>1, <3>2 DEF Announce
  <2> QED
    BY <1>5, <2>1 DEF Announce, At, Go, StagersOK, Holding, StagerPlaces, Laden, Stagers
<1>6. ASSUME NEW t \in Stagers, NEW pools \in SUBSET Pools, NewWork(t, pools),
             pc' = [pc EXCEPT ![t] = IF t = "lp" THEN "announce" ELSE "stamp"]
      PROVE  StagersOK'
  <2>1. PICK pool \in pools : held' = [held EXCEPT ![t] =
            <<[base |-> works, rolls |-> 0, clone |-> FALSE, pool |-> pool, block |-> 0]>>]
    BY <1>6 DEF NewWork
  <2> DEFINE w == [base |-> works, rolls |-> 0, clone |-> FALSE, pool |-> pool, block |-> 0]
  <2>2. w \in Work
    BY DEF Work, RestOK
  <2>3. <<w>> \in Seq(Work) /\ <<w>> # <<>>
    BY <2>2
  <2>4. held' = [held EXCEPT ![t] = <<w>>]
    BY <2>1
  <2>5. prev' \in [Stagers -> Nat]
    <3>1. net' \in Nat
      BY <1>6, BoundsAssumption DEF NewWork, RestOK
    <3> QED
      BY <1>6, <3>1 DEF NewWork, StagersOK
  <2> HIDE DEF w
  <2> QED
    BY <1>6, <2>3, <2>4, <2>5 DEF StagersOK, Holding, StagerPlaces, Laden
<1>7. CASE LongPoll
  BY <1>6, <1>7 DEF LongPoll, Go, Stagers
<1>8. CASE SchedFetch
  BY <1>6, <1>8 DEF SchedFetch, Go, Stagers
<1>9. CASE Convert
  <2>1. PICK n \in Nat : held' = [held EXCEPT !["lp"] = CloneWork(held["lp"][1], n)]
    <3>1. Cardinality(Miners) + OptQueue \in Nat
      BY MinersAssumption, QueueAssumption, FS_CardinalityType
    <3>2. PICK k \in 0 .. Cardinality(Miners) + OptQueue :
            held' = [held EXCEPT !["lp"] = CloneWork(held["lp"][1], k)]
      BY <1>9 DEF Convert
    <3>3. k \in Nat
      BY <3>1
    <3> QED
      BY <3>2, <3>3, Zenon
  <2>2. held["lp"][1] \in Work
    BY <1>9, HeldWork DEF Convert, At, Laden, Stagers
  <2>3. CloneWork(held["lp"][1], n) \in Seq(Work) /\ CloneWork(held["lp"][1], n) # <<>>
    BY <2>2, ClonesOf
  <2> QED
    BY <1>9, <2>1, <2>3 DEF Convert, Go, StagersOK, Holding, StagerPlaces, Laden, Stagers
<1>14. CASE Unwanted
  <2>1. <<>> \in Seq(Work)
    OBVIOUS
  <2>2. /\ pc' = [pc EXCEPT !["lp"] = "idle"] /\ prev' = [prev EXCEPT !["lp"] = 0]
        /\ held' = [held EXCEPT !["lp"] = <<>>]
    BY <1>14 DEF Unwanted, Go
  <2>3. held' \in [Stagers -> Seq(Work)] /\ prev' \in [Stagers -> Nat]
    BY <2>1, <2>2 DEF StagersOK
  <2>4. pc' \in [Stagers -> StagerPlaces] /\ Holding'
    BY <2>2 DEF StagersOK, Holding, StagerPlaces, Laden
  <2> QED
    BY <2>3, <2>4 DEF StagersOK
<1>10. CASE SchedClone
  <2>1. PICK w \in staged_work : held' = [held EXCEPT !["sched"] = <<Clone(Rolled(w, 1))>>]
    BY <1>10 DEF SchedClone, CloneAvailable
  <2>2. Clone(Rolled(w, 1)) \in Work
    BY WorkOf DEF QueueOK
  <2>3. <<Clone(Rolled(w, 1))>> \in Seq(Work) /\ <<Clone(Rolled(w, 1))>> # <<>>
    BY <2>2
  <2> QED
    BY <1>10, <2>1, <2>3 DEF SchedClone, Go, StagersOK, Holding, StagerPlaces, Laden, Stagers
<1>11. CASE SchedLimit \/ SchedLook \/ SchedWoken \/ SchedDrop
  BY <1>11 DEF SchedLimit, SchedLook, SchedWoken, SchedDrop, Go, StagersOK, Holding,
     StagerPlaces, Laden, Stagers
<1>12. CASE ClearPoolWork \/ Watchdog \/ RestartDiscard
  BY <1>0, <1>12 DEF ClearPoolWork, Watchdog, RestartDiscard, staging
<1>13. ASSUME NEW m \in Miners, MinerStep(m) \/ RestartFlag(m) PROVE StagersOK'
  BY <1>0, <1>13 DEF MinerStep, RestartFlag, HashPopEmpty, GetWork, ClearRestart,
     Scanned, Shutdown, staging
<1> QED
  BY <1>4, <1>5, <1>7, <1>8, <1>9, <1>10, <1>11, <1>12, <1>13, <1>14
     DEF Next, SchedStep, LongPollStep, Stagers

\* The other variables keep their types.
LEMMA RestStep ==
    ASSUME IInv, Next
    PROVE  RestOK'
<1> USE DEF IInv, RestOK, chain, queueing, staging, mining, restarting
<1>1. Cardinality(Miners) \in Nat /\ Cardinality(Miners) + 0 = Cardinality(Miners)
  BY MinersAssumption, FS_CardinalityType
<1>2. ASSUME Enlarge PROVE max_queue' \in 1 .. OptQueue
  BY <1>2, QueueAssumption DEF Enlarge
<1>3. SignalGws => gws' \in BOOLEAN
  BY DEF SignalGws, At
<1>4. ASSUME NEW me, Popped(me) PROVE getq' \in SUBSET Miners /\ gws' \in BOOLEAN
  BY <1>3, <1>4 DEF Popped
<1>0. ASSUME NEW t, \/ NewBlock(t) \/ NewBlockElsewhere(t)
                    \/ UNCHANGED <<work_block, held, discards>>
      PROVE  work_block' \in Nat /\ discards' \in Nat
  <2>1. work_block + 1 \in Nat /\ discards + 1 \in Nat
    OBVIOUS
  <2>2. CASE NewBlock(t) \/ NewBlockElsewhere(t)
    <3>1. work_block' = work_block + 1 /\ discards' \in {discards, discards + 1}
      BY <2>2 DEF NewBlock, NewBlockElsewhere
    <3> QED
      BY <2>1, <3>1
  <2> QED
    BY <1>0, <2>2
<1>5. ASSUME NEW t \in Stagers, StagerStep(t) PROVE RestOK'
  <2>1. prev[t] \in Nat
    BY DEF StagersOK
  <2>2. CASE AddBlock(t)
    <3>1. blocks' \in SUBSET Nat
      BY <2>1, <2>2 DEF AddBlock
    <3>2. work_block' \in Nat /\ discards' \in Nat
      BY <1>0, <2>2 DEF AddBlock
    <3> QED
      BY <2>2, <3>1, <3>2 DEF AddBlock
  <2>3. CASE Stamp(t)
    BY <2>3 DEF Stamp
  <2>4. CASE TestAndPush(t) \/ PushNew(t)
    <3>1. getq' \in SUBSET Miners
      BY <2>4 DEF TestAndPush, PushNew, Push
    <3> QED
      BY <2>4, <3>1 DEF TestAndPush, PushNew
  <2> QED
    BY <1>5, <2>2, <2>3, <2>4 DEF StagerStep
<1>6. CASE LongPoll \/ SchedFetch
  <2>1. net' \in Nat /\ works' \in Nat
    BY <1>6, BoundsAssumption DEF LongPoll, SchedFetch, NewWork
  <2> QED
    BY <1>6, <2>1 DEF LongPoll, SchedFetch, NewWork
<1>7. CASE Announce
  <2>1. work_block' \in Nat /\ discards' \in Nat
    BY <1>0, <1>7 DEF Announce
  <2>2. untold' \in [Miners -> BOOLEAN]
    BY <1>7, Zenon DEF Announce, NewBlockElsewhere, Mining
  <2>3. /\ UNCHANGED <<net, works, blocks, max_queue, max_staged, gws>>
        /\ UNCHANGED <<mpc, work, getq, work_restart, flags>>
    BY <1>7 DEF Announce
  <2> QED
    BY <2>1, <2>2, <2>3
<1>20. CASE Convert \/ Unwanted
  BY <1>20 DEF Convert, Unwanted
<1>8. CASE SchedLimit
  <2>1. max_staged' \in Nat
    BY <1>1, <1>8, QueueAssumption DEF SchedLimit
  <2> QED
    BY <1>8, <2>1 DEF SchedLimit
<1>9. CASE SchedLook
  <2>1. max_queue' \in 1 .. OptQueue /\ max_staged' \in Nat
    BY <1>2, <1>9 DEF SchedLook
  <2> QED
    BY <1>9, <2>1 DEF SchedLook
<1>10. CASE SchedWoken
  <2>1. max_queue' \in 1 .. OptQueue
    BY <1>2, <1>10 DEF SchedWoken
  <2> QED
    BY <1>10, <2>1 DEF SchedWoken
<1>11. CASE SchedDrop
  <2>1. max_queue' \in 1 .. OptQueue /\ getq' \in SUBSET Miners /\ gws' \in BOOLEAN
    BY <1>2, <1>4, <1>11 DEF SchedDrop
  <2> QED
    BY <1>11, <2>1 DEF SchedDrop
<1>12. CASE SchedClone \/ ClearPoolWork
  <2>1. discards' \in Nat
    BY <1>12 DEF SchedClone, ClearPoolWork
  <2> QED
    BY <1>12, <2>1 DEF SchedClone, ClearPoolWork
<1>13. CASE Watchdog
  BY <1>3, <1>13 DEF Watchdog, DiscardStale
<1>14. CASE RestartDiscard
  <2>1. discards' \in Nat /\ flags' \in [Miners -> Nat]
    BY <1>14 DEF RestartDiscard
  <2> QED
    BY <1>3, <1>14, <2>1 DEF RestartDiscard, DiscardStale
<1>15. ASSUME NEW m \in Miners, HashPopEmpty(m) PROVE RestOK'
  <2>1. max_queue' \in 1 .. OptQueue
    BY <1>2, <1>15 DEF HashPopEmpty
  <2> QED
    BY <1>3, <1>15, <2>1 DEF HashPopEmpty, WaitForWork, MinerPlaces
<1>16. ASSUME NEW m \in Miners, GetWork(m) PROVE RestOK'
  <2>1. PICK w \in Candidates :
          /\ Take(w)
          /\ \/ /\ ~BlockStale(w)
                /\ mpc' = [mpc EXCEPT ![m] = "clear"]
                /\ work' = [work EXCEPT ![m] = w]
             \/ /\ mpc' = [mpc EXCEPT ![m] = "get"]
                /\ UNCHANGED work
    BY <1>16 DEF GetWork
  <2>2. w \in Work
    BY <2>1, TakeCounts DEF QueueOK
  <2>3. mpc' \in [Miners -> MinerPlaces] /\ work' \in [Miners -> Work \cup {NoWork}]
    BY <2>1, <2>2 DEF MinerPlaces
  <2>4. getq' \in SUBSET Miners /\ gws' \in BOOLEAN
    BY <1>4, <1>16 DEF GetWork
  <2> QED
    BY <1>16, <2>3, <2>4 DEF GetWork
<1>17. ASSUME NEW m \in Miners, ClearRestart(m) PROVE RestOK'
  <2>1. untold' \in [Miners -> BOOLEAN] /\ work_restart' \in [Miners -> BOOLEAN]
    BY <1>17, Zenon DEF ClearRestart, BlockStale
  <2>2. mpc' \in [Miners -> MinerPlaces]
    BY <1>17 DEF ClearRestart, MinerGoes, MinerPlaces
  <2>3. /\ UNCHANGED <<net, works, work_block, blocks, max_queue, max_staged, gws>>
        /\ UNCHANGED <<work, getq, discards, flags>>
    BY <1>17 DEF ClearRestart
  <2> QED
    BY <2>1, <2>2, <2>3
<1>18. ASSUME NEW m \in Miners, Scanned(m) \/ Shutdown(m) PROVE RestOK'
  <2>1. mpc' \in [Miners -> MinerPlaces]
    BY <1>18 DEF Scanned, Shutdown, MinerGoes, MinerPlaces
  <2>2. work' \in [Miners -> Work \cup {NoWork}]
    BY <1>18 DEF Scanned, Shutdown, Free
  <2>3. untold' \in [Miners -> BOOLEAN]
    BY <1>18, Zenon DEF Scanned, Shutdown, Free
  <2>4. /\ UNCHANGED <<net, works, work_block, blocks, max_queue, max_staged, gws>>
        /\ UNCHANGED <<work_restart, getq, discards, flags>>
    BY <1>18 DEF Scanned, Shutdown
  <2> QED
    BY <2>1, <2>2, <2>3, <2>4
<1>19. ASSUME NEW m \in Miners, RestartFlag(m) PROVE RestOK'
  <2>1. work_restart' \in [Miners -> BOOLEAN]
    BY <1>19, Zenon DEF RestartFlag
  <2>2. flags' \in [Miners -> Nat]
    BY <1>19 DEF RestartFlag
  <2> QED
    BY <1>19, <2>1, <2>2 DEF RestartFlag
<1> QED
  BY <1>5, <1>6, <1>7, <1>8, <1>9, <1>10, <1>11, <1>12, <1>13, <1>14, <1>15, <1>16,
     <1>17, <1>18, <1>19, <1>20 DEF Next, SchedStep, LongPollStep, MinerStep, Stagers

\* The types hold at the start and are kept by every step.
THEOREM Inductive == Spec => []IInv
<1>1. Init => IInv
  <2> SUFFICES ASSUME Init PROVE IInv
    OBVIOUS
  <2>1. QueueOK
    <3>1. Rollable({}) = {}
      BY DEF Rollable
    <3>2. staged_work = {} /\ staged_rollable = 0
      BY DEF Init
    <3>3. IsFiniteSet({}) /\ Cardinality({}) = 0
      BY FS_EmptySet
    <3> QED
      BY <3>1, <3>2, <3>3 DEF QueueOK, RollableCounted
  <2>2. StagersOK
    BY DEF Init, StagersOK, Holding, StagerPlaces, Laden, Home, Stagers
  <2>3. RestOK
    <3>1. work_restart \in [Miners -> BOOLEAN] /\ untold \in [Miners -> BOOLEAN]
      BY Zenon DEF Init
    <3>2. mpc \in [Miners -> MinerPlaces] /\ work \in [Miners -> Work \cup {NoWork}]
      BY DEF Init, MinerPlaces
    <3>3. 1 \in 1 .. OptQueue /\ flags \in [Miners -> Nat]
      BY QueueAssumption DEF Init
    <3> QED
      BY <3>1, <3>2, <3>3 DEF Init, RestOK
  <2> QED
    BY <2>1, <2>2, <2>3 DEF IInv
<1>2. IInv /\ [Next]_vars => IInv'
  <2> SUFFICES ASSUME IInv, [Next]_vars PROVE IInv'
    OBVIOUS
  <2>1. CASE Next
    BY <2>1, QueueStep, StagersStep, RestStep DEF IInv
  <2>2. CASE UNCHANGED vars
    <3> USE DEF vars, chain, queueing, staging, mining, restarting
    <3>1. QueueOK'
      BY <2>2 DEF IInv, QueueOK, RollableCounted
    <3>2. StagersOK'
      BY <2>2 DEF IInv, StagersOK, Holding
    <3>3. RestOK'
      BY <2>2 DEF IInv, RestOK
    <3> QED
      BY <3>1, <3>2, <3>3 DEF IInv
  <2> QED
    BY <2>1, <2>2
<1> QED
  BY <1>1, <1>2, PTL DEF Spec

(***************************************************************************)
(* Every variable of the core keeps its type: none of the counters becomes *)
(* negative, and no thread reaches for a work it does not hold.            *)
(***************************************************************************)
THEOREM TypeCorrect == Spec => []TypeOK
BY Inductive, Parts, PTL

(***************************************************************************)
(* The count of rollable works that discard_stale and clear_pool_work do   *)
(* not keep up to date is never too low, so that hash_pop finds what it    *)
(* looks for.                                                              *)
(***************************************************************************)
THEOREM CountIsEnough == Spec => []RollableCounted
BY Inductive, Parts, PTL
-----------------------------------------------------------------------------
(***************************************************************************)
(* Restarts.  That a thread is not told concerns the work it has.          *)
(***************************************************************************)
UntoldMines == \A m \in Miners : untold[m] => Mining(m)

RInv == RestartReaches /\ UntoldMines

\* Every step keeps a restart on its way, or the thread has it.
LEMMA RestartStep ==
    ASSUME IInv, RInv, Next
    PROVE  RInv'
<1> USE DEF IInv, RestOK, RInv, RestartReaches, UntoldMines, Mining, BlockStale
<1>0. CASE UNCHANGED <<work_block, mpc, work, work_restart, untold, discards, flags>>
  BY <1>0
<1>1. ASSUME NEW t \in Stagers, NewBlock(t),
             UNCHANGED <<mpc, work, work_restart, untold, flags>>
      PROVE  RInv'
  <2>1. discards' > 0
    BY <1>1 DEF NewBlock
  <2> QED
    BY <1>1, <2>1
<1>2. ASSUME NEW t \in Stagers, StagerStep(t) PROVE RInv'
  <2>1. CASE AddBlock(t)
    BY <1>0, <1>1, <2>1 DEF AddBlock, mining
  <2>2. CASE Stamp(t) \/ TestAndPush(t) \/ PushNew(t)
    BY <1>0, <2>2 DEF Stamp, TestAndPush, PushNew, chain, mining, restarting
  <2> QED
    BY <1>2, <2>1, <2>2 DEF StagerStep
<1>3. CASE Announce
  <2>1. CASE NewBlockElsewhere("lp")
    BY <1>3, <2>1 DEF Announce, NewBlockElsewhere
  <2> QED
    BY <1>0, <1>1, <1>3, <2>1 DEF Announce, Stagers
<1>4. CASE LongPoll \/ Convert \/ Unwanted \/ Watchdog
  BY <1>0, <1>4 DEF LongPoll, Convert, Unwanted, Watchdog, chain, mining, restarting
<1>12. CASE ClearPoolWork
  <2>1. discards > 0 => discards' > 0
    BY <1>12 DEF ClearPoolWork
  <2> QED
    BY <1>12, <2>1 DEF ClearPoolWork, chain, mining
<1>5. CASE SchedLimit \/ SchedLook \/ SchedWoken \/ SchedDrop \/ SchedClone \/ SchedFetch
  BY <1>0, <1>5 DEF SchedLimit, SchedLook, SchedWoken, SchedDrop, SchedClone,
     SchedFetch, chain, mining, restarting
<1>6. CASE RestartDiscard
  BY <1>6 DEF RestartDiscard, chain, mining
<1>7. ASSUME NEW m \in Miners, RestartFlag(m) PROVE RInv'
  BY <1>7 DEF RestartFlag, chain
<1>8. ASSUME NEW m \in Miners, HashPopEmpty(m) PROVE RInv'
  BY <1>8 DEF HashPopEmpty, chain, restarting
<1>9. ASSUME NEW m \in Miners, GetWork(m) PROVE RInv'
  BY <1>9 DEF GetWork, chain, restarting
<1>10. ASSUME NEW m \in Miners, ClearRestart(m) PROVE RInv'
  BY <1>10 DEF ClearRestart, MinerGoes, chain, restarting
<1>11. ASSUME NEW m \in Miners, Scanned(m) \/ Shutdown(m) PROVE RInv'
  BY <1>11 DEF Scanned, Shutdown, MinerGoes, Free, chain, restarting
<1> QED
  BY <1>2, <1>3, <1>4, <1>5, <1>6, <1>7, <1>8, <1>9, <1>10, <1>11, <1>12
     DEF Next, SchedStep, LongPollStep, MinerStep, Stagers

(***************************************************************************)
(* A mining thread that works for an old block has been told, will be told *)
(* by a restart thread, has cleared what told it, or works for a block     *)
(* that only a pool which is not the current one has left behind.          *)
(***************************************************************************)
THEOREM RestartIsOnItsWay == Spec => []RestartReaches
<1>1. Init => RInv
  BY DEF Init, RInv, RestartReaches, UntoldMines, Mining
<1>2. IInv /\ RInv /\ [Next]_vars => RInv'
  <2> SUFFICES ASSUME IInv, RInv, [Next]_vars PROVE RInv'
    OBVIOUS
  <2>1. CASE UNCHANGED vars
    BY <2>1 DEF vars, chain, mining, restarting, RInv, RestartReaches, UntoldMines,
       Mining, BlockStale
  <2> QED
    BY <2>1, RestartStep
<1>3. RInv => RestartReaches
  BY DEF RInv
<1> QED
  BY <1>1, <1>2, <1>3, Inductive, PTL DEF Spec
-----------------------------------------------------------------------------
(***************************************************************************)
(* Headers.  An item is a work and where it is: staged, with a mining      *)
(* thread, or in the hands of a stager with n other works behind it.       *)
(***************************************************************************)
Staged(w) == <<"staged", w, w>>
Mined(m, w) == <<"miner", m, w>>
Held(t, n, w) == <<t, n, w>>
WorkOn(x) == x[3]

Items ==
    { Staged(w) : w \in staged_work }
        \cup { Mined(m, work[m]) : m \in { n \in Miners : work[n] # NoWork } }
        \cup UNION { { Held(t, Len(held[t]) - i, held[t][i]) : i \in DOMAIN held[t] } :
                        t \in Stagers }

Distinct(I) == \A x, y \in I : Header(WorkOn(x)) = Header(WorkOn(y)) => x = y

\* No work of a base has been rolled further than its master.
Masters(I) ==
    \A x, y \in I : WorkOn(x).base = WorkOn(y).base /\ ~WorkOn(y).clone =>
                        WorkOn(x).rolls <= WorkOn(y).rolls

HandedOut(I, n) == \A x \in I : WorkOn(x).base < n

\* The only item of its base.
Lone(I, z) == z \in I /\ \A x \in I : WorkOn(x).base = WorkOn(z).base => x = z

Like(v, w) == v.base = w.base /\ v.rolls = w.rolls /\ v.clone = w.clone

First(t) == Held(t, Len(held[t]) - 1, held[t][1])

\* A work that has been handed out and not yet been cloned.
Whole == pc["lp"] \in {"announce", "announce new", "convert"}

HInv ==
    /\ Distinct(Items) /\ Masters(Items) /\ HandedOut(Items, works)
    /\ Whole => Lone(Items, First("lp"))

\* Items are different when they are at different places, and the works are theirs.
LEMMA ItemsAre ==
    /\ \A w : WorkOn(Staged(w)) = w
    /\ \A m, w : WorkOn(Mined(m, w)) = w
    /\ \A t, n, w : WorkOn(Held(t, n, w)) = w
    /\ \A v, w : Staged(v) = Staged(w) => v = w
    /\ \A m, n, v, w : Mined(m, v) = Mined(n, w) => m = n /\ v = w
    /\ \A t, u, k, n, v, w : Held(t, k, v) = Held(u, n, w) => t = u /\ k = n /\ v = w
    /\ \A v, m, w : Staged(v) # Mined(m, w)
    /\ \A v, n, w : \A t \in Stagers : Staged(v) # Held(t, n, w)
    /\ \A m, v, n, w : \A t \in Stagers : Mined(m, v) # Held(t, n, w)
<1>1. /\ \A w : WorkOn(Staged(w)) = w
      /\ \A m, w : WorkOn(Mined(m, w)) = w
      /\ \A t, n, w : WorkOn(Held(t, n, w)) = w
  BY DEF WorkOn, Staged, Mined, Held
<1>2. \A v, w : Staged(v) = Staged(w) => v = w
  BY DEF Staged
<1>3. \A m, n, v, w : Mined(m, v) = Mined(n, w) => m = n /\ v = w
  BY DEF Mined
<1>4. \A t, u, k, n, v, w : Held(t, k, v) = Held(u, n, w) => t = u /\ k = n /\ v = w
  BY DEF Held
<1>5. \A v, m, w : Staged(v) # Mined(m, w)
  BY DEF Staged, Mined
<1>6. \A v, n, w : \A t \in Stagers : Staged(v) # Held(t, n, w)
  BY DEF Staged, Held, Stagers
<1>7. \A m, v, n, w : \A t \in Stagers : Mined(m, v) # Held(t, n, w)
  BY DEF Mined, Held, Stagers
<1> QED
  BY <1>1, <1>2, <1>3, <1>4, <1>5, <1>6, <1>7

\* Where the items are.
AreItems ==
    /\ \A w \in staged_work : Staged(w) \in Items
    /\ \A m \in Miners : work[m] # NoWork => Mined(m, work[m]) \in Items
    /\ \A t \in Stagers : \A i \in DOMAIN held[t] :
          Held(t, Len(held[t]) - i, held[t][i]) \in Items
    /\ \A x \in Items :
         \/ \E w \in staged_work : x = Staged(w)
         \/ \E m \in Miners : work[m] # NoWork /\ x = Mined(m, work[m])
         \/ \E t \in Stagers : \E i \in DOMAIN held[t] :
               x = Held(t, Len(held[t]) - i, held[t][i])

LEMMA ItemAt == AreItems /\ AreItems'
<1>1. AreItems
  BY DEF Items, AreItems
<1> QED
  BY <1>1, PTL

\* Items are works.
LEMMA ItemTypes ==
    ASSUME IInv
    PROVE  \A x \in Items : WorkOn(x) \in Work
<1>1. \A t \in Stagers : \A i \in DOMAIN held[t] : held[t][i] \in Work
  BY DEF IInv, StagersOK
<1> QED
  BY <1>1, ItemAt, ItemsAre DEF IInv, QueueOK, RestOK, AreItems

\* A work that goes from one place to another stays what it is.
LEMMA Carry ==
    ASSUME NEW I, NEW z \in I, NEW y, NEW J \in SUBSET ((I \ {z}) \cup {y}),
           Like(WorkOn(y), WorkOn(z))
    PROVE  /\ Distinct(I) => Distinct(J)
           /\ Masters(I) => Masters(J)
           /\ \A n : HandedOut(I, n) => HandedOut(J, n)
           /\ y \in J /\ Lone(I, z) => Lone(J, y)
           /\ \A o \in J : o # y /\ Lone(I, o) => Lone(J, o)
BY DEF Distinct, Masters, HandedOut, Lone, Header, Like

\* Works that disappear do no harm.
LEMMA Fewer ==
    ASSUME NEW I, NEW J \in SUBSET I
    PROVE  /\ Distinct(I) => Distinct(J)
           /\ Masters(I) => Masters(J)
           /\ \A n : HandedOut(I, n) => HandedOut(J, n)
           /\ \A z \in J : Lone(I, z) => Lone(J, z)
BY DEF Distinct, Masters, HandedOut, Lone

\* The same of a step.
LEMMA CarryStep ==
    ASSUME HInv, works' = works, NEW z \in Items, NEW y,
           Items' \subseteq (Items \ {z}) \cup {y},
           Like(WorkOn(y), WorkOn(z)),
           Whole' => /\ Whole
                     /\ First("lp")' \in Items'
                     /\ \/ First("lp")' = First("lp") /\ First("lp") # y
                        \/ First("lp")' = y /\ First("lp") = z
    PROVE  HInv'
<1> DEFINE I == Items
           J == Items'
           o == First("lp")
           p == First("lp")'
<1>1. /\ Distinct(I) => Distinct(J)
      /\ Masters(I) => Masters(J)
      /\ \A n : HandedOut(I, n) => HandedOut(J, n)
      /\ y \in J /\ Lone(I, z) => Lone(J, y)
      /\ \A q \in J : q # y /\ Lone(I, q) => Lone(J, q)
  <2>1. z \in I /\ J \in SUBSET ((I \ {z}) \cup {y})
    OBVIOUS
  <2> HIDE DEF I, J
  <2> QED
    BY <2>1, Carry
<1>2. Distinct(Items)' /\ Masters(Items)' /\ HandedOut(Items, works)'
  BY <1>1 DEF HInv, Distinct, Masters, HandedOut
<1>3. Whole' => Lone(J, p)
  <2>1. Whole => Lone(I, o)
    BY DEF HInv
  <2> HIDE DEF I, J, o, p
  <2>2. Whole' => Whole /\ p \in J /\ ((p = o /\ o # y) \/ (p = y /\ o = z))
    BY DEF J, o, p
  <2> QED
    BY <1>1, <2>1, <2>2
<1> QED
  BY <1>2, <1>3 DEF HInv, Lone

LEMMA FewerStep ==
    ASSUME HInv, works' = works, Items' \subseteq Items,
           Whole' => Whole /\ First("lp")' \in Items' /\ First("lp")' = First("lp")
    PROVE  HInv'
<1> DEFINE I == Items
           J == Items'
           o == First("lp")
<1>1. /\ Distinct(I) => Distinct(J)
      /\ Masters(I) => Masters(J)
      /\ \A n : HandedOut(I, n) => HandedOut(J, n)
      /\ \A q \in J : Lone(I, q) => Lone(J, q)
  <2>1. J \in SUBSET I
    OBVIOUS
  <2> HIDE DEF I, J
  <2> QED
    BY <2>1, Fewer
<1>2. Distinct(Items)' /\ Masters(Items)' /\ HandedOut(Items, works)'
  BY <1>1 DEF HInv, Distinct, Masters, HandedOut
<1>3. Whole' => Lone(J, First("lp")')
  BY <1>1 DEF HInv
<1> QED
  BY <1>2, <1>3 DEF HInv, Lone

\* A thread at a laden place has a first work; it is an item.
LEMMA FirstWork ==
    ASSUME IInv, NEW t \in Stagers, pc[t] \in Laden
    PROVE  /\ held[t] \in Seq(Work) /\ Len(held[t]) \in Nat \ {0}
           /\ DOMAIN held[t] = 1 .. Len(held[t]) /\ 1 \in DOMAIN held[t]
           /\ held[t][1] \in Work /\ First(t) \in Items
<1>1. held[t] \in Seq(Work) /\ Len(held[t]) \in Nat \ {0} /\ held[t][1] \in Work
  BY HeldWork DEF IInv, StagersOK
<1>2. DOMAIN held[t] = 1 .. Len(held[t])
  BY <1>1
<1>3. 1 \in DOMAIN held[t]
  BY <1>1, <1>2
<1> QED
  BY <1>1, <1>2, <1>3, ItemAt DEF First, AreItems

\* Steps that change no work, and steps that let some go.
LEMMA KeepStep ==
    ASSUME IInv, HInv, staged_work' \subseteq staged_work, held' = held, works' = works,
           \A m \in Miners : work'[m] = work[m] \/ work'[m] = NoWork,
           Whole' => Whole
    PROVE  HInv'
<1>1. Items' \subseteq Items
  BY ItemAt DEF AreItems
<1>2. Whole' => First("lp") \in Items'
  <2>1. Whole => 1 \in DOMAIN held["lp"]
    BY FirstWork DEF Whole, Laden, Stagers
  <2> QED
    BY <2>1, ItemAt DEF AreItems, First, Stagers
<1>3. First("lp")' = First("lp")
  BY DEF First
<1> QED
  BY <1>1, <1>2, <1>3, FewerStep

\* A work is stamped with its block.
LEMMA Stamped ==
    ASSUME IInv, HInv, NEW t \in Stagers, pc[t] \in Laden, NEW b \in Nat,
           held' = [held EXCEPT ![t][1].block = b],
           UNCHANGED <<staged_work, work, works>>,
           Whole' => Whole
    PROVE  HInv'
<1> DEFINE v == [held[t][1] EXCEPT !.block = b]
<1>1. /\ held[t] \in Seq(Work) /\ Len(held[t]) \in Nat \ {0}
      /\ DOMAIN held[t] = 1 .. Len(held[t]) /\ 1 \in DOMAIN held[t]
      /\ held[t][1] \in Work /\ First(t) \in Items
  BY FirstWork
<1>2. Like(v, held[t][1])
  BY <1>1 DEF Work, Like
<1>3. held' = [held EXCEPT ![t] = [held[t] EXCEPT ![1] = v]]
  OBVIOUS
<1> HIDE DEF v
<1>4. /\ held'[t] = [held[t] EXCEPT ![1] = v]
      /\ \A u \in Stagers : u # t => held'[u] = held[u]
  BY <1>3 DEF IInv, StagersOK
<1>5. /\ Len(held'[t]) = Len(held[t]) /\ DOMAIN held'[t] = DOMAIN held[t] /\ held'[t][1] = v
      /\ \A i \in DOMAIN held[t] : i # 1 => held'[t][i] = held[t][i]
  BY <1>1, <1>4
<1> DEFINE y == Held(t, Len(held[t]) - 1, v)
<1>6. First(t)' = y
  BY <1>5 DEF First
<1>7. Items' \subseteq (Items \ {First(t)}) \cup {y}
  <2> SUFFICES ASSUME NEW x \in Items' PROVE x = y \/ (x \in Items /\ x # First(t))
    OBVIOUS
  <2>1. ASSUME NEW w \in staged_work, x = Staged(w)
        PROVE  x \in Items /\ x # First(t)
    BY <2>1, ItemAt, ItemsAre DEF AreItems, First
  <2>2. ASSUME NEW m \in Miners, work[m] # NoWork, x = Mined(m, work[m])
        PROVE  x \in Items /\ x # First(t)
    BY <2>2, ItemAt, ItemsAre DEF AreItems, First
  <2>3. ASSUME NEW u \in Stagers, NEW i \in DOMAIN held'[u],
               x = Held(u, Len(held'[u]) - i, held'[u][i])
        PROVE  x = y \/ (x \in Items /\ x # First(t))
    <3>1. CASE u # t
      <4>1. x \in Items
        BY <1>4, <2>3, <3>1, ItemAt DEF AreItems
      <4>2. x # First(t)
        BY <2>3, <3>1, ItemsAre DEF First
      <4> QED
        BY <4>1, <4>2
    <3>2. CASE u = t /\ i = 1
      BY <1>5, <2>3, <3>2
    <3>3. CASE u = t /\ i # 1
      <4>1. i \in DOMAIN held[t] /\ x = Held(t, Len(held[t]) - i, held[t][i])
        BY <1>5, <2>3, <3>3
      <4>2. x \in Items
        BY <4>1, ItemAt DEF AreItems
      <4>3. Len(held[t]) - i # Len(held[t]) - 1
        BY <1>1, <3>3, <4>1
      <4>4. x # First(t)
        BY <4>1, <4>3, ItemsAre DEF First
      <4> QED
        BY <4>2, <4>4
    <3> QED
      BY <3>1, <3>2, <3>3
  <2> QED
    BY <2>1, <2>2, <2>3, ItemAt DEF AreItems
<1>8. y \in Items'
  BY <1>1, <1>5, ItemAt DEF AreItems
<1>9. Like(WorkOn(y), WorkOn(First(t)))
  BY <1>2, ItemsAre DEF First
<1>10. Whole' => /\ Whole
                 /\ First("lp")' \in Items'
                 /\ \/ First("lp")' = First("lp") /\ First("lp") # y
                    \/ First("lp")' = y /\ First("lp") = First(t)
  <2>1. CASE t = "lp"
    BY <1>6, <1>8, <2>1
  <2>2. CASE t # "lp" /\ Whole
    <3>1. "lp" \in Stagers /\ pc["lp"] \in Laden
      BY <2>2 DEF Whole, Laden, Stagers
    <3>2. held'["lp"] = held["lp"] /\ 1 \in DOMAIN held["lp"]
      BY <1>4, <2>2, <3>1, FirstWork
    <3>3. First("lp")' = First("lp")
      BY <3>2 DEF First
    <3>4. First("lp")' \in Items'
      BY <3>1, <3>2, <3>3, ItemAt DEF AreItems, First
    <3>5. First("lp") # y
      BY <2>2, ItemsAre DEF First
    <3> QED
      BY <2>2, <3>3, <3>4, <3>5
  <2> QED
    BY <2>1, <2>2
<1> HIDE DEF y
<1> QED
  BY <1>1, <1>7, <1>9, <1>10, CarryStep

\* A work is staged, and the works behind it come forward.
LEMMA Pushed ==
    ASSUME IInv, HInv, NEW t \in Stagers, pc[t] \in {"test", "push"}, Push(t),
           UNCHANGED <<work, works>>
    PROVE  HInv'
<1> DEFINE w == held[t][1]
<1>1. /\ held[t] \in Seq(Work) /\ Len(held[t]) \in Nat \ {0}
      /\ DOMAIN held[t] = 1 .. Len(held[t]) /\ 1 \in DOMAIN held[t]
      /\ held[t][1] \in Work /\ First(t) \in Items
  BY FirstWork DEF Laden
<1>2. /\ held' = [held EXCEPT ![t] = Tail(held[t])]
      /\ staged_work' = staged_work \cup {w}
      /\ pc' = [pc EXCEPT ![t] = "stamp"] \/ pc' = [pc EXCEPT ![t] = Home(t)]
  BY DEF Push, HashPush, Go
<1>3. /\ held'[t] = Tail(held[t])
      /\ \A u \in Stagers : u # t => held'[u] = held[u]
  BY <1>2 DEF IInv, StagersOK
<1>4. /\ Len(held'[t]) = Len(held[t]) - 1
      /\ \A i \in DOMAIN held'[t] : i + 1 \in DOMAIN held[t] /\ held'[t][i] = held[t][i + 1]
      /\ \A i \in DOMAIN held'[t] : i \in Nat \ {0}
  BY <1>1, <1>3
<1>5. Whole' => t # "lp" /\ Whole
  BY <1>2 DEF Whole, Home, IInv, StagersOK, Stagers
<1> DEFINE y == Staged(w)
<1>6. Items' \subseteq (Items \ {First(t)}) \cup {y}
  <2> SUFFICES ASSUME NEW x \in Items' PROVE x = y \/ (x \in Items /\ x # First(t))
    OBVIOUS
  <2>1. ASSUME NEW v \in staged_work', x = Staged(v)
        PROVE  x = y \/ (x \in Items /\ x # First(t))
    BY <1>2, <2>1, ItemAt, ItemsAre DEF AreItems, First
  <2>2. ASSUME NEW m \in Miners, work[m] # NoWork, x = Mined(m, work[m])
        PROVE  x \in Items /\ x # First(t)
    BY <2>2, ItemAt, ItemsAre DEF AreItems, First
  <2>3. ASSUME NEW u \in Stagers, NEW i \in DOMAIN held'[u],
               x = Held(u, Len(held'[u]) - i, held'[u][i])
        PROVE  x \in Items /\ x # First(t)
    <3>1. CASE u # t
      <4>1. x \in Items
        BY <1>3, <2>3, <3>1, ItemAt DEF AreItems
      <4>2. x # First(t)
        BY <2>3, <3>1, ItemsAre DEF First
      <4> QED
        BY <4>1, <4>2
    <3>2. CASE u = t
      <4>1. i + 1 \in DOMAIN held[t] /\ held'[t][i] = held[t][i + 1] /\ i \in Nat \ {0}
        BY <1>4, <2>3, <3>2
      <4>2. Len(held'[t]) - i = Len(held[t]) - (i + 1)
        BY <1>1, <1>4, <4>1
      <4>3. x = Held(t, Len(held[t]) - (i + 1), held[t][i + 1])
        BY <2>3, <3>2, <4>1, <4>2
      <4>4. x \in Items
        BY <4>1, <4>3, ItemAt DEF AreItems
      <4>5. Len(held[t]) - (i + 1) # Len(held[t]) - 1
        BY <1>1, <4>1
      <4>6. x # First(t)
        BY <4>3, <4>5, ItemsAre DEF First
      <4> QED
        BY <4>4, <4>6
    <3> QED
      BY <3>1, <3>2
  <2> QED
    BY <2>1, <2>2, <2>3, ItemAt DEF AreItems
<1>7. Like(WorkOn(y), WorkOn(First(t)))
  BY ItemsAre DEF First, Like
<1>8. Whole' => /\ Whole
                /\ First("lp")' \in Items'
                /\ First("lp")' = First("lp") /\ First("lp") # y
  <2> SUFFICES ASSUME Whole, t # "lp"
               PROVE  First("lp")' \in Items' /\ First("lp")' = First("lp") /\ First("lp") # y
    BY <1>5
  <2>1. "lp" \in Stagers /\ pc["lp"] \in Laden
    BY DEF Whole, Laden, Stagers
  <2>2. held'["lp"] = held["lp"] /\ 1 \in DOMAIN held["lp"]
    BY <1>3, <2>1, FirstWork
  <2>3. First("lp")' = First("lp")
    BY <2>2 DEF First
  <2>4. First("lp")' \in Items'
    BY <2>1, <2>2, <2>3, ItemAt DEF AreItems, First
  <2>5. First("lp") # y
    BY <2>1, ItemsAre DEF First
  <2> QED
    BY <2>3, <2>4, <2>5
<1> HIDE DEF y
<1> QED
  BY <1>1, <1>6, <1>7, <1>8, CarryStep

\* hash_pop gives a work to a mining thread.
LEMMA Popping ==
    ASSUME IInv, HInv, NEW m \in Miners, NEW w \in staged_work,
           staged_work' = staged_work \ {w}, work' = [work EXCEPT ![m] = w],
           UNCHANGED <<held, pc, works>>
    PROVE  HInv'
<1> DEFINE y == Mined(m, w)
<1>1. /\ work'[m] = w /\ \A n \in Miners : n # m => work'[n] = work[n]
  BY DEF IInv, RestOK
<1>2. Items' \subseteq (Items \ {Staged(w)}) \cup {y}
  <2> SUFFICES ASSUME NEW x \in Items' PROVE x = y \/ (x \in Items /\ x # Staged(w))
    OBVIOUS
  <2>1. ASSUME NEW v \in staged_work', x = Staged(v)
        PROVE  x \in Items /\ x # Staged(w)
    BY <2>1, ItemAt, ItemsAre DEF AreItems
  <2>2. ASSUME NEW n \in Miners, work'[n] # NoWork, x = Mined(n, work'[n])
        PROVE  x = y \/ (x \in Items /\ x # Staged(w))
    BY <1>1, <2>2, ItemAt, ItemsAre DEF AreItems
  <2>3. ASSUME NEW u \in Stagers, NEW i \in DOMAIN held'[u],
               x = Held(u, Len(held'[u]) - i, held'[u][i])
        PROVE  x \in Items /\ x # Staged(w)
    BY <2>3, ItemAt, ItemsAre DEF AreItems
  <2> QED
    BY <2>1, <2>2, <2>3, ItemAt DEF AreItems
<1>3. Like(WorkOn(y), WorkOn(Staged(w))) /\ Staged(w) \in Items
  BY ItemsAre, ItemAt DEF Like, AreItems
<1>4. Whole' => /\ Whole
                /\ First("lp")' \in Items'
                /\ First("lp")' = First("lp") /\ First("lp") # y
  <2> SUFFICES ASSUME Whole'
               PROVE  /\ Whole
                      /\ First("lp")' \in Items'
                      /\ First("lp")' = First("lp") /\ First("lp") # y
    OBVIOUS
  <2>1. Whole /\ "lp" \in Stagers /\ pc["lp"] \in Laden
    BY DEF Whole, Laden, Stagers
  <2>2. 1 \in DOMAIN held["lp"]
    BY <2>1, FirstWork
  <2>3. First("lp")' = First("lp")
    BY DEF First
  <2>4. First("lp")' \in Items'
    BY <2>1, <2>2, <2>3, ItemAt DEF AreItems, First
  <2>5. First("lp") # y
    BY <2>1, ItemsAre DEF First
  <2> QED
    BY <2>1, <2>3, <2>4, <2>5
<1> HIDE DEF y
<1> QED
  BY <1>2, <1>3, <1>4, CarryStep

\* A work that a pool hands out is none of those it has handed out before.
LEMMA Fresh ==
    ASSUME NEW I, NEW y, NEW J \in SUBSET (I \cup {y}), NEW n \in Nat, NEW k, k = n + 1,
           \A x \in J : WorkOn(x) \in Work,
           HandedOut(I, n), WorkOn(y).base = n, Distinct(I), Masters(I)
    PROVE  /\ Distinct(J) /\ Masters(J) /\ HandedOut(J, k)
           /\ y \in J => Lone(J, y)
           /\ \A o \in J : o # y /\ Lone(I, o) => Lone(J, o)
<1>1. \A x \in J : x # y => x \in I /\ WorkOn(x).base < n
  BY DEF HandedOut
<1>2. \A x \in J : WorkOn(x).base \in Nat /\ WorkOn(x).rolls \in Nat
  BY DEF Work
<1>3. \A x \in J : x # y => WorkOn(x).base # n
  BY <1>1, <1>2
<1>4. Distinct(J)
  BY <1>1, <1>3 DEF Distinct, Header
<1>5. Masters(J)
  <2> SUFFICES ASSUME NEW x \in J, NEW v \in J, WorkOn(x).base = WorkOn(v).base, ~WorkOn(v).clone
               PROVE  WorkOn(x).rolls <= WorkOn(v).rolls
    BY DEF Masters
  <2>1. CASE x = v
    BY <1>2, <2>1
  <2>2. CASE x # v
    BY <1>1, <1>3, <2>2 DEF Masters
  <2> QED
    BY <2>1, <2>2
<1>6. HandedOut(J, k)
  BY <1>1, <1>2 DEF HandedOut
<1>7. y \in J => Lone(J, y)
  BY <1>3 DEF Lone
<1>8. \A o \in J : o # y /\ Lone(I, o) => Lone(J, o)
  BY <1>1, <1>3 DEF Lone
<1> QED
  BY <1>4, <1>5, <1>6, <1>7, <1>8

\* A staged master gives a clone, and is rolled beyond it.
LEMMA Split ==
    ASSUME NEW I, NEW z \in I, NEW y, NEW c, NEW J \in SUBSET ((I \ {z}) \cup {y, c}),
           \A x \in I : WorkOn(x) \in Work, NEW n,
           Distinct(I), Masters(I), HandedOut(I, n),
           WorkOn(y).base = WorkOn(z).base, WorkOn(c).base = WorkOn(z).base,
           WorkOn(y).rolls = WorkOn(z).rolls + 2, WorkOn(c).rolls = WorkOn(z).rolls + 1,
           ~WorkOn(z).clone, WorkOn(c).clone
    PROVE  /\ Distinct(J) /\ Masters(J) /\ HandedOut(J, n)
           /\ \A o \in J : o \notin {y, c} /\ Lone(I, o) => Lone(J, o)
<1>1. \A x \in I : WorkOn(x).rolls \in Nat
  BY DEF Work
<1>2. \A x \in I : WorkOn(x).base = WorkOn(z).base => WorkOn(x).rolls <= WorkOn(z).rolls
  BY DEF Masters
<1>3. \A x \in I : WorkOn(x).base = WorkOn(z).base /\ ~WorkOn(x).clone => x = z
  <2> SUFFICES ASSUME NEW x \in I, WorkOn(x).base = WorkOn(z).base, ~WorkOn(x).clone
               PROVE  x = z
    OBVIOUS
  <2>1. WorkOn(x).rolls <= WorkOn(z).rolls /\ WorkOn(z).rolls <= WorkOn(x).rolls
    BY DEF Masters
  <2>2. WorkOn(x).rolls = WorkOn(z).rolls
    BY <1>1, <2>1
  <2> QED
    BY <2>2 DEF Distinct, Header
<1>4. \A x \in J : (x \in I /\ x # z) \/ x = y \/ x = c
  OBVIOUS
<1>5. Distinct(J)
  <2> SUFFICES ASSUME NEW x \in J, NEW v \in J, x # v, WorkOn(x).base = WorkOn(v).base,
                      WorkOn(x).rolls = WorkOn(v).rolls
               PROVE  FALSE
    BY DEF Distinct, Header
  <2>1. CASE x \in I /\ v \in I
    BY <2>1 DEF Distinct, Header
  <2> QED
    BY <1>1, <1>2, <1>4, <2>1
<1>6. Masters(J)
  <2> SUFFICES ASSUME NEW x \in J, NEW v \in J, WorkOn(x).base = WorkOn(v).base, ~WorkOn(v).clone
               PROVE  WorkOn(x).rolls <= WorkOn(v).rolls
    BY DEF Masters
  <2>1. CASE x \in I /\ v \in I
    BY <2>1 DEF Masters
  <2>2. CASE v = y
    BY <1>1, <1>2, <1>4, <2>2
  <2>3. CASE v \in I /\ v # z /\ x \in {y, c}
    BY <1>3, <2>3
  <2> QED
    BY <1>4, <2>1, <2>2, <2>3
<1>7. HandedOut(J, n)
  BY <1>4 DEF HandedOut
<1>8. \A o \in J : o \notin {y, c} /\ Lone(I, o) => Lone(J, o)
  BY <1>4 DEF Lone
<1> QED
  BY <1>5, <1>6, <1>7, <1>8

\* A work nobody has a clone of is replaced by its clones.
LEMMA Replaced ==
    ASSUME NEW I, NEW z, Lone(I, z), NEW C, NEW J \in SUBSET ((I \ {z}) \cup C), NEW n,
           Distinct(I), Masters(I), HandedOut(I, n),
           \A x \in C : WorkOn(x).base = WorkOn(z).base,
           Distinct(C), Masters(C)
    PROVE  Distinct(J) /\ Masters(J) /\ HandedOut(J, n)
BY DEF Lone, Distinct, Masters, HandedOut, Header

\* The clones of a work, their headers and the master among them.
LEMMA CloneHeaders ==
    ASSUME NEW w \in Work, NEW n \in Nat, NEW c, c = CloneWork(w, n)
    PROVE  /\ \A i \in DOMAIN c : c[i].base = w.base
           /\ \A i, j \in DOMAIN c : c[i].rolls = c[j].rolls => i = j
           /\ \A i, j \in DOMAIN c : ~c[j].clone => c[i].rolls <= c[j].rolls
<1> DEFINE k == n + (IF n = 0 THEN 1 ELSE 2)
           r(i) == IF i <= n THEN RollsOfClone(i)
                   ELSE IF i = n + 1 THEN 2 * n ELSE RollsOfClone(i - 1)
<1>1. k \in Nat /\ DOMAIN c = 1 .. k
  BY DEF CloneWork
<1>2. \A i \in 1 .. k : r(i) \in Nat
  BY DEF RollsOfClone
<1>3. \A i \in 1 .. k :
        c[i] = IF i = n + 1 THEN Rolled(w, r(i)) ELSE Clone(Rolled(w, r(i)))
  BY DEF CloneWork
<1>4. \A m \in Nat : /\ Rolled(w, m).base = w.base /\ Rolled(w, m).rolls = w.rolls + m
                     /\ Clone(Rolled(w, m)).base = w.base
                     /\ Clone(Rolled(w, m)).rolls = w.rolls + m
                     /\ Clone(Rolled(w, m)).clone = TRUE
  BY DEF Work, Rolled, Clone
<1>5. w.rolls \in Nat
  BY DEF Work
<1>6. \A i, j \in 1 .. k : r(i) = r(j) => i = j
  BY DEF RollsOfClone
<1>7. \A i \in 1 .. k : r(i) <= r(n + 1)
  BY DEF RollsOfClone
<1> HIDE DEF r
<1>8. \A i \in 1 .. k : /\ c[i].base = w.base /\ c[i].rolls = w.rolls + r(i)
                        /\ i # n + 1 => c[i].clone = TRUE
  BY <1>2, <1>3, <1>4
<1> HIDE DEF k
<1>9. \A i, j \in 1 .. k : c[i].rolls = c[j].rolls => r(i) = r(j)
  BY <1>2, <1>5, <1>8
<1>10. \A i, j \in 1 .. k : ~c[j].clone => c[i].rolls <= c[j].rolls
  BY <1>2, <1>5, <1>7, <1>8
<1> QED
  BY <1>1, <1>6, <1>8, <1>9, <1>10

\* A pool hands out a work.
LEMMA NewWorkStep ==
    ASSUME IInv, HInv, NEW t \in Stagers, NewWork(t, Pools),
           UNCHANGED <<staged_work, work>>,
           Whole' => t = "lp" \/ Whole, IInv'
    PROVE  HInv'
<1>1. PICK pool \in Pools : held' = [held EXCEPT ![t] =
          <<[base |-> works, rolls |-> 0, clone |-> FALSE, pool |-> pool, block |-> 0]>>]
  BY DEF NewWork
<1> DEFINE w == [base |-> works, rolls |-> 0, clone |-> FALSE, pool |-> pool, block |-> 0]
           y == Held(t, 0, w)
<1>2. w.base = works
  OBVIOUS
<1>3. held' = [held EXCEPT ![t] = <<w>>]
  BY <1>1
<1> HIDE DEF w
<1>4. /\ held'[t] = <<w>> /\ \A u \in Stagers : u # t => held'[u] = held[u]
      /\ DOMAIN held'[t] = {1} /\ Len(held'[t]) - 1 = 0 /\ held'[t][1] = w
  BY <1>3 DEF IInv, StagersOK
<1>5. First(t)' = y /\ First(t)' \in Items'
  <2>1. First(t)' = y
    BY <1>4 DEF First
  <2>2. Held(t, Len(held'[t]) - 1, held'[t][1]) \in Items'
    BY <1>4, ItemAt DEF AreItems
  <2> QED
    BY <1>4, <2>1, <2>2
<1>6. Items' \subseteq Items \cup {y}
  <2> SUFFICES ASSUME NEW x \in Items' PROVE x = y \/ x \in Items
    OBVIOUS
  <2>1. ASSUME NEW u \in Stagers, NEW i \in DOMAIN held'[u],
               x = Held(u, Len(held'[u]) - i, held'[u][i])
        PROVE  x = y \/ x \in Items
    <3>1. CASE u = t
      <4>1. i = 1
        BY <1>4, <3>1
      <4>2. x = Held(t, 0, w)
        BY <1>4, <2>1, <3>1, <4>1
      <4> QED
        BY <4>2
    <3>2. CASE u # t
      BY <1>4, <2>1, <3>2, ItemAt DEF AreItems
    <3> QED
      BY <3>1, <3>2
  <2> QED
    BY <2>1, ItemAt DEF AreItems
<1>7. works \in Nat /\ works' = works + 1 /\ WorkOn(y).base = works
  BY <1>2, ItemsAre DEF NewWork, IInv, RestOK
<1>8. \A x \in Items' : WorkOn(x) \in Work
  <2>1. (IInv => \A x \in Items : WorkOn(x) \in Work)'
    BY ItemTypes, PTL
  <2> QED
    BY <2>1
<1> DEFINE I == Items
           J == Items'
           n == works
<1>9. /\ Distinct(J) /\ Masters(J) /\ HandedOut(J, works')
      /\ y \in J => Lone(J, y)
      /\ \A o \in J : o # y /\ Lone(I, o) => Lone(J, o)
  <2>1. /\ J \in SUBSET (I \cup {y}) /\ n \in Nat /\ \A x \in J : WorkOn(x) \in Work
        /\ HandedOut(I, n) /\ WorkOn(y).base = n /\ Distinct(I) /\ Masters(I)
        /\ works' = n + 1
    BY <1>6, <1>7, <1>8 DEF HInv
  <2> HIDE DEF I, J, n, y
  <2> QED
    BY <2>1, Fresh
<1>10. Whole' => Lone(J, First("lp")')
  <2>1. CASE t = "lp"
    BY <1>5, <1>9, <2>1
  <2>2. CASE t # "lp" /\ Whole
    <3>1. "lp" \in Stagers /\ pc["lp"] \in Laden
      BY <2>2 DEF Whole, Laden, Stagers
    <3>2. held'["lp"] = held["lp"] /\ 1 \in DOMAIN held["lp"]
      BY <1>4, <2>2, <3>1, FirstWork
    <3>3. First("lp")' = First("lp")
      BY <3>2 DEF First
    <3>4. First("lp")' \in Items'
      BY <3>1, <3>2, <3>3, ItemAt DEF AreItems, First
    <3>5. First("lp") # y
      BY <2>2, ItemsAre DEF First
    <3> QED
      BY <1>9, <2>2, <3>3, <3>4, <3>5 DEF HInv
  <2> QED
    BY <2>1, <2>2
<1> QED
  BY <1>7, <1>9, <1>10 DEF HInv, Distinct, Masters, HandedOut, Lone

\* The scheduler clones a staged work.
LEMMA SchedCloneStep ==
    ASSUME IInv, HInv, SchedClone
    PROVE  HInv'
<1>1. PICK w \in staged_work : CanRoll(w) /\ CloneAvailable(w)
  BY DEF SchedClone
<1> DEFINE m == Rolled(w, 2)
           v == Clone(Rolled(w, 1))
           y == Staged(m)
           c == Held("sched", 0, v)
<1>2. w \in Work /\ ~w.clone
  BY <1>1 DEF IInv, QueueOK, CanRoll, work_rollable
<1>3. /\ m.base = w.base /\ m.rolls = w.rolls + 2
      /\ v.base = w.base /\ v.rolls = w.rolls + 1 /\ v.clone
  BY <1>2 DEF Work, Rolled, Clone
<1>4. /\ staged_work' = (staged_work \ {w}) \cup {m} /\ held' = [held EXCEPT !["sched"] = <<v>>]
      /\ UNCHANGED <<work, works>>
      /\ pc["sched"] = "make" /\ pc' = [pc EXCEPT !["sched"] = "stamp"]
  BY <1>1 DEF SchedClone, CloneAvailable, mining, chain, At, Go
<1> HIDE DEF m, v
<1>5. /\ held'["sched"] = <<v>> /\ \A u \in Stagers : u # "sched" => held'[u] = held[u]
      /\ DOMAIN held'["sched"] = {1} /\ Len(held'["sched"]) - 1 = 0 /\ held'["sched"][1] = v
  BY <1>4 DEF IInv, StagersOK, Stagers
<1>6. Items' \subseteq (Items \ {Staged(w)}) \cup {y, c}
  <2> SUFFICES ASSUME NEW x \in Items' PROVE x \in {y, c} \/ (x \in Items /\ x # Staged(w))
    OBVIOUS
  <2>1. ASSUME NEW u \in staged_work', x = Staged(u)
        PROVE  x \in {y, c} \/ (x \in Items /\ x # Staged(w))
    BY <1>4, <2>1, ItemAt, ItemsAre DEF AreItems
  <2>2. ASSUME NEW n \in Miners, work'[n] # NoWork, x = Mined(n, work'[n])
        PROVE  x \in Items /\ x # Staged(w)
    BY <1>4, <2>2, ItemAt, ItemsAre DEF AreItems
  <2>3. ASSUME NEW u \in Stagers, NEW i \in DOMAIN held'[u],
               x = Held(u, Len(held'[u]) - i, held'[u][i])
        PROVE  x \in {y, c} \/ (x \in Items /\ x # Staged(w))
    <3>1. CASE u = "sched"
      <4>1. i = 1
        BY <1>5, <3>1
      <4>2. x = c
        BY <1>5, <2>3, <3>1, <4>1
      <4> QED
        BY <4>2
    <3>2. CASE u # "sched"
      BY <1>5, <2>3, <3>2, ItemAt, ItemsAre DEF AreItems
    <3> QED
      BY <3>1, <3>2
  <2> QED
    BY <2>1, <2>2, <2>3, ItemAt DEF AreItems
<1> DEFINE I == Items
           J == Items'
           z == Staged(w)
           n == works
<1>7. /\ Distinct(J) /\ Masters(J) /\ HandedOut(J, n)
      /\ \A o \in J : o \notin {y, c} /\ Lone(I, o) => Lone(J, o)
  <2>1. /\ z \in I /\ J \in SUBSET ((I \ {z}) \cup {y, c})
        /\ \A x \in I : WorkOn(x) \in Work
        /\ Distinct(I) /\ Masters(I) /\ HandedOut(I, n)
    BY <1>6, ItemAt, ItemTypes DEF HInv, AreItems
  <2>2. /\ WorkOn(y).base = WorkOn(z).base /\ WorkOn(c).base = WorkOn(z).base
        /\ WorkOn(y).rolls = WorkOn(z).rolls + 2 /\ WorkOn(c).rolls = WorkOn(z).rolls + 1
        /\ ~WorkOn(z).clone /\ WorkOn(c).clone
    BY <1>2, <1>3, ItemsAre
  <2> HIDE DEF I, J, n, y, c, z
  <2> QED
    BY <2>1, <2>2, Split
<1>8. ASSUME Whole' PROVE Lone(J, First("lp")')
  <2>1. Whole /\ "lp" \in Stagers /\ pc["lp"] \in Laden
    BY <1>4, <1>8 DEF Whole, Laden, Stagers, IInv, StagersOK
  <2>2. held'["lp"] = held["lp"] /\ 1 \in DOMAIN held["lp"]
    BY <1>5, <2>1, FirstWork
  <2>3. First("lp")' = First("lp")
    BY <2>2 DEF First
  <2>4. First("lp")' \in Items'
    BY <2>1, <2>2, <2>3, ItemAt DEF AreItems, First
  <2>5. First("lp") \notin {y, c}
    BY <2>1, ItemsAre DEF First
  <2> QED
    BY <1>7, <2>1, <2>3, <2>4, <2>5 DEF HInv
<1> QED
  BY <1>4, <1>7, <1>8 DEF HInv, Distinct, Masters, HandedOut, Lone

\* convert_to_work clones the work of a long poll.
LEMMA ConvertStep ==
    ASSUME IInv, HInv, Convert
    PROVE  HInv'
<1> DEFINE w == held["lp"][1]
<1>1. PICK n \in Nat : held' = [held EXCEPT !["lp"] = CloneWork(w, n)]
  <2>1. Cardinality(Miners) + OptQueue \in Nat
    BY MinersAssumption, QueueAssumption, FS_CardinalityType
  <2>2. PICK k \in 0 .. Cardinality(Miners) + OptQueue :
          held' = [held EXCEPT !["lp"] = CloneWork(w, k)]
    BY DEF Convert
  <2>3. k \in Nat
    BY <2>1
  <2> QED
    BY <2>2, <2>3, Zenon
<1>2. /\ pc["lp"] = "convert" /\ pc' = [pc EXCEPT !["lp"] = "stamp"]
      /\ UNCHANGED <<staged_work, work, works>>
      /\ Whole /\ pc["lp"] \in Laden
  BY DEF Convert, At, Go, queueing, mining, chain, Whole, Laden
<1>3. ~Whole'
  BY <1>2 DEF Whole, IInv, StagersOK, Stagers
<1>4. w \in Work /\ Lone(Items, First("lp"))
  BY <1>2, FirstWork DEF Stagers, HInv
<1> DEFINE c == CloneWork(w, n)
           C == { Held("lp", Len(c) - i, c[i]) : i \in DOMAIN c }
           z == First("lp")
<1>5. /\ \A i \in DOMAIN c : c[i].base = w.base
      /\ \A i, j \in DOMAIN c : c[i].rolls = c[j].rolls => i = j
      /\ \A i, j \in DOMAIN c : ~c[j].clone => c[i].rolls <= c[j].rolls
  <2>1. c = CloneWork(w, n)
    OBVIOUS
  <2> HIDE DEF c, w
  <2> QED
    BY <1>4, <2>1, CloneHeaders
<1>6. WorkOn(z) = w
  BY ItemsAre DEF First
<1>7. /\ held'["lp"] = c /\ \A u \in Stagers : u # "lp" => held'[u] = held[u]
  <2> HIDE DEF c
  <2> QED
    BY <1>1 DEF c, IInv, StagersOK, Stagers
<1> HIDE DEF c, w
<1>8. \A x \in C : \E i \in DOMAIN c : x = Held("lp", Len(c) - i, c[i]) /\ WorkOn(x) = c[i]
  BY ItemsAre
<1>9. \A x \in C : WorkOn(x).base = WorkOn(z).base
  BY <1>5, <1>6, <1>8
<1>10. Distinct(C)
  BY <1>5, <1>8 DEF Distinct, Header
<1>11. Masters(C)
  BY <1>5, <1>8 DEF Masters
<1>12. Items' \subseteq (Items \ {z}) \cup C
  <2> SUFFICES ASSUME NEW x \in Items' PROVE x \in C \/ (x \in Items /\ x # z)
    OBVIOUS
  <2>0. "lp" \in Stagers
    BY DEF Stagers
  <2>1. ASSUME NEW u \in staged_work, x = Staged(u)
        PROVE  x \in Items /\ x # z
    BY <2>0, <2>1, ItemAt, ItemsAre DEF AreItems, First
  <2>2. ASSUME NEW m \in Miners, work[m] # NoWork, x = Mined(m, work[m])
        PROVE  x \in Items /\ x # z
    BY <2>0, <2>2, ItemAt, ItemsAre DEF AreItems, First
  <2>3. ASSUME NEW u \in Stagers, NEW i \in DOMAIN held'[u],
               x = Held(u, Len(held'[u]) - i, held'[u][i])
        PROVE  x \in C \/ (x \in Items /\ x # z)
    <3>1. CASE u = "lp"
      BY <1>7, <2>3, <3>1
    <3>2. CASE u # "lp"
      <4>1. x \in Items
        BY <1>7, <2>3, <3>2, ItemAt DEF AreItems
      <4>2. x # z
        BY <2>3, <3>2, ItemsAre DEF First
      <4> QED
        BY <4>1, <4>2
    <3> QED
      BY <3>1, <3>2
  <2> QED
    BY <1>2, <2>1, <2>2, <2>3, ItemAt DEF AreItems
<1> DEFINE I == Items
           J == Items'
           o == works
<1>13. Distinct(J) /\ Masters(J) /\ HandedOut(J, o)
  <2>1. /\ Lone(I, z) /\ J \in SUBSET ((I \ {z}) \cup C)
        /\ Distinct(I) /\ Masters(I) /\ HandedOut(I, o)
    BY <1>4, <1>12 DEF HInv
  <2> HIDE DEF I, J, o, z, C
  <2> QED
    BY <1>9, <1>10, <1>11, <2>1, Replaced
<1> QED
  BY <1>2, <1>3, <1>13 DEF HInv, Distinct, Masters, HandedOut

\* Every step keeps the headers apart.
LEMMA HeadersStep ==
    ASSUME IInv, IInv', HInv, Next
    PROVE  HInv'
<1> USE DEF chain, queueing, staging, mining, restarting
<1>0. ASSUME UNCHANGED <<held, work, works>>, staged_work' \subseteq staged_work, Whole' => Whole
      PROVE  HInv'
  BY <1>0, KeepStep
<1>1. work_block \in Nat /\ work_block + 1 \in Nat
  BY DEF IInv, RestOK
<1>2. ASSUME NEW t \in Stagers, StagerStep(t) PROVE HInv'
  <2>1. CASE Stamp(t)
    <3>1. /\ pc[t] \in Laden /\ held' = [held EXCEPT ![t][1].block = work_block]
          /\ UNCHANGED <<staged_work, work, works>>
          /\ pc[t] = "stamp" /\ pc' = [pc EXCEPT ![t] = "test"]
      BY <2>1 DEF Stamp, At, Go, Laden
    <3>2. Whole' => Whole
      BY <3>1 DEF Whole, IInv, StagersOK, Stagers
    <3> QED
      BY <1>1, <3>1, <3>2, Stamped
  <2>2. CASE TestAndPush(t)
    <3>1. pc[t] = "test" /\ UNCHANGED <<work, works>>
      BY <2>2 DEF TestAndPush, At
    <3>2. CASE prev[t] \in blocks
      BY <2>2, <3>1, <3>2, Pushed DEF TestAndPush
    <3>3. CASE prev[t] \notin blocks
      <4>1. pc' = [pc EXCEPT ![t] = "new"] /\ UNCHANGED <<held, staged_work>>
        BY <2>2, <3>3 DEF TestAndPush, Go
      <4>2. Whole' => Whole
        BY <3>1, <4>1 DEF Whole, IInv, StagersOK, Stagers
      <4> QED
        BY <1>0, <3>1, <4>1, <4>2
    <3> QED
      BY <3>2, <3>3
  <2>3. CASE AddBlock(t)
    <3>1. /\ pc[t] \in Laden /\ UNCHANGED <<staged_work, work, works>>
          /\ \/ pc[t] = "new" /\ pc' = [pc EXCEPT ![t] = "push"]
             \/ pc[t] = "announce new" /\ pc' = [pc EXCEPT ![t] = "convert"]
      BY <2>3 DEF AddBlock, At, Go, Laden
    <3>2. Whole' => Whole
      BY <3>1 DEF Whole, IInv, StagersOK, Stagers
    <3>3. CASE UNCHANGED held
      BY <1>0, <3>1, <3>2, <3>3
    <3>4. CASE held' = [held EXCEPT ![t][1].block = work_block + 1]
      BY <1>1, <3>1, <3>2, <3>4, Stamped
    <3> QED
      BY <2>3, <3>3, <3>4 DEF AddBlock, NewBlock
  <2>4. CASE PushNew(t)
    BY <2>4, Pushed DEF PushNew, At
  <2> QED
    BY <1>2, <2>1, <2>2, <2>3, <2>4 DEF StagerStep
<1>3. CASE Announce
  <2>1. /\ pc["lp"] \in Laden /\ UNCHANGED <<staged_work, work, works>> /\ Whole
        /\ "lp" \in Stagers
    BY <1>3 DEF Announce, At, Laden, Whole, Stagers
  <2>2. CASE UNCHANGED held
    BY <1>0, <2>1, <2>2
  <2>3. CASE held' = [held EXCEPT !["lp"][1].block = work_block + 1]
    BY <1>1, <2>1, <2>3, Stamped
  <2> QED
    BY <1>3, <2>2, <2>3 DEF Announce, NewBlock, NewBlockElsewhere
<1>4. CASE LongPoll
  BY <1>4, NewWorkStep DEF LongPoll, Stagers
<1>5. CASE SchedFetch
  <2>1. Whole' => Whole
    BY <1>5 DEF SchedFetch, Go, Whole, IInv, StagersOK, Stagers
  <2> QED
    BY <1>5, <2>1, NewWorkStep DEF SchedFetch, Stagers
<1>6. CASE Unwanted
  <2>1. /\ held' = [held EXCEPT !["lp"] = <<>>] /\ UNCHANGED <<staged_work, work, works>>
        /\ pc' = [pc EXCEPT !["lp"] = "idle"]
    BY <1>6 DEF Unwanted, Go
  <2>2. ~Whole'
    BY <2>1 DEF Whole, IInv, StagersOK, Stagers
  <2>3. DOMAIN held'["lp"] = {} /\ \A u \in Stagers : u # "lp" => held'[u] = held[u]
    BY <2>1 DEF IInv, StagersOK, Stagers
  <2>4. Items' \subseteq Items
    BY <2>1, <2>3, ItemAt DEF AreItems
  <2> QED
    BY <2>1, <2>2, <2>4, FewerStep
<1>7. CASE Convert
  BY <1>7, ConvertStep
<1>8. CASE SchedClone
  BY <1>8, SchedCloneStep
<1>9. CASE SchedLimit \/ SchedLook \/ SchedWoken
  <2>1. UNCHANGED <<held, work, works, staged_work>>
    BY <1>9 DEF SchedLimit, SchedLook, SchedWoken
  <2>2. Whole' => Whole
    BY <1>9 DEF SchedLimit, SchedLook, SchedWoken, Go, Whole, IInv, StagersOK, Stagers
  <2> QED
    BY <1>0, <2>1, <2>2
<1>10. CASE SchedDrop
  <2>1. UNCHANGED <<held, work, works>> /\ staged_work' \subseteq staged_work
    BY <1>10 DEF SchedDrop, Take
  <2>2. Whole' => Whole
    BY <1>10 DEF SchedDrop, Go, Whole, IInv, StagersOK, Stagers
  <2> QED
    BY <1>0, <2>1, <2>2
<1>11. CASE ClearPoolWork \/ Watchdog \/ RestartDiscard
  <2>1. UNCHANGED <<held, work, works, pc>> /\ staged_work' \subseteq staged_work
    BY <1>11 DEF ClearPoolWork, Watchdog, RestartDiscard, DiscardStale
  <2> QED
    BY <1>0, <2>1 DEF Whole
<1>12. ASSUME NEW m \in Miners, GetWork(m) PROVE HInv'
  <2>1. PICK w \in Candidates :
          /\ Take(w)
          /\ work' = [work EXCEPT ![m] = w] \/ UNCHANGED work
    BY <1>12 DEF GetWork
  <2>2. w \in staged_work /\ staged_work' = staged_work \ {w}
    BY <2>1 DEF Candidates, Take
  <2>3. UNCHANGED <<held, pc, works>>
    BY <1>12 DEF GetWork
  <2>4. CASE UNCHANGED work
    BY <1>0, <2>2, <2>3, <2>4 DEF Whole
  <2>5. CASE work' = [work EXCEPT ![m] = w]
    BY <2>2, <2>3, <2>5, Popping
  <2> QED
    BY <2>1, <2>4, <2>5
<1>13. ASSUME NEW m \in Miners, HashPopEmpty(m) \/ ClearRestart(m) \/ RestartFlag(m)
       PROVE  HInv'
  <2>1. UNCHANGED <<held, work, works, pc, staged_work>>
    BY <1>13 DEF HashPopEmpty, ClearRestart, RestartFlag
  <2> QED
    BY <1>0, <2>1 DEF Whole
<1>14. ASSUME NEW m \in Miners, Scanned(m) \/ Shutdown(m) PROVE HInv'
  <2>1. UNCHANGED <<held, works, pc, staged_work>>
    BY <1>14 DEF Scanned, Shutdown
  <2>2. \A n \in Miners : work'[n] = work[n] \/ work'[n] = NoWork
    BY <1>14 DEF Scanned, Shutdown, Free, IInv, RestOK
  <2> QED
    BY <2>1, <2>2, KeepStep DEF Whole
<1> QED
  BY <1>2, <1>3, <1>4, <1>5, <1>6, <1>7, <1>8, <1>9, <1>10, <1>11, <1>12, <1>13, <1>14
  DEF Next, SchedStep, LongPollStep, MinerStep, Stagers

\* The headers are apart at the start and stay so.
THEOREM ItemsApart == Spec => [](IInv /\ HInv)
<1>1. Init => HInv
  <2> SUFFICES ASSUME Init PROVE HInv
    OBVIOUS
  <2>1. Items = {} /\ ~Whole
    BY DEF Init, Items, Whole, Home, Stagers
  <2> QED
    BY <2>1 DEF HInv, Distinct, Masters, HandedOut
<1>2. IInv /\ IInv' /\ HInv /\ [Next]_vars => HInv'
  <2> SUFFICES ASSUME IInv, IInv', HInv, [Next]_vars PROVE HInv'
    OBVIOUS
  <2>1. CASE UNCHANGED vars
    <3>1. UNCHANGED <<held, work, works, pc, staged_work>>
      BY <2>1 DEF vars, chain, queueing, staging, mining
    <3> QED
      BY <3>1, KeepStep DEF Whole
  <2> QED
    BY <2>1, HeadersStep
<1> QED
  BY <1>1, <1>2, Inductive, PTL DEF Spec

\* Different items are what the property is about.
LEMMA Apart == IInv /\ HInv => HeadersDistinct
<1> SUFFICES ASSUME IInv, HInv PROVE HeadersDistinct
  OBVIOUS
<1>1. Distinct(Items)
  BY DEF HInv
<1>2. ASSUME NEW v \in Present PROVE \E x \in Items : WorkOn(x) = v
  <2>1. CASE v \in staged_work
    BY <2>1, ItemAt, ItemsAre DEF AreItems
  <2>2. ASSUME NEW m \in Miners, work[m] # NoWork, v = work[m]
        PROVE  \E x \in Items : WorkOn(x) = v
    BY <2>2, ItemAt, ItemsAre DEF AreItems
  <2>3. ASSUME NEW t \in Stagers, NEW i \in DOMAIN held[t], v = held[t][i]
        PROVE  \E x \in Items : WorkOn(x) = v
    BY <2>3, ItemAt, ItemsAre DEF AreItems
  <2> QED
    BY <2>1, <2>2, <2>3 DEF Present
<1>3. \A v, w \in Present : Header(v) = Header(w) => v = w
  BY <1>1, <1>2 DEF Distinct
<1>4. ASSUME NEW m \in Miners, NEW n \in Miners, m # n, work[m] = work[n]
      PROVE  work[m] = NoWork
  BY <1>1, <1>4, ItemAt, ItemsAre DEF AreItems, Distinct
<1>5. ASSUME NEW m \in Miners PROVE work[m] \notin staged_work
  <2>1. CASE work[m] = NoWork
    BY <2>1, NoWorkAssumption DEF IInv, QueueOK
  <2>2. CASE work[m] # NoWork
    BY <1>1, <2>2, ItemAt, ItemsAre DEF AreItems, Distinct
  <2> QED
    BY <2>1, <2>2
<1> QED
  BY <1>3, <1>4, <1>5 DEF HeadersDistinct

(***************************************************************************)
(* No two works, staged, with a mining thread or about to be staged, have  *)
(* the same header, however works are rolled by clone_work and             *)
(* clone_available, staged and popped.                                     *)
(***************************************************************************)
THEOREM NothingIsHashedTwice == Spec => []HeadersDistinct
BY ItemsApart, Apart, PTL
-----------------------------------------------------------------------------
(***************************************************************************)
(* Waiting.  A mining thread that sleeps on getq->cond, and has not been   *)
(* woken, sleeps because nothing is staged, and then the scheduler is      *)
(* awake or about to wake.                                                 *)
(***************************************************************************)
WaitersHeard ==
    \A m \in Miners :
        mpc[m] = "waiting" /\ m \notin getq =>
            staged_work = {} /\ (pc["sched"] = "asleep" => gws)

\* Whoever stages or takes a work, or goes to sleep, sees to it.
LEMMA WaitersStep ==
    ASSUME IInv, WaitersHeard, Next
    PROVE  WaitersHeard'
<1> USE DEF WaitersHeard, chain, queueing, staging, mining, restarting
<1>0. ASSUME UNCHANGED <<mpc, getq, staged_work>>, At("sched", "asleep")' => At("sched", "asleep"),
             gws => gws'
      PROVE  WaitersHeard'
  BY <1>0 DEF At
<1>1. ASSUME UNCHANGED <<mpc, getq>>, staged_work # {} PROVE WaitersHeard'
  BY <1>1
<1>2. ASSUME NEW t \in Stagers, Push(t), UNCHANGED mpc PROVE WaitersHeard'
  BY <1>2 DEF Push
<1>3. ASSUME NEW t \in Stagers, StagerStep(t) PROVE WaitersHeard'
  <2>1. CASE Stamp(t) \/ AddBlock(t)
    <3>1. At("sched", "asleep")' => At("sched", "asleep")
      BY <2>1 DEF Stamp, AddBlock, At, Go, IInv, StagersOK, Stagers
    <3> QED
      BY <1>0, <2>1, <3>1 DEF Stamp, AddBlock
  <2>2. CASE TestAndPush(t)
    <3>1. CASE prev[t] \notin blocks
      <4>1. At("sched", "asleep")' => At("sched", "asleep")
        BY <2>2, <3>1 DEF TestAndPush, At, Go, IInv, StagersOK, Stagers
      <4> QED
        BY <1>0, <2>2, <3>1, <4>1 DEF TestAndPush
    <3>2. CASE prev[t] \in blocks
      BY <1>2, <2>2, <3>2 DEF TestAndPush
    <3> QED
      BY <3>1, <3>2
  <2>3. CASE PushNew(t)
    BY <1>2, <2>3 DEF PushNew
  <2> QED
    BY <1>3, <2>1, <2>2, <2>3 DEF StagerStep
<1>4. CASE Announce \/ LongPoll \/ Convert \/ Unwanted
  <2>1. At("sched", "asleep")' => At("sched", "asleep")
    BY <1>4 DEF Announce, LongPoll, Convert, Unwanted, At, Go, IInv, StagersOK, Stagers
  <2> QED
    BY <1>0, <1>4, <2>1 DEF Announce, LongPoll, Convert, Unwanted
<1>5. CASE SchedLimit \/ SchedFetch
  <2>1. At("sched", "asleep")' => At("sched", "asleep")
    BY <1>5 DEF SchedLimit, SchedFetch, At, Go, IInv, StagersOK, Stagers
  <2> QED
    BY <1>0, <1>5, <2>1 DEF SchedLimit, SchedFetch
<1>6. CASE SchedLook
  <2>1. CASE TooMany
    <3>1. staged_work # {}
      <4>1. Cardinality({}) = 0 /\ max_staged \in Nat
        BY FS_EmptySet DEF IInv, RestOK
      <4> QED
        BY <2>1, <4>1 DEF TooMany
    <3> QED
      BY <1>1, <1>6, <3>1 DEF SchedLook
  <2>2. CASE ~TooMany
    <3>1. At("sched", "asleep")' => At("sched", "asleep")
      BY <1>6, <2>2 DEF SchedLook, At, Go, IInv, StagersOK, Stagers
    <3> QED
      BY <1>0, <1>6, <3>1 DEF SchedLook
  <2> QED
    BY <2>1, <2>2
<1>7. CASE SchedWoken
  <2>1. ~At("sched", "asleep")' /\ UNCHANGED <<mpc, getq, staged_work>>
    BY <1>7 DEF SchedWoken, At, Go, IInv, StagersOK, Stagers
  <2> QED
    BY <2>1 DEF At
<1>8. CASE SchedDrop
  <2>1. UNCHANGED mpc /\ ~At("sched", "asleep")'
    BY <1>8 DEF SchedDrop, At, Go, IInv, StagersOK, Stagers
  <2>2. CASE staged_work = {} /\ UNCHANGED <<staged_work, getq>>
    BY <2>1, <2>2 DEF At
  <2>3. CASE staged_work # {} /\ Popped("sched")
    <3>1. getq \subseteq getq'
      BY <2>3, ThreadsAssumption DEF Popped, Stagers, IInv, RestOK
    <3> QED
      BY <2>1, <2>3, <3>1
  <2> QED
    BY <1>8, <2>2, <2>3 DEF SchedDrop, Candidates
<1>9. CASE SchedClone \/ ClearPoolWork
  <2>1. staged_work # {} /\ UNCHANGED <<mpc, getq>>
    BY <1>9 DEF SchedClone, ClearPoolWork
  <2> QED
    BY <1>1, <2>1
<1>10. CASE Watchdog \/ RestartDiscard
  <2>1. /\ UNCHANGED <<mpc, getq, pc>> /\ staged_work' \subseteq staged_work
        /\ gws' = At("sched", "asleep")
    BY <1>10 DEF Watchdog, RestartDiscard, DiscardStale, SignalGws
  <2> QED
    BY <2>1 DEF At
<1>11. ASSUME NEW m \in Miners, HashPopEmpty(m) PROVE WaitersHeard'
  <2>1. /\ staged_work' = {} /\ UNCHANGED pc /\ gws' = At("sched", "asleep")
    BY <1>11 DEF HashPopEmpty, WaitForWork, SignalGws
  <2> QED
    BY <2>1 DEF At
<1>12. ASSUME NEW m \in Miners, GetWork(m) PROVE WaitersHeard'
  <2>1. staged_work # {} /\ Popped(m)
    BY <1>12 DEF GetWork, Candidates
  <2>2. mpc'[m] # "waiting" /\ \A n \in Miners : n # m => mpc'[n] = mpc[n]
    BY <1>12 DEF GetWork, IInv, RestOK
  <2>3. getq \ {m} \subseteq getq'
    BY <2>1 DEF Popped
  <2> QED
    BY <2>1, <2>2, <2>3
<1>13. ASSUME NEW m \in Miners, ClearRestart(m) \/ Scanned(m) \/ Shutdown(m)
       PROVE  WaitersHeard'
  <2>1. /\ UNCHANGED <<getq, staged_work, pc, gws>>
        /\ \A n \in Miners : mpc'[n] = "waiting" => mpc[n] = "waiting"
    BY <1>13 DEF ClearRestart, Scanned, Shutdown, MinerGoes, IInv, RestOK
  <2> QED
    BY <2>1
<1>14. ASSUME NEW m \in Miners, RestartFlag(m) PROVE WaitersHeard'
  BY <1>14 DEF RestartFlag
<1> QED
  BY <1>3, <1>4, <1>5, <1>6, <1>7, <1>8, <1>9, <1>10, <1>11, <1>12, <1>13, <1>14
  DEF Next, SchedStep, LongPollStep, MinerStep, Stagers

(***************************************************************************)
(* No deadlock of the scheduler and the mining threads: as long as a       *)
(* thread waits for work unheard, nothing is staged, and the scheduler     *)
(* does not sleep on gws_cond without having been woken, although the wait *)
(* has no loop and the condition remembers no signal.                      *)
(***************************************************************************)
THEOREM NobodyWaitsUnheard == Spec => []WaitersHeard
<1>1. Init => WaitersHeard
  BY DEF Init, WaitersHeard
<1>2. IInv /\ WaitersHeard /\ [Next]_vars => WaitersHeard'
  <2> SUFFICES ASSUME IInv, WaitersHeard, [Next]_vars PROVE WaitersHeard'
    OBVIOUS
  <2>1. CASE UNCHANGED vars
    BY <2>1 DEF vars, queueing, staging, mining, WaitersHeard
  <2> QED
    BY <2>1, WaitersStep
<1> QED
  BY <1>1, <1>2, Inductive, PTL DEF Spec
=============================================================================
