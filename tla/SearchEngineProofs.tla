--------------------------- MODULE SearchEngineProofs ---------------------------
(***************************************************************************)
(* Theorems about SearchEngine, for any number of nonces, any jobs, any    *)
(* period, number of windows and width of the counter, in particular for   *)
(* those of the hardware (2^32, 16, 4, 256); the software resumes a search *)
(* only when the pipelines are empty.                                      *)
(***************************************************************************)
EXTENDS SearchEngine, FiniteSetTheorems, TLAPS

-----------------------------------------------------------------------------
(***************************************************************************)
(* Sizes and phases.                                                       *)
(***************************************************************************)
LEMMA Sizes ==
    /\ PERIOD \in Nat /\ PERIOD >= 2
    /\ WINDOWS \in Nat /\ WINDOWS >= 1
    /\ DEPTH = WINDOWS + 1 /\ DEPTH \in Nat
    /\ TOP = 2 * DEPTH /\ TOP \in Nat
    /\ LAST \in Nat /\ LAST >= 1
    /\ CTRMOD \in Nat /\ TOP * PERIOD \in Nat /\ TOP * PERIOD < CTRMOD
    /\ 2 * PERIOD < CTRMOD
    /\ N \in Nat /\ N >= 1
<1>1. /\ PERIOD \in Nat /\ PERIOD >= 2 /\ WINDOWS \in Nat /\ WINDOWS >= 1
      /\ CTRMOD \in Nat /\ CTRMOD > TOP * PERIOD /\ N \in Nat /\ N >= 1
  BY TimingAssumption, NAssumption
<1>2. DEPTH = WINDOWS + 1 /\ DEPTH \in Nat /\ TOP = 2 * DEPTH /\ TOP \in Nat /\ TOP >= 2
  BY <1>1 DEF DEPTH, TOP
<1>3. TOP * PERIOD \in Nat /\ 2 * PERIOD <= TOP * PERIOD
  BY <1>1, <1>2
<1>4. LAST \in Nat /\ LAST >= 1
  BY <1>1 DEF LAST
<1> QED
  BY <1>1, <1>2, <1>3, <1>4

LEMMA Division ==
    ASSUME NEW n \in Nat
    PROVE  /\ n % PERIOD \in 0 .. PERIOD - 1 /\ n \div PERIOD \in Nat
           /\ n = PERIOD * (n \div PERIOD) + (n % PERIOD)
BY Sizes

LEMMA DivisionUnique ==
    ASSUME NEW q \in Nat, NEW r \in 0 .. PERIOD - 1
    PROVE  (PERIOD * q + r) % PERIOD = r /\ (PERIOD * q + r) \div PERIOD = q
BY Sizes

\* A cycle later.
LEMMA Successor ==
    ASSUME NEW n \in Nat
    PROVE  /\ (n + 1) % PERIOD = IF n % PERIOD = PERIOD - 1 THEN 0 ELSE (n % PERIOD) + 1
           /\ (n + 1) \div PERIOD = IF n % PERIOD = PERIOD - 1 THEN (n \div PERIOD) + 1
                                                              ELSE n \div PERIOD
<1> DEFINE q == n \div PERIOD
           r == n % PERIOD
<1>1. r \in 0 .. PERIOD - 1 /\ q \in Nat /\ n = PERIOD * q + r
  BY Division
<1> HIDE DEF q, r
<1>2. \A x \in Nat, y \in 0 .. PERIOD - 1 :
        (PERIOD * x + y) % PERIOD = y /\ (PERIOD * x + y) \div PERIOD = x
  BY DivisionUnique
<1>3. CASE r = PERIOD - 1
  <2>1. n + 1 = PERIOD * (q + 1) + 0 /\ q + 1 \in Nat /\ 0 \in 0 .. PERIOD - 1
    BY <1>1, <1>3, Sizes
  <2>2. (n + 1) % PERIOD = 0 /\ (n + 1) \div PERIOD = q + 1
    BY <1>2, <2>1
  <2> QED
    BY <1>3, <2>2 DEF q, r
<1>4. CASE r # PERIOD - 1
  <2>1. n + 1 = PERIOD * q + (r + 1) /\ r + 1 \in 0 .. PERIOD - 1
    BY <1>1, <1>4, Sizes
  <2>2. (n + 1) % PERIOD = r + 1 /\ (n + 1) \div PERIOD = q
    BY <1>1, <1>2, <2>1
  <2> QED
    BY <1>4, <2>2 DEF q, r
<1> QED
  BY <1>3, <1>4

\* Numbers in phase stay in phase.
LEMMA InPhase ==
    ASSUME NEW a \in Nat, NEW b \in Nat
    PROVE  a % PERIOD = b % PERIOD <=> (a + 1) % PERIOD = (b + 1) % PERIOD
<1>1. /\ (a + 1) % PERIOD = IF a % PERIOD = PERIOD - 1 THEN 0 ELSE (a % PERIOD) + 1
      /\ (b + 1) % PERIOD = IF b % PERIOD = PERIOD - 1 THEN 0 ELSE (b % PERIOD) + 1
  BY Successor
<1>2. a % PERIOD \in 0 .. PERIOD - 1 /\ b % PERIOD \in 0 .. PERIOD - 1
  BY Division
<1> QED
  BY <1>1, <1>2

\* A multiple of the period, and the number after it.
LEMMA AtBeat ==
    ASSUME NEW q \in Nat
    PROVE  /\ (q * PERIOD) % PERIOD = 0 /\ (q * PERIOD) \div PERIOD = q
           /\ (q * PERIOD + 1) % PERIOD = 1
<1>1. /\ q * PERIOD = PERIOD * q + 0 /\ q * PERIOD + 1 = PERIOD * q + 1
      /\ 0 \in 0 .. PERIOD - 1 /\ 1 \in 0 .. PERIOD - 1
  BY Sizes
<1>2. \A y \in 0 .. PERIOD - 1 :
        (PERIOD * q + y) % PERIOD = y /\ (PERIOD * q + y) \div PERIOD = q
  BY DivisionUnique
<1> QED
  BY <1>1, <1>2

\* The stages of a core, and the window of each.
LEMMA Stages ==
    /\ LAST % PERIOD = 0 /\ LAST \div PERIOD = WINDOWS /\ (LAST + 1) % PERIOD = 1
    /\ \A i \in 0 .. LAST : i \div PERIOD \in 0 .. WINDOWS
<1>1. LAST = WINDOWS * PERIOD /\ WINDOWS \in Nat
  BY Sizes DEF LAST
<1>2. LAST % PERIOD = 0 /\ LAST \div PERIOD = WINDOWS /\ (LAST + 1) % PERIOD = 1
  BY <1>1, AtBeat
<1>3. ASSUME NEW i \in 0 .. LAST PROVE i \div PERIOD <= WINDOWS
  <2> DEFINE q == i \div PERIOD
  <2>1. q \in Nat /\ PERIOD * q <= WINDOWS * PERIOD
    <3>1. i \in Nat /\ i <= WINDOWS * PERIOD
      BY <1>1, Sizes
    <3>2. /\ i % PERIOD \in 0 .. PERIOD - 1 /\ q \in Nat
          /\ i = PERIOD * q + (i % PERIOD)
      BY <3>1, Division
    <3> HIDE DEF q
    <3> QED
      BY <3>1, <3>2, Sizes
  <2> HIDE DEF q
  <2>2. q <= WINDOWS
    BY <2>1, Sizes
  <2> QED
    BY <2>2 DEF q
<1>4. \A i \in 0 .. LAST : i \div PERIOD \in Nat
  BY Division, Sizes
<1> QED
  BY <1>2, <1>3, <1>4, Sizes

\* Counting modulo CTRMOD keeps the phase, and so does the count of FIN.
LEMMA CounterInPhase ==
    ASSUME NEW c \in 0 .. CTRMOD - 1
    PROVE  /\ (c + 1) % CTRMOD \in 0 .. CTRMOD - 1
           /\ c + 1 < CTRMOD => (c + 1) % CTRMOD = c + 1
           /\ ((c + 1) % CTRMOD) % PERIOD = (c + 1) % PERIOD
           /\ (c % PERIOD) + 1 \in 0 .. CTRMOD - 1
           /\ ((c % PERIOD) + 1) % PERIOD = (c + 1) % PERIOD
<1>1. (c + 1) % CTRMOD = IF c + 1 < CTRMOD THEN c + 1 ELSE 0
  BY Sizes
<1>2. CTRMOD % PERIOD = 0 /\ 0 % PERIOD = 0
  BY TimingAssumption, Sizes
<1>3. c % PERIOD \in 0 .. PERIOD - 1 /\ c \in Nat
  BY Division, Sizes
<1>4. (c % PERIOD) % PERIOD = c % PERIOD
  BY <1>3, Sizes
<1>5. ((c % PERIOD) + 1) % PERIOD = (c + 1) % PERIOD
  BY <1>3, <1>4, InPhase
<1> QED
  BY <1>1, <1>2, <1>3, <1>5, Sizes
-----------------------------------------------------------------------------
(***************************************************************************)
(* The pipelines.  A message is in a stage of a core exactly when the      *)
(* stage is in phase with the counter, and then it is the one the nonce    *)
(* pipe shows for the window; an output that is due shows the message at   *)
(* the end of the core.                                                    *)
(***************************************************************************)
InStage(i, off) ==
    IF (i + 1) % PERIOD = ctr % PERIOD THEN pipe[off + 1 + (i \div PERIOD)] ELSE None

Aligned ==
    /\ \A i \in 0 .. LAST : core0[i] = InStage(i, 0) /\ core1[i] = InStage(i, DEPTH)
    /\ ctr % PERIOD # 1 /\ pipe[DEPTH] # None => result0 = pipe[DEPTH]
    /\ ctr % PERIOD # 1 /\ pipe[TOP] # None => result1 = pipe[TOP]

\* After a reset nothing is under way.
Settled == status = "RDY" => pipe = EmptyPipe

LEMMA Phase ==
    ASSUME TypeOK
    PROVE  ctr \in Nat /\ ctr % PERIOD \in 0 .. PERIOD - 1 /\ (Beat <=> ctr % PERIOD = 0)
<1>1. ctr \in Nat
  BY Sizes DEF TypeOK
<1> QED
  BY <1>1, Division DEF Beat

\* A window never holds two messages.
LEMMA AlignedOneHot ==
    ASSUME TypeOK, Aligned
    PROVE  /\ \A w \in 0 .. WINDOWS - 1 : /\ Cardinality(Occupied(core0, w)) <= 1
                                          /\ Cardinality(Occupied(core1, w)) <= 1
           /\ OneHot(core0) /\ OneHot(core1)
<1>1. ASSUME NEW core, NEW off, \A i \in 0 .. LAST : core[i] = InStage(i, off),
             NEW w \in 0 .. WINDOWS - 1
      PROVE  Cardinality(Occupied(core, w)) <= 1
  <2>1. w * PERIOD \in Nat /\ w * PERIOD + PERIOD - 1 <= LAST
    <3>1. w * PERIOD \in Nat /\ (w + 1) * PERIOD <= WINDOWS * PERIOD
      BY Sizes
    <3>2. (w + 1) * PERIOD = w * PERIOD + PERIOD
      BY Sizes
    <3> QED
      BY <3>1, <3>2, Sizes DEF LAST
  \* The stage of window w that is in phase with the counter.
  <2> DEFINE c == ctr % PERIOD
             s == w * PERIOD + (IF c = 0 THEN PERIOD - 1 ELSE c - 1)
  <2>2. c \in 0 .. PERIOD - 1
    BY Phase
  <2>3. ASSUME NEW i \in (w * PERIOD) .. (w * PERIOD + PERIOD - 1), (i + 1) % PERIOD = c
        PROVE  i = s
    <3> DEFINE r == i - w * PERIOD
    <3>1. r \in 0 .. PERIOD - 1 /\ i = PERIOD * w + r /\ w \in Nat /\ i \in Nat
      BY <2>1, Sizes
    <3>2. i % PERIOD = r
      BY <3>1, DivisionUnique
    <3>3. (i + 1) % PERIOD = IF i % PERIOD = PERIOD - 1 THEN 0 ELSE (i % PERIOD) + 1
      BY <3>1, Successor
    <3> HIDE DEF c, r
    <3>4. r = IF c = 0 THEN PERIOD - 1 ELSE c - 1
      BY <2>2, <2>3, <3>1, <3>2, <3>3, Sizes
    <3>5. i = w * PERIOD + r
      BY <2>1, <3>1, Sizes
    <3> QED
      BY <3>4, <3>5
  <2>4. Occupied(core, w) \subseteq {s}
    <3>1. ASSUME NEW i \in (w * PERIOD) .. (w * PERIOD + PERIOD - 1), core[i] # None
          PROVE  (i + 1) % PERIOD = c
      <4>1. i \in 0 .. LAST
        BY <2>1, Sizes
      <4> QED
        BY <1>1, <3>1, <4>1 DEF InStage
    <3> HIDE DEF c, s
    <3> QED
      BY <2>3, <3>1 DEF Occupied
  <2> HIDE DEF s
  <2>5. IsFiniteSet({s}) /\ Cardinality({s}) = 1
    BY FS_Singleton
  <2>6. Cardinality(Occupied(core, w)) <= Cardinality({s})
    BY <2>4, <2>5, FS_Subset
  <2> QED
    BY <2>5, <2>6
<1>2. \A w \in 0 .. WINDOWS - 1 : /\ Cardinality(Occupied(core0, w)) <= 1
                                  /\ Cardinality(Occupied(core1, w)) <= 1
  BY <1>1 DEF Aligned
<1> QED
  BY <1>2 DEF OneHot

\* So a shift loses nothing.
LEMMA PlainShift ==
    ASSUME TypeOK, Aligned, NEW load
    PROVE  /\ Shift(core0, load) = [i \in 0 .. LAST |-> IF i = 0 THEN load ELSE core0[i - 1]]
           /\ Shift(core1, load) = [i \in 0 .. LAST |-> IF i = 0 THEN load ELSE core1[i - 1]]
<1>1. ASSUME NEW i \in 0 .. LAST, i # 0
      PROVE  (i - 1) \div PERIOD \in 0 .. WINDOWS - 1
  <2> DEFINE n == i - 1
  <2>1. n \in Nat /\ i = n + 1 /\ i \in Nat /\ i <= LAST /\ n \in 0 .. LAST
    BY <1>1, Sizes
  <2>2. /\ n \div PERIOD \in 0 .. WINDOWS /\ i \div PERIOD \in 0 .. WINDOWS
        /\ LAST % PERIOD = 0 /\ LAST \div PERIOD = WINDOWS
    BY <2>1, Stages
  <2>3. /\ (n + 1) \div PERIOD = IF n % PERIOD = PERIOD - 1 THEN (n \div PERIOD) + 1
                                                           ELSE n \div PERIOD
        /\ (n + 1) % PERIOD = IF n % PERIOD = PERIOD - 1 THEN 0 ELSE (n % PERIOD) + 1
    BY <2>1, Successor
  <2>4. n \div PERIOD # WINDOWS
    <3>1. SUFFICES ASSUME n \div PERIOD = WINDOWS PROVE FALSE
      OBVIOUS
    <3>2. /\ n = PERIOD * (n \div PERIOD) + (n % PERIOD)
          /\ n % PERIOD \in 0 .. PERIOD - 1
      BY <2>1, Division
    <3>3. n >= PERIOD * WINDOWS
      BY <3>1, <3>2, Sizes
    <3>4. LAST = PERIOD * WINDOWS
      BY Sizes DEF LAST
    <3> QED
      BY <2>1, <3>3, <3>4
  <2> QED
    BY <2>2, <2>4, Sizes
<1>2. ASSUME NEW core, \A w \in 0 .. WINDOWS - 1 : Cardinality(Occupied(core, w)) <= 1
      PROVE  Shift(core, load) = [i \in 0 .. LAST |-> IF i = 0 THEN load ELSE core[i - 1]]
  <2>1. ASSUME NEW i \in 0 .. LAST, i # 0
        PROVE  ~ (Cardinality(Occupied(core, (i - 1) \div PERIOD)) > 1)
    <3> DEFINE k == Cardinality(Occupied(core, (i - 1) \div PERIOD))
    <3>1. k <= 1
      BY <1>1, <1>2, <2>1
    <3>2. IsFiniteSet(Occupied(core, (i - 1) \div PERIOD))
      <4> DEFINE w == (i - 1) \div PERIOD
      <4>1. w \in Nat
        BY <1>1, <2>1
      <4> HIDE DEF w
      <4>2. w * PERIOD \in Int /\ w * PERIOD + PERIOD - 1 \in Int
        BY <4>1, Sizes
      <4>3. IsFiniteSet((w * PERIOD) .. (w * PERIOD + PERIOD - 1))
        BY <4>2, FS_Interval
      <4>4. Occupied(core, w) \subseteq (w * PERIOD) .. (w * PERIOD + PERIOD - 1)
        BY DEF Occupied
      <4>5. IsFiniteSet(Occupied(core, w))
        BY <4>3, <4>4, FS_Subset
      <4> QED
        BY <4>5 DEF w
    <3>3. k \in Nat
      BY <3>2, FS_CardinalityType
    <3> HIDE DEF k
    <3>4. ~(k > 1)
      BY <3>1, <3>3
    <3> QED
      BY <3>4 DEF k
  <2> QED
    BY <2>1 DEF Shift
<1> QED
  BY <1>2, AlignedOneHot

\* The stages of the nonce pipe the stages of the cores correspond to.
LEMMA Rows ==
    ASSUME NEW i \in 0 .. LAST
    PROVE  /\ i \div PERIOD \in 0 .. WINDOWS
           /\ 0 + 1 + (i \div PERIOD) \in 1 .. DEPTH
           /\ DEPTH + 1 + (i \div PERIOD) \in DEPTH + 1 .. TOP
           /\ DEPTH \in 0 .. TOP /\ TOP \in 0 .. TOP
<1>1. i \div PERIOD \in 0 .. WINDOWS
  BY Stages
<1> QED
  BY <1>1, Sizes

LEMMA EmptyStages ==
    ASSUME pipe = EmptyPipe, NEW i \in 0 .. LAST
    PROVE  InStage(i, 0) = None /\ InStage(i, DEPTH) = None
<1> DEFINE k == i \div PERIOD
<1>1. k \in 0 .. WINDOWS /\ 0 + 1 + k \in 0 .. TOP /\ DEPTH + 1 + k \in 0 .. TOP
  <2>1. /\ k \in 0 .. WINDOWS /\ 0 + 1 + k \in 1 .. DEPTH
        /\ DEPTH + 1 + k \in DEPTH + 1 .. TOP
    BY Rows
  <2> HIDE DEF k
  <2> QED
    BY <2>1, Sizes
<1> HIDE DEF k
<1>2. pipe[0 + 1 + k] = None /\ pipe[DEPTH + 1 + k] = None
  BY <1>1 DEF EmptyPipe
<1> QED
  BY <1>2 DEF InStage, k

LEMMA EmptyAligned ==
    pipe = EmptyPipe /\ core0 = EmptyCore /\ core1 = EmptyCore => Aligned
<1> SUFFICES ASSUME pipe = EmptyPipe, core0 = EmptyCore, core1 = EmptyCore
             PROVE  Aligned
  OBVIOUS
<1>1. \A i \in 0 .. LAST : core0[i] = InStage(i, 0) /\ core1[i] = InStage(i, DEPTH)
  BY EmptyStages DEF EmptyCore
<1>2. pipe[DEPTH] = None /\ pipe[TOP] = None
  BY Sizes DEF EmptyPipe
<1> QED
  BY <1>1, <1>2 DEF Aligned

\* With an empty nonce pipe the cores are empty.
LEMMA AlignedEmpty ==
    ASSUME TypeOK, Aligned, pipe = EmptyPipe
    PROVE  core0 = EmptyCore /\ core1 = EmptyCore
<1>1. \A i \in 0 .. LAST : core0[i] = None /\ core1[i] = None
  BY EmptyStages DEF Aligned
<1> QED
  BY <1>1 DEF TypeOK, EmptyCore

\* Empty pipelines stay empty while nothing is fed.
LEMMA EmptyStep ==
    ASSUME TypeOK, Aligned, pipe = EmptyPipe, status # "BUSY", PipeStep, CoreStep
    PROVE  /\ pipe' = EmptyPipe /\ core0' = EmptyCore /\ core1' = EmptyCore
           /\ Aligned'
<1>1. core0 = EmptyCore /\ core1 = EmptyCore
  BY AlignedEmpty
<1>2. pipe' = EmptyPipe
  <2>1. \A i \in 0 .. TOP : i > 0 => i - 1 \in 0 .. TOP
    BY Sizes
  <2> QED
    BY <2>1 DEF PipeStep, EmptyPipe
<1>3. Load0 = None /\ Load1 = None
  BY Sizes DEF Load0, Load1, EmptyPipe
<1>4. core0' = EmptyCore /\ core1' = EmptyCore
  <2>1. /\ core0' = [i \in 0 .. LAST |-> IF i = 0 THEN None ELSE core0[i - 1]]
        /\ core1' = [i \in 0 .. LAST |-> IF i = 0 THEN None ELSE core1[i - 1]]
    BY <1>3, PlainShift DEF CoreStep
  <2>2. \A i \in 0 .. LAST : i # 0 => i - 1 \in 0 .. LAST
    BY Sizes
  <2> QED
    BY <1>1, <2>1, <2>2 DEF EmptyCore
<1>5. (pipe = EmptyPipe /\ core0 = EmptyCore /\ core1 = EmptyCore => Aligned)'
  BY EmptyAligned, PTL
<1>6. Aligned'
  BY <1>2, <1>4, <1>5 DEF EmptyCore, EmptyPipe
<1> QED
  BY <1>2, <1>4, <1>6

\* What leaves the cores, and what the second core takes from the first.
LEMMA Ends ==
    ASSUME TypeOK, Aligned
    PROVE  /\ core0[LAST] = IF ctr % PERIOD = 1 THEN pipe[DEPTH] ELSE None
           /\ core1[LAST] = IF ctr % PERIOD = 1 THEN pipe[TOP] ELSE None
           /\ Load1 = IF Beat THEN pipe[DEPTH] ELSE None
<1>1. LAST \in 0 .. LAST /\ (LAST + 1) % PERIOD = 1 /\ LAST \div PERIOD = WINDOWS
  BY Stages, Sizes
<1>2. 0 + 1 + WINDOWS = DEPTH /\ DEPTH + 1 + WINDOWS = TOP
  BY Sizes
<1>3. /\ InStage(LAST, 0) = IF ctr % PERIOD = 1 THEN pipe[DEPTH] ELSE None
      /\ InStage(LAST, DEPTH) = IF ctr % PERIOD = 1 THEN pipe[TOP] ELSE None
  BY <1>1, <1>2 DEF InStage
<1>4. core0[LAST] = InStage(LAST, 0) /\ core1[LAST] = InStage(LAST, DEPTH)
  BY <1>1 DEF Aligned
<1>5. Load1 = IF Beat THEN pipe[DEPTH] ELSE None
  BY Phase DEF Load1, Aligned
<1> QED
  BY <1>3, <1>4, <1>5

\* Stage i takes over from stage i - 1 what is in phase with the counter then.
LEMMA StageStep ==
    ASSUME TypeOK, PipeStep, ctr' % PERIOD = (ctr + 1) % PERIOD,
           NEW i \in 0 .. LAST, NEW off \in {0, DEPTH}
    PROVE  InStage(i, off)' = IF i = 0 THEN (IF Beat THEN pipe[off] ELSE None)
                                       ELSE InStage(i - 1, off)
<1> DEFINE r == off + 1 + (i \div PERIOD)
<1>0. r \in off + 1 .. TOP /\ off \in Nat /\ i \div PERIOD \in 0 .. WINDOWS
  <2>1. /\ i \div PERIOD \in 0 .. WINDOWS
        /\ 0 + 1 + (i \div PERIOD) \in 1 .. DEPTH
        /\ DEPTH + 1 + (i \div PERIOD) \in DEPTH + 1 .. TOP
    BY Rows
  <2>2. off = 0 \/ off = DEPTH
    OBVIOUS
  <2> HIDE DEF r
  <2>3. CASE off = 0
    BY <2>1, <2>3, Sizes DEF r
  <2>4. CASE off = DEPTH
    BY <2>1, <2>4, Sizes DEF r
  <2> QED
    BY <2>2, <2>3, <2>4
<1>1. InStage(i, off)' = IF (i + 1) % PERIOD = ctr' % PERIOD THEN pipe'[r] ELSE None
  BY DEF InStage
<1>2. /\ Beat => pipe'[r] = pipe[r - 1]
      /\ ~Beat => pipe' = pipe
  <2> HIDE DEF r
  <2>1. r \in 0 .. TOP /\ r > 0
    BY <1>0, Sizes
  <2> QED
    BY <2>1 DEF PipeStep
<1>3. /\ i \in Nat /\ ctr \in Nat /\ ctr % PERIOD \in 0 .. PERIOD - 1
      /\ Beat <=> ctr % PERIOD = 0
  BY Phase, Sizes
<1>4. i % PERIOD = ctr % PERIOD <=> (i + 1) % PERIOD = ctr' % PERIOD
  BY <1>3, InPhase
<1>5. CASE i = 0
  <2>1. i % PERIOD = 0 /\ i \div PERIOD = 0
    <3>1. 0 = PERIOD * 0 + 0 /\ 0 \in 0 .. PERIOD - 1
      BY Sizes
    <3>2. \A q \in Nat, y \in 0 .. PERIOD - 1 :
            (PERIOD * q + y) % PERIOD = y /\ (PERIOD * q + y) \div PERIOD = q
      BY DivisionUnique
    <3>3. 0 % PERIOD = 0 /\ 0 \div PERIOD = 0
      BY <3>1, <3>2
    <3> QED
      BY <1>5, <3>3
  <2>2. r - 1 = off
    <3>1. i \div PERIOD = 0
      BY <2>1
    <3> QED
      BY <1>0, <3>1
  <2> HIDE DEF r
  <2> QED
    BY <1>1, <1>2, <1>3, <1>4, <1>5, <2>1, <2>2
<1>6. CASE i # 0
  <2> DEFINE n == i - 1
             s == off + 1 + (n \div PERIOD)
  <2>1. n \in Nat /\ i = n + 1
    BY <1>3, <1>6
  <2>2. /\ i % PERIOD = IF n % PERIOD = PERIOD - 1 THEN 0 ELSE (n % PERIOD) + 1
        /\ i \div PERIOD = IF n % PERIOD = PERIOD - 1 THEN (n \div PERIOD) + 1
                                                      ELSE n \div PERIOD
    BY <2>1, Successor
  <2>3. n % PERIOD \in 0 .. PERIOD - 1 /\ n \div PERIOD \in Nat
    BY <2>1, Division
  <2>4. s = IF i % PERIOD = 0 THEN r - 1 ELSE r
    <3> DEFINE a == n \div PERIOD
               b == i \div PERIOD
    <3>1. a \in Nat /\ b \in Nat /\ b = IF i % PERIOD = 0 THEN a + 1 ELSE a
      BY <1>0, <2>2, <2>3, Sizes
    <3>2. s = off + 1 + a /\ r = off + 1 + b
      OBVIOUS
    <3> HIDE DEF a, b, s, r
    <3> QED
      BY <1>0, <3>1, <3>2
  <2>5. InStage(n, off) = IF (n + 1) % PERIOD = ctr % PERIOD THEN pipe[s] ELSE None
    BY DEF InStage
  <2>6. (n + 1) % PERIOD = i % PERIOD
    BY <2>1
  <2> HIDE DEF s, r
  <2>7. InStage(i, off)' = InStage(n, off)
    BY <1>1, <1>2, <1>3, <1>4, <2>4, <2>5, <2>6
  <2> QED
    BY <1>6, <2>7 DEF n
<1> QED
  BY <1>5, <1>6

LEMMA AlignedStep ==
    ASSUME TypeOK, Aligned, PipeStep, CoreStep, ctr' % PERIOD = (ctr + 1) % PERIOD
    PROVE  Aligned'
<1>1. \A i \in 0 .. LAST :
        /\ InStage(i, 0)' = IF i = 0 THEN (IF Beat THEN pipe[0] ELSE None)
                                     ELSE InStage(i - 1, 0)
        /\ InStage(i, DEPTH)' = IF i = 0 THEN (IF Beat THEN pipe[DEPTH] ELSE None)
                                         ELSE InStage(i - 1, DEPTH)
  BY StageStep
<1>2. /\ core0' = [i \in 0 .. LAST |-> IF i = 0 THEN Load0 ELSE core0[i - 1]]
      /\ core1' = [i \in 0 .. LAST |-> IF i = 0 THEN Load1 ELSE core1[i - 1]]
  BY PlainShift DEF CoreStep
<1>3. /\ Load0 = IF Beat THEN pipe[0] ELSE None
      /\ Load1 = IF Beat THEN pipe[DEPTH] ELSE None
  BY Ends DEF Load0
<1>4. ASSUME NEW i \in 0 .. LAST
      PROVE  core0'[i] = InStage(i, 0)' /\ core1'[i] = InStage(i, DEPTH)'
  <2>1. CASE i = 0
    BY <1>1, <1>2, <1>3, <2>1
  <2>2. CASE i # 0
    <3>1. i - 1 \in 0 .. LAST
      BY <2>2, Sizes
    <3>2. core0[i - 1] = InStage(i - 1, 0) /\ core1[i - 1] = InStage(i - 1, DEPTH)
      BY <3>1 DEF Aligned
    <3> QED
      BY <1>1, <1>2, <2>2, <3>2
  <2> QED
    BY <2>1, <2>2
<1>5. /\ ctr \in Nat /\ ctr % PERIOD \in 0 .. PERIOD - 1
      /\ Beat <=> ctr % PERIOD = 0
      /\ ctr' % PERIOD = IF ctr % PERIOD = PERIOD - 1 THEN 0 ELSE (ctr % PERIOD) + 1
  BY Phase, Successor
<1>6. ctr' % PERIOD # 1 => ~Beat
  BY <1>5, Sizes
<1>7. ~Beat => pipe' = pipe
  BY DEF PipeStep
<1>8. /\ result0' = IF core0[LAST] = None THEN result0 ELSE core0[LAST]
      /\ result1' = IF core1[LAST] = None THEN result1 ELSE core1[LAST]
  BY DEF CoreStep
<1>9. /\ ctr' % PERIOD # 1 /\ pipe'[DEPTH] # None => result0' = pipe'[DEPTH]
      /\ ctr' % PERIOD # 1 /\ pipe'[TOP] # None => result1' = pipe'[TOP]
  BY <1>6, <1>7, <1>8, Ends DEF Aligned
<1> QED
  BY <1>4, <1>9 DEF Aligned
-----------------------------------------------------------------------------
(***************************************************************************)
(* The ring of nonces.                                                     *)
(***************************************************************************)
Plus(n, k) == Contract!Plus(n, k)

LEMMA Wrap ==
    \A x \in 0 .. 2 * N - 1 : x % N = IF x < N THEN x ELSE x - N
<1> TAKE x \in 0 .. 2 * N - 1
<1>1. N \in Nat /\ N >= 1
  BY Sizes
<1>2. CASE x < N
  BY <1>1, <1>2
<1>3. CASE x >= N
  <2>1. x = N * 1 + (x - N) /\ x - N \in 0 .. N - 1
    BY <1>1, <1>3
  <2> QED
    BY <1>1, <1>3, <2>1
<1> QED
  BY <1>1, <1>2, <1>3

LEMMA PlusIs ==
    ASSUME NEW n \in Nonces, NEW k \in 0 .. N
    PROVE  /\ Plus(n, k) = IF n + k < N THEN n + k ELSE n + k - N
           /\ Plus(n, k) \in Nonces
<1> DEFINE x == n + k
<1>1. x \in 0 .. 2 * N - 1
  BY Sizes DEF Nonces
<1>2. Plus(n, k) = x % N
  BY DEF Plus, Contract!Plus
<1> HIDE DEF x
<1>3. Plus(n, k) = IF x < N THEN x ELSE x - N
  <2>1. x % N = IF x < N THEN x ELSE x - N
    BY <1>1, Wrap
  <2> QED
    BY <1>2, <2>1
<1> USE DEF x
<1> QED
  BY <1>1, <1>3, Sizes DEF Nonces

LEMMA PlusOne ==
    ASSUME NEW n \in Nonces, NEW k \in 0 .. N - 1
    PROVE  (Plus(n, k) + 1) % N = Plus(n, k + 1)
<1>1. /\ Plus(n, k) = IF n + k < N THEN n + k ELSE n + k - N
      /\ Plus(n, k) \in Nonces
  BY PlusIs, Sizes
<1>2. k + 1 \in 0 .. N
  BY Sizes
<1>3. Plus(n, k + 1) = IF n + (k + 1) < N THEN n + (k + 1) ELSE n + (k + 1) - N
  BY <1>2, PlusIs
<1> DEFINE x == Plus(n, k) + 1
<1>4. x \in 0 .. 2 * N - 1
  BY <1>1, Sizes DEF Nonces
<1> HIDE DEF x
<1>5. x % N = IF x < N THEN x ELSE x - N
  BY <1>4, Wrap
<1> USE DEF x
<1> QED
  BY <1>1, <1>3, <1>5, Sizes DEF Nonces

\* The distance between two nonces, and the number of nonces a search feeds.
LEMMA Distance ==
    ASSUME NEW n \in Nonces, NEW k \in 0 .. N - 1
    PROVE  (Plus(n, k) + N - n) % N = k
<1>1. /\ Plus(n, k) = IF n + k < N THEN n + k ELSE n + k - N
      /\ Plus(n, k) \in Nonces
  BY PlusIs, Sizes
<1> DEFINE x == Plus(n, k) + N - n
<1>2. x \in 0 .. 2 * N - 1
  BY <1>1, Sizes DEF Nonces
<1> HIDE DEF x
<1>3. x % N = IF x < N THEN x ELSE x - N
  BY <1>2, Wrap
<1> USE DEF x
<1> QED
  BY <1>1, <1>3, Sizes DEF Nonces

LEMMA FeedCountIs ==
    ASSUME NEW n \in Nonces, NEW last \in Nonces
    PROVE  /\ Contract!FeedCount(n, last) \in 1 .. N
           /\ n = last => Contract!FeedCount(n, last) = 1
           /\ n # last => /\ Contract!FeedCount(n, last) < N
                          /\ \A k \in 0 .. Contract!FeedCount(n, last) :
                               Plus(n, k) = last <=> k = Contract!FeedCount(n, last)
<1> DEFINE c == Contract!FeedCount(n, last)
<1>1. CASE n = last
  BY <1>1, Sizes DEF Contract!FeedCount
<1>2. CASE n # last
  <2> DEFINE x == last + N - n
  <2>1. c = x % N
    BY <1>2 DEF Contract!FeedCount
  <2>2. x \in 0 .. 2 * N - 1
    BY Sizes DEF Nonces
  <2>3. c = IF last + N - n < N THEN last + N - n ELSE last - n
    <3> HIDE DEF x, c
    <3>1. x % N = IF x < N THEN x ELSE x - N
      BY <2>2, Wrap
    <3> QED
      BY <2>1, <3>1, Sizes DEF Nonces, x
  <2> HIDE DEF c
  <2>4. c \in 1 .. N /\ c < N
    BY <1>2, <2>3, Sizes DEF Nonces
  <2>5. ASSUME NEW k \in 0 .. c PROVE Plus(n, k) = last <=> k = c
    <3>1. k \in 0 .. N
      BY <2>4, Sizes
    <3>2. Plus(n, k) = IF n + k < N THEN n + k ELSE n + k - N
      BY <3>1, PlusIs
    <3> QED
      BY <2>3, <2>4, <2>5, <3>2, Sizes DEF Nonces
  <2> QED
    BY <1>2, <2>4, <2>5 DEF c
<1> QED
  BY <1>1, <1>2
-----------------------------------------------------------------------------
(***************************************************************************)
(* A search.  f nonces have been fed; h is the number, counted from the    *)
(* start, of the nonce that stage 0 shows or would show.                   *)
(***************************************************************************)
Count == Contract!FeedCount(start, job.last)

\* The nonces are in the pipe in the order they were fed.
Window(h, f) ==
    \A i \in 0 .. TOP :
      pipe[i] = IF h - i \in 0 .. f - 1 THEN Plus(start, h - i) ELSE None

\* Those that have left it were no hits.
Passed(h, f) == \A k \in 0 .. f - 1 : k < h - TOP => Plus(start, k) \notin job.hits

\* In the first cycle of a beat the output shows the nonce before.
Stale(h, f) ==
    ctr % PERIOD = 1 /\ h - TOP \in 1 .. f - 1 => result1 = Plus(start, h - TOP - 1)

Progress(h, f) == Window(h, f) /\ Passed(h, f) /\ Stale(h, f)

Feeding ==
    status = "BUSY" =>
      \E f \in 0 .. Count :
        /\ nonce = Plus(start, f)
        /\ Progress(f - 1, f)
        /\ f = 0 => ctr = 0
        /\ f > 0 => start # job.last
        /\ f = Count => ctr % PERIOD = 1

Draining ==
    status = "FIN" =>
      \E b \in 0 .. TOP - 1 :
        /\ ctr \in b * PERIOD + 1 .. b * PERIOD + PERIOD
        /\ Progress(Count - 1 + b, Count)

LEMMA CountIs ==
    ASSUME TypeOK
    PROVE  /\ start \in Nonces /\ job.last \in Nonces /\ job.first \in Nonces
           /\ job.hits \subseteq Nonces
           /\ Count \in 1 .. N /\ (start = job.last => Count = 1)
           /\ start # job.last => /\ Count < N
                                  /\ \A k \in 0 .. Count : Plus(start, k) = job.last <=> k = Count
<1>1. /\ start \in Nonces /\ job.last \in Nonces /\ job.first \in Nonces
      /\ job.hits \subseteq Nonces
  BY JobsAssumption DEF TypeOK
<1> QED
  BY <1>1, FeedCountIs DEF Count

\* What a comparison sees when it is not the first of its beat.
LEMMA Compared ==
    ASSUME TypeOK, Aligned, status \in {"BUSY", "FIN"}, ctr % PERIOD # 1,
           pipe[TOP] # None
    PROVE  result1 = pipe[TOP] /\ (Compare <=> pipe[TOP] \in job.hits)
<1>1. TOP \in 0 .. TOP
  BY Sizes
<1>2. result1 = pipe[TOP] /\ pipe[TOP] \in Nonces
  BY <1>1 DEF Aligned, TypeOK
<1> QED
  BY <1>2, MessageAssumption DEF Compare, IsCandidate

(***************************************************************************)
(* A cycle without a hit: at a beat the pipe moves on by one nonce, and    *)
(* the nonce that leaves it was compared with its own digest.              *)
(***************************************************************************)
LEMMA Advance ==
    ASSUME TypeOK, Aligned, status \in {"BUSY", "FIN"},
           NEW f \in 0 .. N, NEW h \in Int, Progress(h, f),
           \/ status = "BUSY" /\ h = f - 1 /\ nonce = Plus(start, f)
           \/ status = "FIN" /\ h >= f - 1,
           ~Compare, PipeStep, CoreStep, start' = start, job' = job,
           ctr' % PERIOD = (ctr + 1) % PERIOD,
           NEW g, g = IF status = "BUSY" THEN f + 1 ELSE f
    PROVE  /\ Beat => Progress(h + 1, g)'
           /\ ~Beat => Progress(h, f)'
<1>1. /\ ctr \in Nat /\ ctr % PERIOD \in 0 .. PERIOD - 1
      /\ Beat <=> ctr % PERIOD = 0
      /\ ctr' % PERIOD = IF ctr % PERIOD = PERIOD - 1 THEN 0 ELSE (ctr % PERIOD) + 1
  BY Phase, Successor
<1>2. ctr' % PERIOD = 1 <=> Beat
  BY <1>1, Sizes
<1>3. CASE ~Beat
  <2>1. pipe' = pipe
    BY <1>3 DEF PipeStep
  <2>2. Window(h, f)' /\ Passed(h, f)'
    BY <2>1 DEF Progress, Window, Passed
  <2>3. Stale(h, f)'
    BY <1>2, <1>3 DEF Stale
  <2> QED
    BY <1>3, <2>2, <2>3 DEF Progress
<1>4. CASE Beat
  <2>1. ctr % PERIOD # 1 /\ core1[LAST] = None /\ TOP \in 0 .. TOP
    BY <1>1, <1>4, Ends, Sizes
  <2>2. result1' = result1
    BY <2>1 DEF CoreStep
  <2>3. pipe' = [ i \in 0 .. TOP |-> IF i > 0 THEN pipe[i - 1]
                                     ELSE IF status = "BUSY" THEN nonce ELSE None ]
    BY <1>4 DEF PipeStep
  \* The nonce that leaves the pipe.
  <2>4. pipe[TOP] = IF h - TOP \in 0 .. f - 1 THEN Plus(start, h - TOP) ELSE None
    BY <2>1 DEF Progress, Window
  <2>5. h - TOP \in 0 .. f - 1 => /\ result1 = Plus(start, h - TOP)
                                  /\ Plus(start, h - TOP) \notin job.hits
    <3>1. SUFFICES ASSUME h - TOP \in 0 .. f - 1
                   PROVE  /\ result1 = Plus(start, h - TOP)
                          /\ Plus(start, h - TOP) \notin job.hits
      OBVIOUS
    <3>2. pipe[TOP] = Plus(start, h - TOP)
      BY <2>4, <3>1
    <3>3. Plus(start, h - TOP) \in Nonces
      <4>1. h - TOP \in 0 .. N
        BY <3>1, Sizes
      <4> QED
        BY <4>1, PlusIs, CountIs
    <3>4. pipe[TOP] # None
      BY <3>2, <3>3, MessageAssumption
    <3> QED
      BY <2>1, <3>2, <3>4, Compared
  <2>6. Window(h + 1, g)'
    <3>1. SUFFICES ASSUME NEW i \in 0 .. TOP
                   PROVE  pipe'[i] = IF (h + 1) - i \in 0 .. g - 1
                                     THEN Plus(start, (h + 1) - i) ELSE None
      BY DEF Window, Plus, Contract!Plus
    <3>2. CASE i = 0
      <4>1. CASE status = "BUSY"
        <5>1. (h + 1) - i = f /\ f \in 0 .. g - 1
          BY <3>2, <4>1
        <5>2. pipe'[i] = nonce /\ nonce = Plus(start, f)
          BY <2>3, <3>2, <4>1, Sizes
        <5> QED
          BY <5>1, <5>2
      <4>2. CASE status = "FIN"
        <5>1. (h + 1) - i \notin 0 .. g - 1
          BY <3>2, <4>2
        <5>2. pipe'[i] = None
          BY <2>3, <3>2, <4>2, Sizes
        <5> QED
          BY <5>1, <5>2
      <4> QED
        BY <4>1, <4>2
    <3>3. CASE i > 0
      <4>1. i - 1 \in 0 .. TOP /\ h - (i - 1) = (h + 1) - i
        BY <3>3, Sizes
      <4>2. pipe'[i] = pipe[i - 1]
        BY <2>3, <3>3
      <4>3. pipe[i - 1] = IF h - (i - 1) \in 0 .. f - 1 THEN Plus(start, h - (i - 1)) ELSE None
        BY <4>1 DEF Progress, Window
      <4>4. (h + 1) - i \in 0 .. f - 1 <=> (h + 1) - i \in 0 .. g - 1
        BY <3>3, Sizes
      <4> QED
        BY <4>1, <4>2, <4>3, <4>4
    <3> QED
      BY <3>2, <3>3, Sizes
  <2>7. Passed(h + 1, g)'
    <3>1. SUFFICES ASSUME NEW k \in 0 .. g - 1, k < (h + 1) - TOP
                   PROVE  Plus(start, k) \notin job.hits
      BY DEF Passed, Plus, Contract!Plus
    <3>2. k \in 0 .. f - 1 /\ (k < h - TOP \/ k = h - TOP)
      BY <3>1, Sizes
    <3>3. CASE k < h - TOP
      BY <3>2, <3>3 DEF Progress, Passed
    <3>4. CASE k = h - TOP
      BY <2>5, <3>2, <3>4
    <3> QED
      BY <3>2, <3>3, <3>4
  <2>8. Stale(h + 1, g)'
    <3>1. SUFFICES ASSUME (h + 1) - TOP \in 1 .. g - 1
                   PROVE  result1' = Plus(start, (h + 1) - TOP - 1)
      BY DEF Stale, Plus, Contract!Plus
    <3>2. h - TOP \in 0 .. f - 1 /\ (h + 1) - TOP - 1 = h - TOP
      BY <3>1, Sizes
    <3> QED
      BY <2>2, <2>5, <3>2
  <2> QED
    BY <1>4, <2>6, <2>7, <2>8 DEF Progress
<1> QED
  BY <1>3, <1>4

\* A hit is one the search may report.
LEMMA HitIsCandidate ==
    ASSUME TypeOK, Aligned, NEW h \in Int,
           NEW f \in 0 .. Count, Progress(h, f), h - TOP <= Count - 2, Compare
    PROVE  /\ pipe[TOP] \in Contract!Candidates
           /\ pipe[TOP] \in job.hits \cup {start}
           /\ Contract!Before(start, pipe[TOP]) \cap job.hits = {}
<1> DEFINE k == h - TOP
<1>1. /\ start \in Nonces /\ Count \in 1 .. N /\ TOP \in 0 .. TOP
      /\ status \in {"BUSY", "FIN"} /\ pipe[TOP] # None
  BY CountIs, Sizes DEF Compare
<1>2. /\ k \in 0 .. f - 1 /\ pipe[TOP] = Plus(start, k)
  BY <1>1 DEF Progress, Window
<1>3. k \in Nat /\ k \in 0 .. Count - 2 /\ k \in 0 .. N - 1
  BY <1>1, <1>2, Sizes
<1>4. pipe[TOP] \in Contract!Tested(start, job.last)
  <2> HIDE DEF k
  <2> QED
    BY <1>2, <1>3 DEF Contract!Tested, Count, Plus
<1>5. Contract!Before(start, pipe[TOP]) \cap job.hits = {}
  <2>1. (pipe[TOP] + N - start) % N = k
    <3> HIDE DEF k
    <3> QED
      BY <1>1, <1>2, <1>3, Distance
  <2>2. Contract!Before(start, pipe[TOP]) = {Plus(start, j) : j \in 0 .. k - 1}
    <3> HIDE DEF k
    <3> QED
      BY <2>1 DEF Contract!Before, Plus
  <2>3. \A j \in 0 .. k - 1 : Plus(start, j) \notin job.hits
    <3>1. SUFFICES ASSUME NEW j \in 0 .. k - 1 PROVE Plus(start, j) \notin job.hits
      OBVIOUS
    <3>2. j \in 0 .. f - 1 /\ j < h - TOP
      BY <1>2, <1>3, Sizes
    <3> QED
      BY <3>2 DEF Progress, Passed
  <2> HIDE DEF k
  <2> QED
    BY <2>2, <2>3
<1>6. pipe[TOP] \in job.hits \/ pipe[TOP] = start
  <2>1. CASE ctr % PERIOD # 1
    BY <1>1, <2>1, Compared
  <2>2. CASE ctr % PERIOD = 1 /\ k = 0
    <3>1. Plus(start, 0) = start
      <4>1. 0 \in 0 .. N /\ start + 0 = start /\ start < N
        BY <1>1, Sizes DEF Nonces
      <4> QED
        BY <1>1, <4>1, PlusIs
    <3> QED
      BY <1>2, <2>2, <3>1
  <2>3. CASE ctr % PERIOD = 1 /\ k # 0
    <3>1. h - TOP \in 1 .. f - 1 /\ k - 1 \in 0 .. f - 1 /\ k - 1 < h - TOP /\ k - 1 \in 0 .. N
      BY <1>2, <1>3, <2>3, Sizes
    <3>2. result1 = Plus(start, k - 1)
      BY <2>3, <3>1 DEF Progress, Stale
    <3>3. Plus(start, k - 1) \notin job.hits
      BY <3>1 DEF Progress, Passed
    <3>4. Plus(start, k - 1) \in Nonces
      BY <1>1, <3>1, PlusIs
    <3>5. ~IsCandidate
      BY <3>2, <3>3, <3>4, MessageAssumption DEF IsCandidate
    <3> QED
      BY <3>5 DEF Compare
  <2> QED
    BY <2>1, <2>2, <2>3
<1> QED
  BY <1>4, <1>5, <1>6 DEF Contract!Candidates

\* When FIN ends every tested nonce has been compared.
LEMMA AllCompared ==
    ASSUME TypeOK, Aligned, status = "FIN", ctr % PERIOD # 1, ~Compare,
           NEW h \in Int, h = Count - 2 + TOP, Progress(h, Count)
    PROVE  Contract!Tested(start, job.last) \cap job.hits = {}
<1>1. Count \in 1 .. N /\ start \in Nonces /\ TOP \in 0 .. TOP /\ TOP \in Nat
  BY CountIs, Sizes
<1>2. ASSUME NEW j \in 0 .. Count - 2
      PROVE  Plus(start, j) \notin job.hits
  <2>1. /\ j \in 0 .. Count - 1 /\ (j < h - TOP \/ j = h - TOP)
        /\ j \in 0 .. N
    BY <1>1, Sizes
  <2>2. CASE j < h - TOP
    BY <2>1, <2>2 DEF Progress, Passed
  <2>3. CASE j = h - TOP
    <3>1. pipe[TOP] = Plus(start, j)
      BY <1>1, <2>1, <2>3 DEF Progress, Window
    <3>2. Plus(start, j) \in Nonces
      BY <1>1, <2>1, PlusIs
    <3>3. pipe[TOP] # None
      BY <3>1, <3>2, MessageAssumption
    <3> QED
      BY <3>1, <3>3, Compared
  <2> QED
    BY <2>1, <2>2, <2>3
<1> QED
  BY <1>2 DEF Contract!Tested, Count, Plus

-----------------------------------------------------------------------------
(***************************************************************************)
(* The inductive invariant.                                                *)
(***************************************************************************)
IInv ==
    /\ TypeOK
    /\ Aligned
    /\ Settled
    /\ Feeding
    /\ Draining
    /\ FoundIsHit
    /\ NoHitSkipped

Working == status \in {"BUSY", "FIN"}

\* The registers of a search that goes on.
LEMMA ContinueTypes ==
    ASSUME TypeOK, NEW ctrl, Continue(ctrl)
    PROVE  /\ status' \in {"RDY", "BUSY", "FIN", "IDLE", "FOUND"}
           /\ ctr' \in 0 .. CTRMOD - 1 /\ ctr' % PERIOD = (ctr + 1) % PERIOD
           /\ nonce' \in Nonces /\ nonce_candidate' \in Nonces
           /\ irq' \in BOOLEAN
<1>1. /\ (ctr + 1) % CTRMOD \in 0 .. CTRMOD - 1
      /\ ((ctr + 1) % CTRMOD) % PERIOD = (ctr + 1) % PERIOD
      /\ (ctr % PERIOD) + 1 \in 0 .. CTRMOD - 1
      /\ ((ctr % PERIOD) + 1) % PERIOD = (ctr + 1) % PERIOD
  BY CounterInPhase DEF TypeOK
<1>2. ctr' \in 0 .. CTRMOD - 1 /\ ctr' % PERIOD = (ctr + 1) % PERIOD
  BY <1>1 DEF Continue, NextCtr
<1>3. nonce' \in Nonces
  <2>1. (nonce + 1) % N \in Nonces
    <3>1. nonce + 1 \in Nat
      BY Sizes DEF TypeOK, Nonces
    <3> DEFINE x == nonce + 1
    <3>2. x \in Nat
      BY <3>1
    <3> HIDE DEF x
    <3>3. x % N \in 0 .. N - 1
      BY <3>2, Sizes
    <3> QED
      BY <3>3 DEF x, Nonces
  <2> QED
    BY <2>1 DEF Continue, NextNonce, TypeOK
<1>4. CASE Hit
  <2>1. pipe[TOP] \in Nonces
    BY <1>4, Sizes DEF Hit, Compare, TypeOK
  <2> QED
    BY <1>2, <1>3, <1>4, <2>1 DEF Hit
<1>5. CASE Miss
  BY <1>2, <1>3, <1>5 DEF Miss, TypeOK
<1> QED
  BY <1>4, <1>5 DEF Continue

LEMMA PipelineTypes ==
    ASSUME TypeOK, PipeStep, CoreStep
    PROVE  /\ pipe' \in [0 .. TOP -> Nonces \cup {None}]
           /\ core0' \in [0 .. LAST -> Tokens] /\ core1' \in [0 .. LAST -> Tokens]
           /\ result0' \in Nonces \cup {Junk} /\ result1' \in Nonces \cup {Junk}
           /\ junkMatch' \in BOOLEAN
<1>1. pipe' \in [0 .. TOP -> Nonces \cup {None}]
  <2>1. \A i \in 0 .. TOP : i > 0 => i - 1 \in 0 .. TOP
    BY Sizes
  <2> QED
    BY <2>1 DEF PipeStep, TypeOK
<1>2. ASSUME NEW core \in [0 .. LAST -> Tokens], NEW load \in Tokens
      PROVE  Shift(core, load) \in [0 .. LAST -> Tokens]
  <2>1. \A i \in 0 .. LAST : i # 0 => i - 1 \in 0 .. LAST
    BY Sizes
  <2>2. \A i \in 0 .. LAST : i # 0 => core[i - 1] \in Tokens
    BY <2>1
  <2>3. Junk \in Tokens
    BY DEF Tokens
  <2> QED
    BY <2>2, <2>3 DEF Shift
<1>3. Load0 \in Tokens /\ Load1 \in Tokens
  BY Sizes DEF Load0, Load1, TypeOK, Tokens
<1>4. core0[LAST] \in Tokens /\ core1[LAST] \in Tokens
  BY Sizes DEF TypeOK
<1>5. core0' \in [0 .. LAST -> Tokens] /\ core1' \in [0 .. LAST -> Tokens]
  BY <1>2, <1>3 DEF CoreStep, TypeOK
<1>6. /\ result0' \in Nonces \cup {Junk} /\ result1' \in Nonces \cup {Junk}
      /\ junkMatch' \in BOOLEAN
  BY <1>4 DEF CoreStep, TypeOK, Tokens
<1> QED
  BY <1>1, <1>5, <1>6

\* The counter in FIN, b beats after the last nonce was fed.
LEMMA FinCounter ==
    ASSUME NEW b \in 0 .. TOP - 1, NEW c \in b * PERIOD + 1 .. b * PERIOD + PERIOD
    PROVE  /\ c \in Nat /\ c <= TOP * PERIOD
           /\ c = TOP * PERIOD => b = TOP - 1 /\ c % PERIOD = 0
           /\ c % PERIOD = 0 => c + 1 \in (b + 1) * PERIOD + 1 .. (b + 1) * PERIOD + PERIOD
           /\ c % PERIOD = 0 /\ c # TOP * PERIOD => b + 1 \in 0 .. TOP - 1
           /\ c % PERIOD # 0 => c + 1 \in b * PERIOD + 1 .. b * PERIOD + PERIOD
<1>1. /\ b \in Nat /\ b * PERIOD \in Nat /\ TOP \in Nat /\ PERIOD \in Nat /\ PERIOD >= 2
      /\ (b + 1) * PERIOD = b * PERIOD + PERIOD /\ b * PERIOD = PERIOD * b
      /\ TOP * PERIOD \in Nat
  BY Sizes
<1>2. (b + 1) * PERIOD <= TOP * PERIOD
  BY <1>1, Sizes
<1>3. c \in Nat /\ c <= TOP * PERIOD
  BY <1>1, <1>2
<1>4. c = TOP * PERIOD => b = TOP - 1 /\ c % PERIOD = 0
  <2>1. SUFFICES ASSUME c = TOP * PERIOD PROVE b = TOP - 1 /\ c % PERIOD = 0
    OBVIOUS
  <2>2. TOP * PERIOD <= (b + 1) * PERIOD
    BY <1>1, <2>1
  <2>3. TOP <= b + 1
    BY <1>1, <2>2
  <2>4. c % PERIOD = 0
    BY <1>1, <2>1, AtBeat
  <2> QED
    BY <1>1, <2>3, <2>4
<1>5. c % PERIOD = 0 <=> c = b * PERIOD + PERIOD
  <2> DEFINE r == c - b * PERIOD
  <2>1. r \in 1 .. PERIOD /\ c = PERIOD * b + r
    BY <1>1
  <2>2. r \in 0 .. PERIOD - 1 => c % PERIOD = r
    BY <1>1, <2>1, DivisionUnique
  <2>3. c = b * PERIOD + PERIOD => c % PERIOD = 0
    <3>1. ((b + 1) * PERIOD) % PERIOD = 0
      <4> DEFINE q == b + 1
      <4>1. q \in Nat
        BY <1>1
      <4> HIDE DEF q
      <4>2. (q * PERIOD) % PERIOD = 0
        BY <4>1, AtBeat
      <4> QED
        BY <4>2 DEF q
    <3> QED
      BY <1>1, <3>1
  <2>4. r = PERIOD <=> c = b * PERIOD + PERIOD
    BY <1>1
  <2> HIDE DEF r
  <2> QED
    BY <1>1, <2>1, <2>2, <2>3, <2>4
<1>6. c % PERIOD = 0 /\ c # TOP * PERIOD => b + 1 \in 0 .. TOP - 1
  <2>1. SUFFICES ASSUME c % PERIOD = 0, c # TOP * PERIOD PROVE b + 1 \in 0 .. TOP - 1
    OBVIOUS
  <2>2. b + 1 # TOP
    BY <1>1, <1>5, <2>1
  <2> QED
    BY <1>1, <2>2
<1>7. c % PERIOD # 0 => c + 1 \in b * PERIOD + 1 .. b * PERIOD + PERIOD
  BY <1>1, <1>5
<1>8. c % PERIOD = 0 => c + 1 \in (b + 1) * PERIOD + 1 .. (b + 1) * PERIOD + PERIOD
  BY <1>1, <1>5
<1> QED
  BY <1>3, <1>4, <1>6, <1>7, <1>8

\* What Accel allows of a cycle in which no search begins.
Allowed ==
    Contract!Stay \/ Contract!Drain \/ Contract!Exhaust
      \/ \E c \in Nonces : Contract!Report(c)

Kept == Feeding' /\ Draining' /\ FoundIsHit' /\ NoHitSkipped' /\ Allowed

\* A cycle of a search that finds a hit.
LEMMA HitStep ==
    ASSUME IInv, Working, Hit, start' = start, job' = job
    PROVE  Kept
<1>1. TypeOK /\ Aligned /\ Compare /\ Count \in 1 .. N /\ TOP \in Nat /\ TOP >= 2
  BY CountIs, Sizes DEF IInv, Hit
<1>2. PICK h \in Int, f \in 0 .. Count : Progress(h, f) /\ h - TOP <= Count - 2
  <2>1. CASE status = "BUSY"
    <3>1. PICK f \in 0 .. Count : Progress(f - 1, f)
      BY <2>1 DEF IInv, Feeding
    <3>2. f - 1 \in Int /\ (f - 1) - TOP <= Count - 2
      BY <1>1
    <3> QED
      BY <3>1, <3>2
  <2>2. CASE status = "FIN"
    <3>1. PICK b \in 0 .. TOP - 1 : Progress(Count - 1 + b, Count)
      BY <2>2 DEF IInv, Draining
    <3>2. /\ Count - 1 + b \in Int /\ (Count - 1 + b) - TOP <= Count - 2
          /\ Count \in 0 .. Count
      BY <1>1
    <3> QED
      BY <3>1, <3>2
  <2> QED
    BY <2>1, <2>2 DEF Working
<1>3. /\ pipe[TOP] \in Contract!Candidates
      /\ pipe[TOP] \in job.hits \cup {start}
      /\ Contract!Before(start, pipe[TOP]) \cap job.hits = {}
  BY <1>1, <1>2, HitIsCandidate
<1>4. status' = "FOUND" /\ nonce_candidate' = pipe[TOP] /\ irq' = TRUE
  BY DEF Hit
<1>5. pipe[TOP] \in Nonces
  BY <1>1, Sizes DEF Compare, TypeOK
<1>6. Feeding' /\ Draining'
  BY <1>4 DEF Feeding, Draining
<1>7. FoundIsHit' /\ NoHitSkipped'
  BY <1>3, <1>4 DEF FoundIsHit, NoHitSkipped, Contract!Before, Contract!Plus
<1>8. Contract!Report(pipe[TOP])
  BY <1>3, <1>4 DEF Working, Contract!Report
<1> QED
  BY <1>5, <1>6, <1>7, <1>8 DEF Kept, Allowed

\* A cycle of the feeding without a hit.
LEMMA FeedStep ==
    ASSUME IInv, status = "BUSY", Miss, NEW ctrl, Continue(ctrl), PipeStep, CoreStep,
           job' = job
    PROVE  Kept
<1>1. /\ TypeOK /\ Aligned /\ ~Compare /\ start' = start /\ start \in Nonces
      /\ nonce_candidate' = nonce_candidate
  BY CountIs DEF IInv, Miss, Continue
<1>2. PICK f \in 0 .. Count : /\ nonce = Plus(start, f)
                              /\ Progress(f - 1, f)
                              /\ f = 0 => ctr = 0
                              /\ f > 0 => start # job.last
                              /\ f = Count => ctr % PERIOD = 1
  BY DEF IInv, Feeding
<1>3. /\ Count \in 1 .. N /\ (start = job.last => Count = 1)
      /\ start # job.last => /\ Count < N
                             /\ \A k \in 0 .. Count : Plus(start, k) = job.last <=> k = Count
  BY <1>1, CountIs
<1>4. /\ ctr \in Nat /\ ctr % PERIOD \in 0 .. PERIOD - 1
      /\ Beat <=> ctr % PERIOD = 0
      /\ ctr' % PERIOD = (ctr + 1) % PERIOD
      /\ ctr' % PERIOD = IF ctr % PERIOD = PERIOD - 1 THEN 0 ELSE (ctr % PERIOD) + 1
      /\ 0 % PERIOD = 0
  BY <1>1, Phase, Successor, ContinueTypes, Sizes
<1>5. f = 0 => Beat
  BY <1>2, <1>4
<1>6. f \in 0 .. N /\ f - 1 \in Int /\ f \in Nat /\ f <= Count /\ Count \in Nat
  BY <1>3, Sizes
<1>7. /\ Beat => Progress((f - 1) + 1, f + 1)'
      /\ ~Beat => Progress(f - 1, f)'
  <2> DEFINE h == f - 1
             g == f + 1
  <2>1. /\ h \in Int /\ h = f - 1 /\ g = IF status = "BUSY" THEN f + 1 ELSE f
        /\ Progress(h, f)
    BY <1>2, <1>6
  <2> HIDE DEF h, g
  <2>2. /\ Beat => Progress(h + 1, g)'
        /\ ~Beat => Progress(h, f)'
    BY <1>1, <1>2, <1>4, <1>6, <2>1, Advance
  <2> QED
    BY <2>2 DEF h, g
<1>8. (f - 1) + 1 = f /\ (f + 1) - 1 = f
  BY <1>6
<1>9. Count' = Count
  BY <1>1 DEF Count, Contract!FeedCount
<1>10. /\ irq' = FALSE
       /\ status' = IF nonce = job.last THEN "FIN" ELSE "BUSY"
  BY DEF Miss
<1>11. CASE nonce = job.last
  <2>1. \/ f = 0 /\ Count = 1 /\ Beat /\ ctr = 0
        \/ f = Count /\ ctr % PERIOD = 1 /\ ~Beat
    <3>1. CASE f = 0
      <4>1. Plus(start, 0) = start
        <5>1. 0 \in 0 .. N /\ start + 0 = start /\ start < N
          BY <1>1, Sizes DEF Nonces
        <5> QED
          BY <1>1, <5>1, PlusIs
      <4> QED
        BY <1>2, <1>3, <1>5, <1>11, <3>1, <4>1
    <3>2. CASE f # 0
      <4>1. f = Count
        <5>1. start # job.last
          BY <1>2, <1>6, <3>2
        <5>2. f \in 0 .. Count /\ Plus(start, f) = job.last
          BY <1>2, <1>11
        <5> QED
          BY <1>3, <5>1, <5>2
      <4> QED
        BY <1>2, <1>4, <4>1
    <3> QED
      BY <3>1, <3>2
  <2>2. Progress(Count - 1, Count)'
    <3>1. CASE f = 0 /\ Count = 1 /\ Beat
      <4>1. Count - 1 = f /\ Count = f + 1
        BY <3>1
      <4> HIDE DEF Count
      <4>2. Progress(f, f + 1)'
        BY <1>7, <1>8, <3>1
      <4>3. \A x, y : x = f /\ y = f + 1 => Progress(x, y)'
        BY <4>2
      <4> QED
        BY <4>1, <1>9, <4>2 DEF Progress, Window, Passed, Stale
    <3>2. CASE f = Count /\ ~Beat
      BY <1>7, <1>9, <3>2 DEF Progress, Window, Passed, Stale
    <3> QED
      BY <2>1, <3>1, <3>2
  <2>3. ctr' \in 1 .. PERIOD
    <3>1. ctr' = (ctr % PERIOD) + 1
      BY <1>11 DEF Continue
    <3> QED
      BY <1>4, <3>1, Sizes
  <2>4. 0 \in 0 .. TOP - 1 /\ ctr' \in 0 * PERIOD + 1 .. 0 * PERIOD + PERIOD
    BY <2>3, Sizes
  <2>5. Count' - 1 + 0 = Count - 1
    BY <1>3, <1>9
  <2>6. Draining'
    <3>1. Progress(Count - 1 + 0, Count)'
      BY <2>2, <2>5, <1>9 DEF Progress, Window, Passed, Stale
    <3> QED
      BY <2>4, <3>1 DEF Draining
  <2>7. Feeding' /\ FoundIsHit' /\ NoHitSkipped'
    BY <1>10, <1>11 DEF Feeding, FoundIsHit, NoHitSkipped
  <2>8. Contract!Drain
    BY <1>1, <1>10, <1>11 DEF Contract!Drain
  <2> QED
    BY <2>6, <2>7, <2>8 DEF Kept, Allowed
<1>12. CASE nonce # job.last
  <2>1. f < Count
    <3>1. CASE f = 0
      BY <1>3, <3>1
    <3>2. CASE f # 0
      <4>1. start # job.last /\ f # Count
        BY <1>2, <1>3, <1>6, <1>12, <3>2
      <4> QED
        BY <1>3, <4>1
    <3> QED
      BY <3>1, <3>2
  <2>2. start # job.last
    <3>1. CASE f = 0
      <4>1. Plus(start, 0) = start
        <5>1. 0 \in 0 .. N /\ start + 0 = start /\ start < N
          BY <1>1, Sizes DEF Nonces
        <5> QED
          BY <1>1, <5>1, PlusIs
      <4> QED
        BY <1>2, <1>12, <3>1, <4>1
    <3>2. CASE f # 0
      BY <1>2, <1>6, <3>2
    <3> QED
      BY <3>1, <3>2
  <2>3. CASE Beat
    <3>1. nonce' = Plus(start, f + 1)
      <4>1. nonce' = (nonce + 1) % N
        BY <2>3 DEF Continue, NextNonce
      <4>2. f \in 0 .. N - 1
        BY <1>3, <1>6, <2>1, Sizes
      <4>3. (Plus(start, f) + 1) % N = Plus(start, f + 1)
        BY <1>1, <4>2, PlusOne
      <4> QED
        BY <1>2, <4>1, <4>3
    <3>2. /\ f + 1 \in 0 .. Count /\ f + 1 # 0 /\ f + 1 > 0
          /\ ctr' % PERIOD = 1
      BY <1>3, <1>4, <1>6, <2>1, <2>3, Sizes
    <3>3. Progress((f + 1) - 1, f + 1)'
      BY <1>7, <1>8, <2>3
    <3>4. nonce' = Plus(start, f + 1)'
      BY <1>1, <3>1 DEF Plus, Contract!Plus
    <3>5. Feeding'
      <4>1. start' # job'.last
        BY <1>1, <2>2
      <4> DEFINE g == f + 1
      <4>2. /\ g \in 0 .. Count' /\ nonce' = Plus(start, g)'
            /\ Progress(g - 1, g)' /\ g # 0 /\ ctr' % PERIOD = 1
        BY <1>9, <3>2, <3>3, <3>4
      <4> HIDE DEF g
      <4> QED
        BY <4>1, <4>2 DEF Feeding
    <3>6. Draining' /\ FoundIsHit' /\ NoHitSkipped'
      BY <1>10, <1>12 DEF Draining, FoundIsHit, NoHitSkipped
    <3>7. Contract!Stay
      BY <1>1, <1>10, <1>12 DEF Contract!Stay
    <3> QED
      BY <3>5, <3>6, <3>7 DEF Kept, Allowed
  <2>4. CASE ~Beat
    <3>1. nonce' = nonce /\ nonce' = Plus(start, f)'
      BY <1>1, <1>2, <2>4 DEF Continue, NextNonce, Plus, Contract!Plus
    <3>2. f # 0 /\ f # Count
      BY <1>5, <1>6, <2>1, <2>4, <1>3
    <3>3. Progress(f - 1, f)'
      BY <1>7, <2>4
    <3>4. Feeding'
      <4>1. start' # job'.last
        BY <1>1, <2>2
      <4> QED
        BY <1>9, <3>1, <3>2, <3>3, <4>1 DEF Feeding
    <3>5. Draining' /\ FoundIsHit' /\ NoHitSkipped'
      BY <1>10, <1>12 DEF Draining, FoundIsHit, NoHitSkipped
    <3>6. Contract!Stay
      BY <1>1, <1>10, <1>12 DEF Contract!Stay
    <3> QED
      BY <3>4, <3>5, <3>6 DEF Kept, Allowed
  <2> QED
    BY <2>3, <2>4
<1> QED
  BY <1>11, <1>12

\* A cycle of the draining without a hit.
LEMMA DrainStep ==
    ASSUME IInv, status = "FIN", Miss, NEW ctrl, Continue(ctrl), PipeStep, CoreStep,
           job' = job
    PROVE  Kept
<1>1. /\ TypeOK /\ Aligned /\ ~Compare /\ start' = start /\ start \in Nonces
      /\ nonce_candidate' = nonce_candidate
  BY CountIs DEF IInv, Miss, Continue
<1>2. PICK b \in 0 .. TOP - 1 : /\ ctr \in b * PERIOD + 1 .. b * PERIOD + PERIOD
                                /\ Progress(Count - 1 + b, Count)
  BY DEF IInv, Draining
<1>3. Count \in 1 .. N /\ TOP \in Nat /\ b \in Nat /\ N \in Nat
  BY <1>1, CountIs, Sizes
<1>4. /\ ctr \in Nat /\ ctr % PERIOD \in 0 .. PERIOD - 1
      /\ Beat <=> ctr % PERIOD = 0
      /\ ctr' % PERIOD = (ctr + 1) % PERIOD
  BY <1>1, Phase, ContinueTypes
<1>5. /\ ctr <= TOP * PERIOD
      /\ ctr = TOP * PERIOD => b = TOP - 1 /\ ctr % PERIOD = 0
      /\ ctr % PERIOD = 0 => ctr + 1 \in (b + 1) * PERIOD + 1 .. (b + 1) * PERIOD + PERIOD
      /\ ctr % PERIOD = 0 /\ ctr # TOP * PERIOD => b + 1 \in 0 .. TOP - 1
      /\ ctr % PERIOD # 0 => ctr + 1 \in b * PERIOD + 1 .. b * PERIOD + PERIOD
  BY <1>2, FinCounter
<1>6. Count' = Count
  BY <1>1 DEF Count, Contract!FeedCount
<1>7. /\ irq' = (ctr = TOP * PERIOD)
      /\ status' = IF ctr = TOP * PERIOD THEN "IDLE" ELSE "FIN"
  BY DEF Miss
<1>8. CASE ctr = TOP * PERIOD
  <2> DEFINE h == Count - 1 + b
  <2>1. h \in Int /\ h = Count - 2 + TOP /\ ctr % PERIOD # 1 /\ Progress(h, Count)
    BY <1>2, <1>3, <1>5, <1>8
  <2> HIDE DEF h
  <2>2. Contract!Tested(start, job.last) \cap job.hits = {}
    BY <1>1, <2>1, AllCompared
  <2>3. Feeding' /\ Draining' /\ FoundIsHit'
    BY <1>7, <1>8 DEF Feeding, Draining, FoundIsHit
  <2>4. NoHitSkipped'
    BY <1>1, <1>7, <1>8, <2>2
       DEF NoHitSkipped, Contract!Tested, Contract!Plus, Contract!FeedCount
  <2>5. Contract!Exhaust
    BY <1>1, <1>7, <1>8, <2>2 DEF Contract!Exhaust
  <2> QED
    BY <2>3, <2>4, <2>5 DEF Kept, Allowed
<1>9. CASE ctr # TOP * PERIOD
  <2>1. ctr' = ctr + 1
    <3>1. ctr + 1 < CTRMOD /\ ctr \in 0 .. CTRMOD - 1
      BY <1>4, <1>5, <1>9, Sizes
    <3>2. (ctr + 1) % CTRMOD = ctr + 1
      BY <3>1, CounterInPhase
    <3> QED
      BY <3>2 DEF Continue, NextCtr
  <2>2. PICK x \in Int, f \in 0 .. N : /\ x = Count - 1 + b /\ f = Count
                                       /\ /\ Beat => Progress(x + 1, f)'
                                          /\ ~Beat => Progress(x, f)'
    <3>1. PICK f \in 0 .. N : f = Count
      BY <1>3
    <3>2. PICK x \in Int : x = Count - 1 + b
      BY <1>3
    <3>3. /\ x >= f - 1 /\ f = IF status = "BUSY" THEN f + 1 ELSE f
          /\ Progress(x, f)
      <4>1. Progress(x, f)
        BY <1>2, <3>1, <3>2
      <4> QED
        BY <1>3, <3>1, <3>2, <4>1
    <3>4. /\ Beat => Progress(x + 1, f)'
          /\ ~Beat => Progress(x, f)'
      BY <1>1, <1>4, <3>3, Advance
    <3> QED
      BY <3>1, <3>2, <3>4
  <2>3. Draining'
    <3>1. ASSUME NEW e \in 0 .. TOP - 1, ctr' \in e * PERIOD + 1 .. e * PERIOD + PERIOD,
                 NEW y \in Int, y = Count - 1 + e, Progress(y, f)'
          PROVE  Draining'
      <4>1. y = Count' - 1 + e /\ f = Count'
        BY <1>6, <2>2, <3>1
      <4>2. Progress(Count - 1 + e, Count)'
        <5> HIDE DEF Count
        <5> QED
          BY <3>1, <4>1 DEF Progress, Window, Passed, Stale
      <4> QED
        BY <3>1, <4>2 DEF Draining
    <3>2. CASE Beat
      <4> DEFINE e == b + 1
                 y == x + 1
      <4>1. y \in Int /\ y = Count - 1 + e
        BY <1>3, <2>2
      <4>2. e \in 0 .. TOP - 1 /\ ctr' \in e * PERIOD + 1 .. e * PERIOD + PERIOD
        BY <1>4, <1>5, <1>9, <2>1, <3>2
      <4>3. Progress(y, f)'
        BY <2>2, <3>2
      <4> HIDE DEF e, y
      <4> QED
        BY <3>1, <4>1, <4>2, <4>3
    <3>3. CASE ~Beat
      <4>1. ctr' \in b * PERIOD + 1 .. b * PERIOD + PERIOD
        BY <1>4, <1>5, <2>1, <3>3
      <4> QED
        BY <2>2, <3>1, <3>3, <4>1
    <3> QED
      BY <3>2, <3>3
  <2>4. Feeding' /\ FoundIsHit' /\ NoHitSkipped'
    BY <1>7, <1>9 DEF Feeding, FoundIsHit, NoHitSkipped
  <2>5. Contract!Stay
    BY <1>1, <1>7, <1>9 DEF Contract!Stay
  <2> QED
    BY <2>3, <2>4, <2>5 DEF Kept, Allowed
<1> QED
  BY <1>8, <1>9

\* A cycle in which no search begins.
LEMMA ContinueStep ==
    ASSUME IInv, NEW ctrl, Continue(ctrl), PipeStep, CoreStep, job' = job,
           external_irq' \in BOOLEAN
    PROVE  IInv' /\ Allowed
<1>2. TypeOK /\ Aligned /\ start' = start
  BY DEF IInv, Continue
<1>3. /\ status' \in {"RDY", "BUSY", "FIN", "IDLE", "FOUND"}
      /\ ctr' \in 0 .. CTRMOD - 1 /\ ctr' % PERIOD = (ctr + 1) % PERIOD
      /\ nonce' \in Nonces /\ nonce_candidate' \in Nonces
      /\ irq' \in BOOLEAN
  BY <1>2, ContinueTypes
<1>4. TypeOK'
  BY <1>2, <1>3, PipelineTypes DEF TypeOK
<1>5. Aligned'
  BY <1>2, <1>3, AlignedStep
<1>6. CASE Working
  <2>1. Hit \/ Miss
    BY DEF Continue
  <2>2. CASE Hit
    <3>1. Settled'
      BY <2>2 DEF Hit, Settled
    <3> QED
      BY <1>2, <1>4, <1>5, <1>6, <2>2, <3>1, HitStep DEF IInv, Kept
  <2>3. CASE Miss
    <3>1. Settled'
      BY <1>6, <2>3 DEF Working, Miss, Settled
    <3>2. Kept
      BY <1>6, <2>3, FeedStep, DrainStep DEF Working
    <3> QED
      BY <1>4, <1>5, <3>1, <3>2 DEF IInv, Kept
  <2> QED
    BY <2>1, <2>2, <2>3
<1>7. CASE ~Working
  <2>1. /\ status' = status /\ irq' = FALSE /\ nonce_candidate' = nonce_candidate
        /\ status # "BUSY"
    BY <1>7 DEF Continue, Hit, Miss, Compare, Working
  <2>2. Settled'
    BY <1>2, <2>1, EmptyStep DEF IInv, Settled
  <2>3. Feeding' /\ Draining'
    BY <1>7, <2>1 DEF Working, Feeding, Draining
  <2>4. FoundIsHit' /\ NoHitSkipped'
    BY <1>2, <2>1 DEF IInv, FoundIsHit, NoHitSkipped, Contract!Tested, Contract!Before,
                      Contract!Plus, Contract!FeedCount
  <2>5. Contract!Stay
    BY <1>2, <2>1 DEF Contract!Stay
  <2> QED
    BY <1>4, <1>5, <2>2, <2>3, <2>4, <2>5 DEF IInv, Allowed
<1> QED
  BY <1>6, <1>7

\* A search begins with empty pipelines.
LEMMA BeginStep ==
    ASSUME IInv, EarlyResume = FALSE, NEW ctrl, Run(ctrl), PipeStep, CoreStep, job' = job,
           external_irq' \in BOOLEAN
    PROVE  /\ IInv'
           /\ "RUN" \in ctrl
           /\ \/ status = "RDY" /\ Contract!Begin(job.first)
              \/ status = "FOUND" /\ Contract!Begin(Contract!Plus(nonce_candidate, 1))
<1>1. TypeOK /\ Aligned /\ pipe = EmptyPipe /\ status # "BUSY"
  BY DEF IInv, Run, Settled, Drained
<1>2. PICK n \in Nonces :
        /\ Begin(n)
        /\ \/ status = "RDY" /\ n = job.first
           \/ status = "FOUND" /\ n = Contract!Plus(nonce_candidate, 1)
  <2>1. job.first \in Nonces
    BY <1>1, CountIs
  <2>2. (nonce_candidate + 1) % N \in Nonces
    <3> DEFINE x == nonce_candidate + 1
    <3>1. x \in Nat
      BY <1>1, Sizes DEF TypeOK, Nonces
    <3> HIDE DEF x
    <3>2. x % N \in 0 .. N - 1
      BY <3>1, Sizes
    <3> QED
      BY <3>2 DEF x, Nonces
  <2> QED
    BY <2>1, <2>2 DEF Run, Contract!Plus
<1>3. /\ status' = "BUSY" /\ ctr' = 0 /\ nonce' = n /\ start' = n /\ irq' = FALSE
      /\ nonce_candidate' = nonce_candidate
  BY <1>2 DEF Begin
<1>4. pipe' = EmptyPipe /\ Aligned'
  BY <1>1, EmptyStep
<1>5. TypeOK'
  <2>1. /\ pipe' \in [0 .. TOP -> Nonces \cup {None}]
        /\ core0' \in [0 .. LAST -> Tokens] /\ core1' \in [0 .. LAST -> Tokens]
        /\ result0' \in Nonces \cup {Junk} /\ result1' \in Nonces \cup {Junk}
        /\ junkMatch' \in BOOLEAN
    BY <1>1, PipelineTypes
  <2>2. /\ job' \in Jobs /\ ctr' \in 0 .. CTRMOD - 1
        /\ nonce' \in Nonces /\ nonce_candidate' \in Nonces /\ start' \in Nonces
    BY <1>1, <1>3, Sizes DEF TypeOK
  <2>3. /\ status' \in {"RDY", "BUSY", "FIN", "IDLE", "FOUND"}
        /\ irq' \in BOOLEAN /\ external_irq' \in BOOLEAN
    BY <1>3
  <2> QED
    BY <2>1, <2>2, <2>3 DEF TypeOK
<1>6. Feeding'
  <2>1. job.last \in Nonces
    BY <1>1, CountIs
  <2>2. Count' = Contract!FeedCount(n, job.last)
    BY <1>3 DEF Count, Contract!FeedCount
  <2>3. Count' \in 1 .. N
    BY <2>1, <2>2, FeedCountIs
  <2>4. Plus(start, 0)' = n
    <3>1. 0 \in 0 .. N /\ n + 0 = n /\ n < N
      BY Sizes DEF Nonces
    <3>2. Plus(n, 0) = n
      BY <3>1, PlusIs
    <3> QED
      BY <1>3, <3>2 DEF Plus, Contract!Plus
  <2>5. Progress(0 - 1, 0)'
    <3>1. \A i \in 0 .. TOP : pipe'[i] = None /\ (0 - 1) - i \notin 0 .. 0 - 1
      BY <1>4, Sizes DEF EmptyPipe
    <3>2. Window(0 - 1, 0)'
      BY <3>1 DEF Window
    <3>3. Passed(0 - 1, 0)' /\ Stale(0 - 1, 0)'
      BY Sizes DEF Passed, Stale
    <3> QED
      BY <3>2, <3>3 DEF Progress
  <2>6. 0 \in 0 .. Count' /\ 0 # Count' /\ ~(0 > 0)
    BY <2>3, Sizes
  <2> QED
    BY <1>3, <2>4, <2>5, <2>6 DEF Feeding
<1>7. Settled' /\ Draining' /\ FoundIsHit' /\ NoHitSkipped'
  BY <1>3 DEF Settled, Draining, FoundIsHit, NoHitSkipped
<1>8. "RUN" \in ctrl
  BY DEF Run
<1> QED
  BY <1>2, <1>3, <1>4, <1>5, <1>6, <1>7, <1>8 DEF IInv, Contract!Begin

LEMMA ResetStep ==
    ASSUME IInv, Reset, job' = job, external_irq' \in BOOLEAN
    PROVE  IInv' /\ Contract!Reset
<1>1. /\ status' = "RDY" /\ ctr' = 0 /\ irq' = FALSE /\ pipe' = EmptyPipe
      /\ core0' = EmptyCore /\ core1' = EmptyCore
      /\ UNCHANGED <<result0, result1, junkMatch, nonce, nonce_candidate, start>>
  BY DEF Reset, CoreReset
<1>2. EmptyPipe \in [0 .. TOP -> Nonces \cup {None}] /\ EmptyCore \in [0 .. LAST -> Tokens]
  BY DEF EmptyPipe, EmptyCore, Tokens
<1>3. TypeOK'
  <2>1. /\ pipe' \in [0 .. TOP -> Nonces \cup {None}]
        /\ core0' \in [0 .. LAST -> Tokens] /\ core1' \in [0 .. LAST -> Tokens]
        /\ result0' \in Nonces \cup {Junk} /\ result1' \in Nonces \cup {Junk}
        /\ junkMatch' \in BOOLEAN
    BY <1>1, <1>2 DEF IInv, TypeOK
  <2>2. /\ job' \in Jobs /\ ctr' \in 0 .. CTRMOD - 1
        /\ nonce' \in Nonces /\ nonce_candidate' \in Nonces /\ start' \in Nonces
    BY <1>1, Sizes DEF IInv, TypeOK
  <2>3. /\ status' \in {"RDY", "BUSY", "FIN", "IDLE", "FOUND"}
        /\ irq' \in BOOLEAN /\ external_irq' \in BOOLEAN
    BY <1>1
  <2> QED
    BY <2>1, <2>2, <2>3 DEF TypeOK
<1>4. (pipe = EmptyPipe /\ core0 = EmptyCore /\ core1 = EmptyCore => Aligned)'
  BY EmptyAligned, PTL
<1>5. Aligned'
  BY <1>1, <1>4 DEF EmptyPipe, EmptyCore
<1>6. Settled'
  BY <1>1 DEF Settled, EmptyPipe
<1>7. Feeding' /\ Draining' /\ FoundIsHit' /\ NoHitSkipped'
  BY <1>1 DEF Feeding, Draining, FoundIsHit, NoHitSkipped
<1> QED
  BY <1>1, <1>3, <1>5, <1>6, <1>7 DEF IInv, Contract!Reset

LEMMA ConfigureStep ==
    ASSUME IInv, NEW j \in Jobs, Configure(j)
    PROVE  IInv' /\ Contract!Configure(j)
<1>1. /\ status = "RDY" /\ job' = j /\ result0' = Junk /\ result1' = Junk
      /\ junkMatch' \in BOOLEAN
      /\ UNCHANGED <<status, ctr, nonce, nonce_candidate, irq, external_irq,
                     pipe, core0, core1, start>>
  BY DEF Configure
<1>2. TypeOK'
  BY <1>1 DEF IInv, TypeOK
<1>3. pipe' = EmptyPipe /\ core0' = EmptyCore /\ core1' = EmptyCore
  BY <1>1, AlignedEmpty DEF IInv, Settled
<1>4. (pipe = EmptyPipe /\ core0 = EmptyCore /\ core1 = EmptyCore => Aligned)'
  BY EmptyAligned, PTL
<1>5. Aligned'
  BY <1>3, <1>4 DEF EmptyPipe, EmptyCore
<1>6. Settled' /\ Feeding' /\ Draining' /\ FoundIsHit' /\ NoHitSkipped'
  BY <1>1, <1>3 DEF Settled, Feeding, Draining, FoundIsHit, NoHitSkipped, EmptyPipe
<1> QED
  BY <1>1, <1>2, <1>5, <1>6 DEF IInv, Contract!Configure
-----------------------------------------------------------------------------
LEMMA InitIInv == Init => IInv
<1>1. SUFFICES ASSUME Init PROVE IInv
  OBVIOUS
<1>2. EmptyPipe \in [0 .. TOP -> Nonces \cup {None}] /\ EmptyCore \in [0 .. LAST -> Tokens]
  BY DEF EmptyPipe, EmptyCore, Tokens
<1>3. /\ 0 \in Nonces /\ 0 \in 0 .. CTRMOD - 1
      /\ Junk \in Nonces \cup {Junk}
  BY Sizes DEF Nonces
<1>4. TypeOK
  BY <1>1, <1>2, <1>3 DEF Init, TypeOK
<1>5. Aligned
  BY <1>1, EmptyAligned DEF Init
<1>6. Settled /\ Feeding /\ Draining /\ FoundIsHit /\ NoHitSkipped
  BY <1>1 DEF Init, Settled, Feeding, Draining, FoundIsHit, NoHitSkipped
<1> QED
  BY <1>4, <1>5, <1>6 DEF IInv

\* The latch of the wrapper is that of the contract.
LEMMA ClockStep ==
    ASSUME IInv, EarlyResume = FALSE, NEW ctrl \in Controls, NEW ack \in BOOLEAN,
           Clock(ctrl, ack)
    PROVE  IInv' /\ Contract!Edge(ctrl, ack)
<1>1. job' = job /\ external_irq' \in BOOLEAN /\ Contract!Latch(ack)
  BY DEF Clock, Latch, Contract!Latch
<1>2. CASE "RST" \in ctrl /\ Reset
  BY <1>1, <1>2, ResetStep DEF Contract!Edge
<1>3. CASE "RST" \notin ctrl /\ Run(ctrl) /\ PipeStep /\ CoreStep
  <2>1. /\ IInv'
        /\ "RUN" \in ctrl
        /\ \/ status = "RDY" /\ Contract!Begin(job.first)
           \/ status = "FOUND" /\ Contract!Begin(Contract!Plus(nonce_candidate, 1))
    BY <1>1, <1>3, BeginStep
  <2> QED
    BY <1>1, <1>3, <2>1 DEF Contract!Edge
<1>4. CASE "RST" \notin ctrl /\ Continue(ctrl) /\ PipeStep /\ CoreStep
  <2>1. IInv' /\ Allowed
    BY <1>1, <1>4, ContinueStep
  <2>2. ~("RUN" \in ctrl /\ status \in {"RDY", "FOUND"})
    BY <1>4 DEF Continue
  <2>3. Contract!Nonces = Nonces
    BY DEF Contract!Nonces, Nonces
  <2> QED
    BY <1>1, <1>4, <2>1, <2>2, <2>3 DEF Contract!Edge, Allowed
<1> QED
  BY <1>2, <1>3, <1>4 DEF Clock

LEMMA NextStep ==
    ASSUME EarlyResume = FALSE
    PROVE  IInv /\ [Next]_vars => IInv' /\ [Contract!Next]_(Contract!vars)
<1>1. SUFFICES ASSUME IInv, [Next]_vars PROVE IInv' /\ [Contract!Next]_(Contract!vars)
  OBVIOUS
<1>2. ASSUME NEW j \in Jobs, Configure(j) PROVE IInv' /\ Contract!Next
  BY <1>1, <1>2, ConfigureStep DEF Contract!Next
<1>3. ASSUME NEW ctrl \in Controls, NEW ack \in BOOLEAN, Clock(ctrl, ack)
      PROVE  IInv' /\ Contract!Next
  <2>1. Contract!Controls = Controls
    BY DEF Contract!Controls, Controls
  <2>2. IInv' /\ Contract!Edge(ctrl, ack)
    BY <1>1, <1>3, ClockStep
  <2> QED
    BY <2>1, <2>2 DEF Contract!Next
<1>4. ASSUME UNCHANGED vars PROVE IInv' /\ UNCHANGED Contract!vars
  <2>1. UNCHANGED Contract!vars
    BY <1>4 DEF vars, regs, Contract!vars
  <2>2. TypeOK' /\ Settled'
    BY <1>1, <1>4 DEF vars, regs, data, IInv, TypeOK, Settled, EmptyPipe
  <2>3. Aligned'
    BY <1>1, <1>4 DEF vars, regs, data, IInv, Aligned, InStage
  <2>4. Feeding' /\ Draining'
    BY <1>1, <1>4 DEF vars, regs, data, IInv, Feeding, Draining, Progress, Window, Passed,
                      Stale, Count, Plus, Contract!Plus, Contract!FeedCount
  <2>5. FoundIsHit' /\ NoHitSkipped'
    BY <1>1, <1>4 DEF vars, regs, data, IInv, FoundIsHit, NoHitSkipped, Contract!Tested,
                      Contract!Before, Contract!Plus, Contract!FeedCount
  <2> QED
    BY <2>1, <2>2, <2>3, <2>4, <2>5 DEF IInv
<1> QED
  BY <1>1, <1>2, <1>3, <1>4 DEF Next

LEMMA Inductive ==
    ASSUME EarlyResume = FALSE
    PROVE  Spec => []IInv
<1>1. IInv /\ [Next]_vars => IInv'
  BY NextStep
<1> QED
  BY <1>1, InitIInv, PTL DEF Spec

(***************************************************************************)
(* Every register of org.vhd and of the cores keeps a value of its width:  *)
(* the counter stays below its bound and a stage is a nonce or empty.      *)
(***************************************************************************)
THEOREM TypeCorrect ==
    ASSUME EarlyResume = FALSE
    PROVE  Spec => []TypeOK
<1>1. IInv => TypeOK
  BY DEF IInv
<1> QED
  BY <1>1, Inductive, PTL

(***************************************************************************)
(* The assertion of hw.vhd holds for any period and any number of windows: *)
(* no window ever holds two messages.                                      *)
(***************************************************************************)
THEOREM AssertionHolds ==
    ASSUME EarlyResume = FALSE
    PROVE  Spec => []StageEnableValid
<1>1. IInv => StageEnableValid
  BY AlignedOneHot DEF IInv, StageEnableValid
<1> QED
  BY <1>1, Inductive, PTL

(***************************************************************************)
(* The latencies of the cores and of the nonce pipe agree: a comparison    *)
(* that is not the first of its beat sees the digest of its nonce.         *)
(***************************************************************************)
THEOREM LatenciesAgree ==
    ASSUME EarlyResume = FALSE
    PROVE  Spec => []DigestMeetsNonce
<1>1. IInv => DigestMeetsNonce
  BY DEF IInv, Aligned, DigestMeetsNonce
<1> QED
  BY <1>1, Inductive, PTL

(***************************************************************************)
(* A candidate is a hit or the nonce its search began with.                *)
(***************************************************************************)
THEOREM CandidateIsHit ==
    ASSUME EarlyResume = FALSE
    PROVE  Spec => []FoundIsHit
<1>1. IInv => FoundIsHit
  BY DEF IInv
<1> QED
  BY <1>1, Inductive, PTL

(***************************************************************************)
(* No hit is lost: whatever the range, the jobs and the number of nonces,  *)
(* a search that stops has missed none of those it tested.                 *)
(***************************************************************************)
THEOREM NoHitLost ==
    ASSUME EarlyResume = FALSE
    PROVE  Spec => []NoHitSkipped
<1>1. IInv => NoHitSkipped
  BY DEF IInv
<1> QED
  BY <1>1, Inductive, PTL

(***************************************************************************)
(* The engine implements the accelerator its software sees, but for the    *)
(* liveness: every clock edge is a step Accel allows.                      *)
(***************************************************************************)
THEOREM EngineImplements ==
    ASSUME EarlyResume = FALSE
    PROVE  Spec => Contract!Spec
<1>1. Init => Contract!Init
  BY DEF Init, Contract!Init
<1>2. IInv /\ [Next]_vars => [Contract!Next]_(Contract!vars)
  BY NextStep
<1> QED
  BY <1>1, <1>2, Inductive, PTL DEF Spec, Contract!Spec
-----------------------------------------------------------------------------
(***************************************************************************)
(* How long a search may still take.  While nonces are fed, a period for   *)
(* each nonce before nonce_last, what is missing to the next beat, and the *)
(* draining of the pipe; then what the counter has left of that.           *)
(***************************************************************************)
ToFeed == (job.last + N - nonce) % N

ToBeat == IF ctr % PERIOD = 0 THEN 0 ELSE PERIOD - (ctr % PERIOD)

CyclesLeft ==
    CASE status = "BUSY" -> PERIOD * ToFeed + ToBeat + TOP * PERIOD + 1
      [] status = "FIN"  -> TOP * PERIOD + 1 - ctr
      [] OTHER -> 0

MaxCycles == PERIOD * (N + TOP)

\* The way to b around the ring, and one nonce further on.
LEMMA WayLeft ==
    ASSUME NEW a \in Nonces, NEW b \in Nonces
    PROVE  /\ (b + N - a) % N \in 0 .. N - 1
           /\ a # b => /\ (b + N - a) % N >= 1
                       /\ (b + N - ((a + 1) % N)) % N = ((b + N - a) % N) - 1
<1> DEFINE x == b + N - a
           y == a + 1
           n == y % N
           z == b + N - n
<1>1. x \in 0 .. 2 * N - 1 /\ y \in 0 .. 2 * N - 1 /\ N \in Nat /\ N >= 1
  BY Sizes DEF Nonces
<1> HIDE DEF x, y
<1>2. /\ x % N = IF x < N THEN x ELSE x - N
      /\ n = IF y < N THEN y ELSE y - N
  BY <1>1, Wrap
<1> HIDE DEF n
<1>3. z \in 0 .. 2 * N - 1
  BY <1>1, <1>2 DEF y, Nonces
<1> HIDE DEF z
<1>4. z % N = IF z < N THEN z ELSE z - N
  BY <1>3, Wrap
<1>5. x % N \in 0 .. N - 1 /\ (a # b => x % N >= 1 /\ z % N = (x % N) - 1)
  BY <1>1, <1>2, <1>4 DEF x, y, z, Nonces
<1> QED
  BY <1>5 DEF x, y, z, n

\* The way to the next beat, and one cycle later.
LEMMA BeatLeft ==
    ASSUME TypeOK
    PROVE  /\ ToBeat \in 0 .. PERIOD - 1 /\ (Beat <=> ToBeat = 0)
           /\ ctr' % PERIOD = (ctr + 1) % PERIOD =>
                ToBeat' = IF Beat THEN PERIOD - 1 ELSE ToBeat - 1
<1>1. ctr \in Nat /\ PERIOD \in Nat /\ PERIOD >= 2
  BY Sizes DEF TypeOK
<1>2. /\ ctr % PERIOD \in 0 .. PERIOD - 1
      /\ (ctr + 1) % PERIOD = IF ctr % PERIOD = PERIOD - 1 THEN 0 ELSE (ctr % PERIOD) + 1
  BY <1>1, Division, Successor
<1> DEFINE p == ctr % PERIOD
           q == ctr' % PERIOD
<1> HIDE DEF p, q
<1>3. /\ p \in 0 .. PERIOD - 1
      /\ ctr' % PERIOD = (ctr + 1) % PERIOD => q = IF p = PERIOD - 1 THEN 0 ELSE p + 1
  BY <1>2 DEF p, q
<1>4. ToBeat = (IF p = 0 THEN 0 ELSE PERIOD - p) /\ (Beat <=> p = 0)
  BY Zenon DEF ToBeat, Beat, p
<1>5. ToBeat' = (IF q = 0 THEN 0 ELSE PERIOD - q)
  BY Zenon DEF ToBeat, q
<1> QED
  BY <1>1, <1>3, <1>4, <1>5

\* A search has at least one cycle left, and no more than the bound.
LEMMA CyclesAre ==
    ASSUME TypeOK, Draining, Working
    PROVE  CyclesLeft \in 1 .. MaxCycles
<1>1. /\ PERIOD \in Nat /\ PERIOD >= 2 /\ TOP \in Nat /\ N \in Nat /\ N >= 1
      /\ TOP * PERIOD \in Nat /\ PERIOD * (N - 1) \in Nat
      /\ MaxCycles = PERIOD * (N - 1) + PERIOD + TOP * PERIOD
  BY Sizes DEF MaxCycles
<1>2. CASE status = "BUSY"
  <2>1. ToFeed \in 0 .. N - 1
    BY WayLeft, CountIs DEF ToFeed, TypeOK
  <2>2. ToBeat \in 0 .. PERIOD - 1
    BY BeatLeft
  <2>3. PERIOD * ToFeed \in Nat /\ PERIOD * ToFeed <= PERIOD * (N - 1)
    <3> DEFINE k == ToFeed
    <3> HIDE DEF k
    <3>1. k \in 0 .. N - 1
      BY <2>1 DEF k
    <3>2. PERIOD * k \in Nat /\ PERIOD * k <= PERIOD * (N - 1)
      BY <1>1, <3>1
    <3> QED
      BY <3>2 DEF k
  <2>4. CyclesLeft = PERIOD * ToFeed + ToBeat + TOP * PERIOD + 1
    BY <1>2 DEF CyclesLeft
  <2> DEFINE x == PERIOD * ToFeed
             y == ToBeat
             z == TOP * PERIOD
             w == PERIOD * (N - 1)
  <2> HIDE DEF x, y, z, w
  <2>5. /\ CyclesLeft = x + y + z + 1 /\ x \in Nat /\ x <= w /\ w \in Nat
        /\ y \in 0 .. PERIOD - 1 /\ z \in Nat /\ MaxCycles = w + PERIOD + z
    BY <1>1, <2>2, <2>3, <2>4 DEF x, y, z, w
  <2> QED
    BY <1>1, <2>5
<1>3. CASE status = "FIN"
  <2>1. PICK b \in 0 .. TOP - 1 : ctr \in b * PERIOD + 1 .. b * PERIOD + PERIOD
    BY <1>3 DEF Draining
  <2>2. ctr \in Nat /\ ctr <= TOP * PERIOD
    BY <2>1, FinCounter
  <2>3. CyclesLeft = TOP * PERIOD + 1 - ctr
    BY <1>3 DEF CyclesLeft
  <2> QED
    BY <1>1, <2>2, <2>3
<1> QED
  BY <1>2, <1>3 DEF Working

\* A cycle in which the search goes on brings it nearer to its end.
LEMMA CyclesStep ==
    ASSUME TypeOK, Draining, Working, Working', NEW ctrl, Continue(ctrl), job' = job
    PROVE  CyclesLeft' < CyclesLeft
<1>1. /\ PERIOD \in Nat /\ PERIOD >= 2 /\ TOP \in Nat /\ N \in Nat /\ N >= 1
      /\ TOP * PERIOD \in Nat /\ ctr \in 0 .. CTRMOD - 1
      /\ CTRMOD \in Nat /\ CTRMOD > TOP * PERIOD
  BY Sizes, TimingAssumption DEF TypeOK
<1>2. Miss
  BY DEF Continue, Hit, Working
<1>3. CASE status = "BUSY" /\ nonce = job.last
  <2>1. status' = "FIN" /\ ctr' = (ctr % PERIOD) + 1
    BY <1>2, <1>3 DEF Miss, Continue
  <2>2. ctr % PERIOD \in Nat
    BY <1>1, Division
  <2>3. ToFeed \in 0 .. N - 1 /\ ToBeat \in 0 .. PERIOD - 1
    BY WayLeft, CountIs, BeatLeft DEF ToFeed, TypeOK
  <2>4. PERIOD * ToFeed \in Nat
    BY <1>1, <2>3
  <2>5. /\ CyclesLeft = PERIOD * ToFeed + ToBeat + TOP * PERIOD + 1
        /\ CyclesLeft' = TOP * PERIOD + 1 - ((ctr % PERIOD) + 1)
    BY <1>3, <2>1 DEF CyclesLeft
  <2> DEFINE x == PERIOD * ToFeed
             y == ToBeat
             z == TOP * PERIOD
             p == ctr % PERIOD
  <2> HIDE DEF x, y, z, p
  <2>6. /\ CyclesLeft = x + y + z + 1 /\ CyclesLeft' = z + 1 - (p + 1)
        /\ x \in Nat /\ y \in Nat /\ z \in Nat /\ p \in Nat
    BY <1>1, <2>2, <2>3, <2>4, <2>5 DEF x, y, z, p
  <2> QED
    BY <2>6
<1>4. CASE status = "BUSY" /\ nonce # job.last
  <2>1. status' = "BUSY" /\ ctr' % PERIOD = (ctr + 1) % PERIOD
    BY <1>2, <1>4, ContinueTypes DEF Miss
  <2>2. nonce' = IF Beat THEN (nonce + 1) % N ELSE nonce
    BY <1>4 DEF Continue, NextNonce
  <2>3. /\ nonce \in Nonces /\ job.last \in Nonces
    BY CountIs DEF TypeOK
  <2>4. ToFeed \in 1 .. N - 1 /\ ToFeed' = IF Beat THEN ToFeed - 1 ELSE ToFeed
    BY <1>4, <2>2, <2>3, WayLeft DEF ToFeed
  <2>5. /\ ToBeat \in 0 .. PERIOD - 1 /\ (Beat <=> ToBeat = 0)
        /\ ToBeat' = IF Beat THEN PERIOD - 1 ELSE ToBeat - 1
    BY <2>1, BeatLeft
  <2>6. /\ CyclesLeft = PERIOD * ToFeed + ToBeat + TOP * PERIOD + 1
        /\ CyclesLeft' = PERIOD * ToFeed' + ToBeat' + TOP * PERIOD + 1
    BY <1>4, <2>1 DEF CyclesLeft
  <2> DEFINE k == ToFeed
             l == ToFeed'
             y == ToBeat
             u == ToBeat'
             z == TOP * PERIOD
  <2> HIDE DEF k, l, y, u, z
  <2>7. /\ k \in 1 .. N - 1 /\ l = IF y = 0 THEN k - 1 ELSE k
        /\ y \in 0 .. PERIOD - 1 /\ u = IF y = 0 THEN PERIOD - 1 ELSE y - 1
        /\ z \in Nat
        /\ CyclesLeft = PERIOD * k + y + z + 1 /\ CyclesLeft' = PERIOD * l + u + z + 1
    BY <1>1, <2>4, <2>5, <2>6 DEF k, l, y, u, z
  <2>8. PERIOD * k \in Nat /\ PERIOD * (k - 1) = PERIOD * k - PERIOD
    BY <1>1, <2>7
  <2> QED
    BY <1>1, <2>7, <2>8
<1>5. CASE status = "FIN"
  <2>1. PICK b \in 0 .. TOP - 1 : ctr \in b * PERIOD + 1 .. b * PERIOD + PERIOD
    BY <1>5 DEF Draining
  <2>2. ctr <= TOP * PERIOD /\ ctr # TOP * PERIOD
    BY <1>2, <1>5, <2>1, FinCounter DEF Miss, Working
  <2>3. ctr' = (ctr + 1) % CTRMOD /\ status' = "FIN"
    BY <1>2, <1>5, <2>2 DEF Continue, NextCtr, Miss
  <2>4. ctr + 1 < CTRMOD
    BY <1>1, <2>2
  <2>5. ctr' = ctr + 1
    BY <1>1, <2>3, <2>4, CounterInPhase
  <2>6. CyclesLeft = TOP * PERIOD + 1 - ctr /\ CyclesLeft' = TOP * PERIOD + 1 - (ctr + 1)
    BY <1>5, <2>3, <2>5 DEF CyclesLeft
  <2> QED
    BY <1>1, <2>6
<1> QED
  BY <1>3, <1>4, <1>5 DEF Working

\* Only a clock edge that goes on with the search leaves it under way.
LEMMA SearchGoesOn ==
    ASSUME IInv, Next
    PROVE  Working /\ Working' => CyclesLeft' < CyclesLeft
<1> SUFFICES ASSUME Working, Working' PROVE CyclesLeft' < CyclesLeft
  OBVIOUS
<1>1. PICK ctrl \in Controls, ack \in BOOLEAN : Clock(ctrl, ack)
  BY DEF Next, Configure, Working
<1>2. job' = job /\ (Reset \/ Run(ctrl) \/ Continue(ctrl))
  BY <1>1 DEF Clock
<1>3. ~Reset /\ ~Run(ctrl)
  BY DEF Reset, Run, Working
<1> QED
  BY <1>2, <1>3, CyclesStep DEF IInv

(***************************************************************************)
(* A search ends within PERIOD * (N + TOP) clock edges, a period for every *)
(* nonce and for every stage of the nonce pipe, however the software       *)
(* writes the control register and acknowledges: that many edges are left  *)
(* at most, and every edge that does not end the search leaves fewer.      *)
(***************************************************************************)
THEOREM SearchIsBounded ==
    ASSUME EarlyResume = FALSE
    PROVE  Spec => /\ [](Working => CyclesLeft \in 1 .. MaxCycles)
                   /\ [][Working /\ Working' => CyclesLeft' < CyclesLeft]_vars
<1>1. IInv => (Working => CyclesLeft \in 1 .. MaxCycles)
  BY CyclesAre DEF IInv
<1>2. IInv /\ [Next]_vars => [Working /\ Working' => CyclesLeft' < CyclesLeft]_vars
  BY SearchGoesOn
<1> QED
  BY <1>1, <1>2, Inductive, PTL DEF Spec
=============================================================================
