----------------------------- MODULE SearchEngine -----------------------------
(***************************************************************************)
(* The nonce search engine org.vhd with its two SHA-256 cores hw.vhd and   *)
(* the interrupt latch of the AXI wrapper, one step per rising clock edge  *)
(* (one instance, step tied to '1', as the wrapper builds it).             *)
(*                                                                         *)
(* A message on its way through a core is represented by the nonce it      *)
(* carries.  The digest of a nonce satisfies the difficulty mask or not    *)
(* (job.hits); everything else about SHA-256 is abstracted.  What is kept  *)
(* is when each register is written and read.                              *)
(***************************************************************************)
EXTENDS Integers, FiniteSets

CONSTANTS
    N,            \* number of nonces (2^32 in the code)
    Jobs,         \* the jobs the software may write
    PERIOD,       \* clock cycles between two nonces (16)
    WINDOWS,      \* 16-round windows of a core (4)
    CTRMOD,       \* ctr counts modulo this (256)
    EarlyResume,  \* may the software resume before the pipelines are empty?
    None,         \* no message in this stage
    Junk          \* a message, but of no nonce of the current job

DEPTH == WINDOWS + 1     \* stages of the nonce pipe one core takes (5)
TOP == 2 * DEPTH         \* stage_pipe'high (10)
LAST == WINDOWS * PERIOD \* stage_enable'high (64)

Nonces == 0 .. N - 1
Tokens == Nonces \cup {None, Junk}

ASSUME NAssumption == N \in Nat \ {0}
ASSUME JobsAssumption ==
    Jobs \subseteq [hits : SUBSET Nonces, first : Nonces, last : Nonces]
ASSUME TimingAssumption ==
    /\ PERIOD \in Nat \ {0, 1}
    /\ WINDOWS \in Nat \ {0}
    /\ CTRMOD \in Nat /\ CTRMOD % PERIOD = 0 /\ CTRMOD > TOP * PERIOD
ASSUME MessageAssumption ==
    None \notin Nonces /\ Junk \notin Nonces /\ None # Junk
ASSUME ResumeAssumption == EarlyResume \in BOOLEAN

VARIABLES
    job,              \* STATE_IN, PREFIX, DIFFICULTY_MASK, NONCE_FIRST, NONCE_LAST
    status,           \* status_internal
    ctr,              \* cycle counter
    nonce,            \* next nonce to feed
    nonce_candidate,  \* nonce_candidate_internal
    irq,              \* one-cycle interrupt pulse
    external_irq,     \* interrupt latch of the AXI wrapper
    pipe,             \* stage_pipe and nonce_pipe: pipe[i] # None iff stage_pipe(i)
    core0, core1,     \* stage_enable of each core, with the message of each stage
    result0, result1, \* result_0, result_1: the digest a core's output shows
    junkMatch,        \* does result1 satisfy the mask when it is Junk?
    start             \* history: the nonce the present search began with

regs == <<job, status, ctr, nonce, nonce_candidate, irq, external_irq, start>>
data == <<pipe, core0, core1, result0, result1, junkMatch>>
vars == <<regs, data>>

-----------------------------------------------------------------------------
Controls == SUBSET {"RST", "RUN"}

EmptyPipe == [i \in 0 .. TOP |-> None]
EmptyCore == [i \in 0 .. LAST |-> None]

\* The cycle in which the nonce pipe moves and a nonce is fed (ctr mod 16 = 0).
Beat == ctr % PERIOD = 0

Occupied(core, w) ==
    { i \in (w * PERIOD) .. (w * PERIOD + PERIOD - 1) : core[i] # None }

(***************************************************************************)
(* The rounds of a window run on one state register, so a window with two  *)
(* messages has no round to select (case ... when others) and destroys     *)
(* both.                                                                   *)
(***************************************************************************)
OneHot(core) ==
    \A w \in 0 .. (WINDOWS - 1) : Cardinality(Occupied(core, w)) <= 1

Shift(core, load) ==
    [ i \in 0 .. LAST |->
        IF i = 0 THEN load
        ELSE IF /\ core[i - 1] # None
                /\ Cardinality(Occupied(core, (i - 1) \div PERIOD)) > 1
             THEN Junk ELSE core[i - 1] ]

\* Mutants: load held for the whole period; load one cycle after the beat.
Load0Held == pipe[0]
Load0Late == IF ctr % PERIOD = 1 THEN pipe[0] ELSE None

\* What the cores load in this cycle.
Load0 == IF Beat THEN pipe[0] ELSE None
Load1 == IF Beat /\ pipe[DEPTH] # None THEN result0 ELSE None

\* is_candidate(mask, result_1)
IsCandidate ==
    IF result1 = Junk THEN junkMatch ELSE result1 \in job.hits

Drained ==
    /\ pipe = EmptyPipe
    /\ core0 = EmptyCore
    /\ core1 = EmptyCore
-----------------------------------------------------------------------------
(***************************************************************************)
(* After configuration of the FPGA every register is 0 and the outputs of  *)
(* the cores show no digest of any job.                                    *)
(***************************************************************************)
Init ==
    /\ job \in Jobs
    /\ status = "RDY"
    /\ ctr = 0 /\ nonce = 0 /\ nonce_candidate = 0
    /\ irq = FALSE /\ external_irq = FALSE
    /\ pipe = EmptyPipe
    /\ core0 = EmptyCore /\ core1 = EmptyCore
    /\ result0 = Junk /\ result1 = Junk
    /\ junkMatch \in BOOLEAN
    /\ start = 0

(***************************************************************************)
(* The software writes the parameter registers, which every user does      *)
(* between the reset and the start.  A digest of the old job that is still *)
(* on the outputs may or may not satisfy the new mask.                     *)
(***************************************************************************)
Configure(j) ==
    /\ status = "RDY"
    /\ job' = j
    /\ result0' = Junk /\ result1' = Junk
    /\ junkMatch' \in BOOLEAN
    /\ UNCHANGED <<status, ctr, nonce, nonce_candidate, irq, external_irq,
                   pipe, core0, core1, start>>

\* Interrupt latch of the AXI wrapper: the acknowledge pulse comes first.
Latch(ack) == external_irq' = (~ack /\ (external_irq \/ irq))

(***************************************************************************)
(* One cycle of the cores: every stage moves on, and the message that      *)
(* leaves the last stage appears on the output.                            *)
(***************************************************************************)
CoreStep ==
    /\ core0' = Shift(core0, Load0)
    /\ core1' = Shift(core1, Load1)
    /\ result0' = IF core0[LAST] = None THEN result0 ELSE core0[LAST]
    /\ result1' = IF core1[LAST] = None THEN result1 ELSE core1[LAST]
    /\ IF core1[LAST] = Junk THEN junkMatch' \in BOOLEAN
                             ELSE UNCHANGED junkMatch

\* The reset clears the enables of the pipelines and not their data.
CoreReset ==
    /\ core0' = EmptyCore /\ core1' = EmptyCore
    /\ UNCHANGED <<result0, result1, junkMatch>>

\* The nonce pipe moves at a beat, with the nonce BUSY feeds in stage 0.
PipeStep ==
    pipe' = IF Beat
            THEN [ i \in 0 .. TOP |->
                     IF i > 0 THEN pipe[i - 1]
                     ELSE IF status = "BUSY" THEN nonce ELSE None ]
            ELSE pipe

\* Mutants: a counter of one period only, a nonce that does not wrap around.
NextCtrNarrow == (ctr + 1) % PERIOD
NextNonceWide == IF status = "BUSY" /\ Beat THEN nonce + 1 ELSE nonce

NextCtr == (ctr + 1) % CTRMOD
NextNonce == IF status = "BUSY" /\ Beat THEN (nonce + 1) % N ELSE nonce

Reset ==
    /\ status' = "RDY"
    /\ ctr' = 0
    /\ irq' = FALSE
    /\ pipe' = EmptyPipe
    /\ CoreReset
    /\ UNCHANGED <<nonce, nonce_candidate, start>>
-----------------------------------------------------------------------------
\* RUN in RDY or FOUND: the pipelines go on, the counter starts over.
Begin(n) ==
    /\ status' = "BUSY"
    /\ ctr' = 0
    /\ nonce' = n
    /\ start' = n
    /\ irq' = FALSE
    /\ UNCHANGED nonce_candidate

Run(ctrl) ==
    /\ "RUN" \in ctrl
    /\ \/ status = "RDY" /\ Begin(job.first)
       \/ /\ status = "FOUND"
          /\ EarlyResume \/ Drained
          /\ Begin((nonce_candidate + 1) % N)

\* The comparison at the end of the pipe: it is the last assignment and wins.
Compare == status \in {"BUSY", "FIN"} /\ pipe[TOP] # None /\ IsCandidate

\* Mutants: the candidate of one stage earlier; one stage too few to drain.
HitEarly ==
    /\ Compare
    /\ nonce_candidate' = pipe[TOP - 1]
    /\ status' = "FOUND"
    /\ irq' = TRUE

MissEarly ==
    /\ ~Compare
    /\ UNCHANGED nonce_candidate
    /\ status' = CASE status = "BUSY" /\ nonce = job.last -> "FIN"
                   [] status = "FIN" /\ ctr = (TOP - 1) * PERIOD -> "IDLE"
                   [] OTHER -> status
    /\ irq' = (status = "FIN" /\ ctr = (TOP - 1) * PERIOD)

\* Mutant: the interrupt comes with the end of the feeding.
MissIrqAtFin ==
    /\ ~Compare
    /\ UNCHANGED nonce_candidate
    /\ status' = CASE status = "BUSY" /\ nonce = job.last -> "FIN"
                   [] status = "FIN" /\ ctr = TOP * PERIOD -> "IDLE"
                   [] OTHER -> status
    /\ irq' = (status = "BUSY" /\ nonce = job.last)

\* The pipes move on, whatever the state; nonce and ctr are set below.
Hit ==
    /\ Compare
    /\ nonce_candidate' = pipe[TOP]
    /\ status' = "FOUND"
    /\ irq' = TRUE

Miss ==
    /\ ~Compare
    /\ UNCHANGED nonce_candidate
    /\ status' = CASE status = "BUSY" /\ nonce = job.last -> "FIN"
                   [] status = "FIN" /\ ctr = TOP * PERIOD -> "IDLE"
                   [] OTHER -> status
    /\ irq' = (status = "FIN" /\ ctr = TOP * PERIOD)

(***************************************************************************)
(* A cycle in which no search begins.  The nonce that is nonce_last when   *)
(* the cycle begins ends the feeding; ctr then counts from that beat.      *)
(***************************************************************************)
Continue(ctrl) ==
    /\ ~("RUN" \in ctrl /\ status \in {"RDY", "FOUND"})
    /\ Hit \/ Miss
    /\ ctr' = IF status = "BUSY" /\ nonce = job.last
              THEN (ctr % PERIOD) + 1 ELSE NextCtr
    /\ nonce' = NextNonce
    /\ UNCHANGED start

Clock(ctrl, ack) ==
    /\ Latch(ack)
    /\ UNCHANGED job
    /\ \/ "RST" \in ctrl /\ Reset
       \/ /\ "RST" \notin ctrl
          /\ Run(ctrl) \/ Continue(ctrl)
          /\ PipeStep
          /\ CoreStep

Next ==
    \/ \E j \in Jobs : Configure(j)
    \/ \E ctrl \in Controls, ack \in BOOLEAN : Clock(ctrl, ack)

Spec == Init /\ [][Next]_vars

(***************************************************************************)
(* The clock of the fabric never stops; it also runs when the software     *)
(* writes nothing.                                                         *)
(***************************************************************************)
Tick == \E ctrl \in Controls, ack \in BOOLEAN : Clock(ctrl, ack)

FairSpec == Spec /\ WF_vars(Tick)
-----------------------------------------------------------------------------
(***************************************************************************)
(* Correctness.                                                            *)
(***************************************************************************)
\* The type invariant: every register holds a value of its width.
TypeOK ==
    /\ job \in Jobs
    /\ status \in {"RDY", "BUSY", "FIN", "IDLE", "FOUND"}
    /\ ctr \in 0 .. (CTRMOD - 1)
    /\ nonce \in Nonces /\ nonce_candidate \in Nonces /\ start \in Nonces
    /\ irq \in BOOLEAN /\ external_irq \in BOOLEAN
    /\ pipe \in [0 .. TOP -> Nonces \cup {None}]
    /\ core0 \in [0 .. LAST -> Tokens] /\ core1 \in [0 .. LAST -> Tokens]
    /\ result0 \in Nonces \cup {Junk} /\ result1 \in Nonces \cup {Junk}
    /\ junkMatch \in BOOLEAN

(***************************************************************************)
(* The assertion of hw.vhd ("invalid stage enable vector", severity        *)
(* failure): no window of a core ever holds two messages.  It needs the    *)
(* beat of the feeding never to change while messages are under way.       *)
(***************************************************************************)
StageEnableValid == OneHot(core0) /\ OneHot(core1)

(***************************************************************************)
(* The latencies of the two cores and of the nonce pipe agree: in every    *)
(* cycle in which a nonce is compared, except the first, result_1 shows    *)
(* the digest of that very nonce.                                          *)
(***************************************************************************)
DigestMeetsNonce ==
    (/\ status \in {"BUSY", "FIN"}
     /\ pipe[TOP] # None
     /\ ctr % PERIOD # 1) => result1 = pipe[TOP]

\* The specification seen by the software, with the pipelines hidden.
Contract == INSTANCE Accel

(***************************************************************************)
(* A nonce the hardware reports is a hit, unless it is the one the search  *)
(* began with (which is compared with a digest of an earlier search).      *)
(***************************************************************************)
FoundIsHit ==
    status = "FOUND" => nonce_candidate \in job.hits \cup {start}

(***************************************************************************)
(* No hit is lost in the pipelines: when the search has stopped, every     *)
(* tested nonce before the candidate, or every tested nonce when there is  *)
(* none, is a miss.                                                        *)
(***************************************************************************)
NoHitSkipped ==
    /\ status = "IDLE" => Contract!Tested(start, job.last) \cap job.hits = {}
    /\ status = "FOUND" =>
          Contract!Before(start, nonce_candidate) \cap job.hits = {}

(***************************************************************************)
(* Cycle by cycle, the engine does what Accel allows: also the interrupt   *)
(* pulse comes exactly with the end of a search, and the latch loses it    *)
(* only to an acknowledge.                                                 *)
(***************************************************************************)
ImplementsAccel == Contract!FairSpec

\* A search ends: it never runs past the range and never waits for a nonce.
SearchEnds ==
    status \in {"BUSY", "FIN"} ~> status \in {"RDY", "IDLE", "FOUND"}

(***************************************************************************)
(* What userspace_app/main.c says of status IDLE ("no nonce candidate      *)
(* found"): no nonce of the range first .. last is a hit.                  *)
(***************************************************************************)
RangeExhausted ==
    status = "IDLE" =>
        ({job.first, job.last} \cup Contract!Before(job.first, job.last))
            \cap job.hits = {}
=============================================================================
