-------------------------------- MODULE Accel --------------------------------
(***************************************************************************)
(* What the SHA-256 accelerator promises to its software, one step per     *)
(* clock edge: the status register, the candidate register and the latched *)
(* interrupt line, without the pipelines that compute the answer           *)
(* (makeviv/ip/sha256_accel_axi_1.0/hdl/org.vhd and the interrupt latch of *)
(* sha256_accel_axi_v1_0.vhd).                                             *)
(*                                                                         *)
(* A job is the data the registers STATE_IN, PREFIX, DIFFICULTY_MASK,      *)
(* NONCE_FIRST and NONCE_LAST hold: all a search depends on is which       *)
(* nonces hash to a digest that satisfies the mask (hits) and the two ends *)
(* of the range.                                                           *)
(***************************************************************************)
EXTENDS Integers

CONSTANTS
    N,          \* number of nonces; 2^32 in the hardware
    Jobs        \* the jobs the software may write, [hits, first, last]

Nonces == 0 .. N - 1

VARIABLES
    job,              \* the parameter registers
    start,            \* the nonce the present search began with
    status,           \* status_internal
    nonce_candidate,  \* nonce_candidate_internal
    irq,              \* one-cycle interrupt pulse of the engine
    external_irq      \* the latched interrupt line the processor sees

vars == <<job, start, status, nonce_candidate, irq, external_irq>>

(***************************************************************************)
(* The bits of the control register, each written as a one-cycle pulse.    *)
(***************************************************************************)
Controls == SUBSET {"RST", "RUN"}

\* Nonces are 32-bit words: the search wraps around.
Plus(n, k) == (n + k) % N

\* How many nonces the engine feeds from n on before it sees nonce_last.
FeedCount(n, last) == IF n = last THEN 1 ELSE (last + N - n) % N

\* The nonces it compares: all it feeds but the last one.
Tested(n, last) == { Plus(n, k) : k \in 0 .. (FeedCount(n, last) - 2) }

\* The nonces between n and c, c excluded, in the order of the search.
Before(n, c) == { Plus(n, k) : k \in 0 .. (((c + N - n) % N) - 1) }

(***************************************************************************)
(* A candidate is the first hit of the search, or the nonce the search     *)
(* began with: the first comparison looks at a digest of an earlier search.*)
(***************************************************************************)
Candidates ==
    { c \in Tested(start, job.last) :
         \/ c = start
         \/ c \in job.hits /\ Before(start, c) \cap job.hits = {} }

-----------------------------------------------------------------------------
Init ==
    /\ job \in Jobs
    /\ start = 0
    /\ status = "RDY"
    /\ nonce_candidate = 0
    /\ irq = FALSE
    /\ external_irq = FALSE

\* The software writes the parameter registers, which it does in RDY.
Configure(j) ==
    /\ status = "RDY"
    /\ job' = j
    /\ UNCHANGED <<start, status, nonce_candidate, irq, external_irq>>

\* Mutant: the pulse is not latched.
LatchPulseOnly(ack) == external_irq' = (~ack /\ irq)

\* Interrupt latch of the AXI wrapper: an acknowledge wins over a pulse.
Latch(ack) == external_irq' = (~ack /\ (external_irq \/ irq))

Reset ==
    /\ status' = "RDY"
    /\ irq' = FALSE
    /\ UNCHANGED <<start, nonce_candidate>>

Begin(n) ==
    /\ status' = "BUSY"
    /\ start' = n
    /\ irq' = FALSE
    /\ UNCHANGED nonce_candidate

Stay ==
    /\ irq' = FALSE
    /\ UNCHANGED <<start, status, nonce_candidate>>

\* The last nonce of the range has been fed.
Drain ==
    /\ status = "BUSY"
    /\ status' = "FIN"
    /\ irq' = FALSE
    /\ UNCHANGED <<start, nonce_candidate>>

\* The search ends without a candidate.
Exhaust ==
    /\ status = "FIN"
    /\ Tested(start, job.last) \cap job.hits = {}
    /\ status' = "IDLE"
    /\ irq' = TRUE
    /\ UNCHANGED <<start, nonce_candidate>>

Report(c) ==
    /\ status \in {"BUSY", "FIN"}
    /\ c \in Candidates
    /\ status' = "FOUND"
    /\ nonce_candidate' = c
    /\ irq' = TRUE
    /\ UNCHANGED start

(***************************************************************************)
(* One clock edge with the control bits ctrl and the acknowledge ack.  RUN *)
(* starts a search in RDY, resumes it behind the candidate in FOUND and is *)
(* ignored in every other state.                                           *)
(***************************************************************************)
Edge(ctrl, ack) ==
    /\ Latch(ack)
    /\ UNCHANGED job
    /\ \/ "RST" \in ctrl /\ Reset
       \/ /\ "RST" \notin ctrl
          /\ \/ "RUN" \in ctrl /\ status = "RDY" /\ Begin(job.first)
             \/ /\ "RUN" \in ctrl /\ status = "FOUND"
                /\ Begin(Plus(nonce_candidate, 1))
             \/ ~("RUN" \in ctrl /\ status \in {"RDY", "FOUND"}) /\ Stay
             \/ Drain
             \/ Exhaust
             \/ \E c \in Nonces : Report(c)

Next ==
    \/ \E j \in Jobs : Configure(j)
    \/ \E ctrl \in Controls, ack \in BOOLEAN : Edge(ctrl, ack)

\* The type invariant: every register holds a value of its width.
TypeOK ==
    /\ job \in Jobs
    /\ start \in Nonces /\ nonce_candidate \in Nonces
    /\ status \in {"RDY", "BUSY", "FIN", "IDLE", "FOUND"}
    /\ irq \in BOOLEAN /\ external_irq \in BOOLEAN

\* The clock never stops, and a search needs a bounded number of cycles.
Searching == status \in {"BUSY", "FIN"}

Settle == Searching /\ Next /\ status' \notin {"BUSY", "FIN"}

Spec == Init /\ [][Next]_vars

FairSpec == Spec /\ WF_vars(Settle)
=============================================================================
