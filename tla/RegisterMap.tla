----------------------------- MODULE RegisterMap -----------------------------
(***************************************************************************)
(* The registers of the accelerator as sha256_accel_axi_v1_0.vhd decodes   *)
(* them, word by word: what a write changes and what a read returns.       *)
(*                                                                         *)
(* Params are the words of STATE_IN, PREFIX, DIFFICULTY_MASK, NONCE_FIRST  *)
(* and NONCE_LAST.  STATUS stands for the registers the engine drives      *)
(* (NONCE_CANDIDATE, NONCE_CURRENT, STATUS), OTHER for STEP, DEBUG and the *)
(* addresses that are not decoded.                                         *)
(***************************************************************************)
EXTENDS Integers, Sequences

CONSTANTS
    LANES,      \* bytes of a word, 4 in the code
    BYTE,       \* values of a byte, 256 in the code
    Params,     \* the parameter words
    LastWord    \* the one that is reset to ones: NONCE_LAST

Lanes == 0 .. LANES - 1
Words == [Lanes -> 0 .. BYTE - 1]
Zeros == [b \in Lanes |-> 0]
Ones == [b \in Lanes |-> BYTE - 1]

Addresses == Params \cup {"STATUS", "CONTROL", "IRQ_MASK", "OTHER"}

\* A write names an address, the data and the lanes its strobes select.
Writes == [addr : Addresses, data : Words, strb : SUBSET Lanes]

ASSUME LanesAssumption == LANES \in Nat \ {0} /\ BYTE \in Nat \ {0, 1}
ASSUME ParamsAssumption ==
    /\ LastWord \in Params
    /\ Params \cap {"STATUS", "CONTROL", "IRQ_MASK", "OTHER"} = {}

ParamsAtReset == [p \in Params |-> IF p = LastWord THEN Ones ELSE Zeros]

\* Mutant: the lanes are added up instead of replaced.
MergeSum(old, w) ==
    [b \in Lanes |-> IF b \in w.strb THEN old[b] + w.data[b] ELSE old[b]]

\* The lanes without a strobe keep their value.
Merge(old, w) == [b \in Lanes |-> IF b \in w.strb THEN w.data[b] ELSE old[b]]

\* Registers that are read only, or not decoded, ignore the write.
Written(params, w) ==
    IF w.addr \in Params
    THEN [params EXCEPT ![w.addr] = Merge(params[w.addr], w)] ELSE params

\* CONTROL and IRQ_MASK hold what is written for one cycle.
ControlOf(w) == IF w.addr = "CONTROL" THEN Merge(Zeros, w) ELSE Zeros
Acknowledges(w) ==
    w.addr = "IRQ_MASK" /\ 0 \in w.strb /\ w.data[0] % 2 = 1

\* CONTROL, IRQ_MASK and STEP are write only.
ReadOf(params, engine, addr) ==
    CASE addr \in Params   -> params[addr]
      [] addr = "STATUS"   -> engine
      [] OTHER             -> Zeros
=============================================================================
